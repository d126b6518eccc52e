---------------------------- MODULE Session_proofs --------------------------
(***************************************************************************)
(* The properties of Session.tla, for any number of callers, entries,      *)
(* crashes and faults, and its refinement of SessionTree.tla.              *)
(***************************************************************************)
EXTENDS Session, FiniteSetTheorems, SequenceTheorems, WellFoundedInduction, NaturalsInduction, TLAPS

-----------------------------------------------------------------------------
(* Lines and entries.                                                      *)

\* What a file gives before its first line that is no entry: Written is that
\* of the session's file.
Readable(f) ==
  [i \in {n \in 1 .. Len(f) : \A j \in 1 .. n : f[j].kind = "entry"} |-> f[i].entry]

LEMMA WrittenIsReadable == Written = Readable(file) /\ Written' = Readable(file')
  BY DEF Written, Readable

LEMMA Constants ==
  /\ NoEntry \in EntrySet /\ Ragged \in LineSet /\ Spoiled \in LineSet
  /\ Ragged.kind = "ragged" /\ Spoiled.kind = "spoiled"
  /\ Idle \in OpSet /\ Idle.pc = "idle"
  BY DEF NoEntry, Ragged, Spoiled, Idle, Entry, EntrySet, Types, LineSet, OpSet

LEMMA LineTyped ==
  ASSUME NEW e \in EntrySet
  PROVE  Line(e) \in LineSet /\ Line(e).kind = "entry" /\ Line(e).entry = e
  BY DEF Line, LineSet

LEMMA EntryTyped ==
  ASSUME NEW type \in Types, NEW id \in Nat, NEW parent \in Nat, NEW target \in Nat
  PROVE  /\ Entry(type, id, parent, target) \in EntrySet
         /\ Entry(type, id, parent, target).type = type
         /\ Entry(type, id, parent, target).id = id
         /\ Entry(type, id, parent, target).parentId = parent
         /\ Entry(type, id, parent, target).targetId = target
  BY DEF Entry, EntrySet

LEMMA EntryFields ==
  ASSUME NEW e \in EntrySet
  PROVE  /\ e.type \in Types /\ e.id \in Nat /\ e.parentId \in Nat /\ e.targetId \in Nat
         /\ leafIdAfterEntry(e) \in Nat
  BY DEF EntrySet, leafIdAfterEntry

\* A line lands behind whole lines, or spoils a ragged one.
LEMMA LineLands ==
  ASSUME NEW f \in Seq(LineSet), NEW e \in EntrySet
  PROVE  /\ WithLine(f, e) \in Seq(LineSet)
         /\ Loads(f) => WithLine(f, e) = Append(f, Line(e)) /\ Loads(WithLine(f, e))
         /\ ~Loads(f) => ~Loads(WithLine(f, e))
<1>1. Line(e) \in LineSet /\ Line(e).kind = "entry"
  BY LineTyped
<1>2. CASE IsRagged(f)
  <2>1. Len(f) \in 1..Len(f) /\ f[Len(f)].kind = "ragged"
    BY <1>2, EmptySeq DEF IsRagged
  <2>2. WithLine(f, e) = [f EXCEPT ![Len(f)] = Spoiled]
    BY <1>2 DEF WithLine
  <2>3. /\ WithLine(f, e) \in Seq(LineSet) /\ Len(WithLine(f, e)) = Len(f)
        /\ WithLine(f, e)[Len(f)] = Spoiled
    BY <2>1, <2>2, Constants, ExceptSeq
  <2> QED
    BY <2>1, <2>3, Constants DEF Loads
<1>3. CASE ~IsRagged(f)
  <2>1. WithLine(f, e) = Append(f, Line(e))
    BY <1>3 DEF WithLine
  <2>2. /\ WithLine(f, e) \in Seq(LineSet) /\ Len(WithLine(f, e)) = Len(f) + 1
        /\ \A i \in 1..Len(f) : WithLine(f, e)[i] = f[i]
        /\ WithLine(f, e)[Len(f) + 1] = Line(e) /\ Len(f) \in Nat
    BY <1>1, <2>1, AppendProperties
  <2>3. Loads(f) => Loads(WithLine(f, e))
    <3> SUFFICES ASSUME Loads(f), NEW i \in 1..(Len(f) + 1) PROVE WithLine(f, e)[i].kind = "entry"
      BY <2>2 DEF Loads
    <3>1. CASE i = Len(f) + 1
      BY <1>1, <2>2, <3>1
    <3>2. CASE i \in 1..Len(f)
      BY <2>2, <3>2 DEF Loads
    <3> QED
      BY <2>2, <3>1, <3>2
  <2>4. Loads(WithLine(f, e)) => Loads(f)
    <3> SUFFICES ASSUME Loads(WithLine(f, e)), NEW i \in 1..Len(f) PROVE f[i].kind = "entry"
      BY DEF Loads
    <3>1. i \in 1..Len(WithLine(f, e))
      BY <2>2
    <3> QED
      BY <2>2, <3>1 DEF Loads
  <2> QED
    BY <2>1, <2>2, <2>3, <2>4
<1> QED
  BY <1>2, <1>3

\* A torn line makes the file unreadable from there on, and changes nothing
\* before.
LEMMA LineTears ==
  ASSUME NEW f \in Seq(LineSet)
  PROVE  /\ WithTear(f) \in Seq(LineSet) /\ ~Loads(WithTear(f))
         /\ Readable(WithTear(f)) = Readable(f)
<1>1. CASE IsRagged(f)
  <2>1. Len(f) \in 1..Len(f) /\ f[Len(f)].kind = "ragged"
    BY <1>1, EmptySeq DEF IsRagged
  <2> QED
    BY <1>1, <2>1 DEF WithTear, Loads
<1>2. CASE ~IsRagged(f)
  <2>1. /\ WithTear(f) \in Seq(LineSet) /\ Len(WithTear(f)) = Len(f) + 1
        /\ \A i \in 1..Len(f) : WithTear(f)[i] = f[i]
        /\ WithTear(f)[Len(f) + 1].kind = "ragged" /\ Len(f) \in Nat
    BY <1>2, Constants, AppendProperties DEF WithTear
  <2>2. ~Loads(WithTear(f))
    <3>1. Len(f) + 1 \in 1..Len(WithTear(f))
      BY <2>1
    <3> QED
      BY <2>1, <3>1 DEF Loads
  <2> DEFINE whole(g) == {n \in 1 .. Len(g) : \A j \in 1 .. n : g[j].kind = "entry"}
  <2>3. whole(WithTear(f)) = whole(f)
    <3>1. ASSUME NEW n \in whole(WithTear(f)) PROVE n \in whole(f)
      <4>1. n \in 1..(Len(f) + 1) /\ \A j \in 1..n : WithTear(f)[j].kind = "entry"
        BY <2>1
      <4>2. n # Len(f) + 1
        BY <2>1, <4>1
      <4>3. n \in 1..Len(f) /\ \A j \in 1..n : j \in 1..Len(f)
        BY <2>1, <4>1, <4>2
      <4> QED
        BY <2>1, <4>1, <4>3
    <3>2. ASSUME NEW n \in whole(f) PROVE n \in whole(WithTear(f))
      <4>1. n \in 1..Len(f) /\ \A j \in 1..n : f[j].kind = "entry" /\ j \in 1..Len(f)
        OBVIOUS
      <4>2. n \in 1..Len(WithTear(f))
        BY <2>1, <4>1
      <4> QED
        BY <2>1, <4>1, <4>2
    <3> QED
      BY <3>1, <3>2
  <2>4. \A n \in whole(f) : WithTear(f)[n] = f[n]
    BY <2>1
  <2> QED
    BY <2>1, <2>2, <2>3, <2>4 DEF Readable
<1> QED
  BY <1>1, <1>2

\* What is read of a file that loads: all of it.
LEMMA ReadsAll ==
  ASSUME NEW f \in Seq(LineSet), Loads(f)
  PROVE  /\ Readable(f) = [i \in 1..Len(f) |-> f[i].entry]
         /\ Readable(f) \in Seq(EntrySet) /\ Len(Readable(f)) = Len(f) /\ Len(f) \in Nat
<1>1. {n \in 1 .. Len(f) : \A j \in 1 .. n : f[j].kind = "entry"} = 1..Len(f)
  <2> SUFFICES ASSUME NEW n \in 1..Len(f), NEW j \in 1..n PROVE f[j].kind = "entry"
    OBVIOUS
  <2>1. j \in 1..Len(f)
    OBVIOUS
  <2> QED
    BY <2>1 DEF Loads
<1>2. Readable(f) = [i \in 1..Len(f) |-> f[i].entry]
  BY <1>1 DEF Readable
<1>3. \A i \in 1..Len(f) : f[i].entry \in EntrySet
  <2>1. \A i \in 1..Len(f) : f[i] \in LineSet
    OBVIOUS
  <2> QED
    BY <2>1 DEF LineSet
<1>4. Len(f) \in Nat
  OBVIOUS
<1> QED
  BY <1>2, <1>3, <1>4

LEMMA ReadsTheLine ==
  ASSUME NEW f \in Seq(LineSet), NEW e \in EntrySet, Loads(f)
  PROVE  Readable(WithLine(f, e)) = Append(Readable(f), e)
<1> DEFINE g == WithLine(f, e)
<1>1. g \in Seq(LineSet) /\ g = Append(f, Line(e)) /\ Loads(g)
  BY LineLands
<1>2. Len(g) = Len(f) + 1 /\ (\A i \in 1..Len(f) : g[i] = f[i]) /\ g[Len(f) + 1].entry = e
  BY <1>1, LineTyped, AppendProperties
<1> HIDE DEF g
<1>3. /\ Readable(g) = [i \in 1..Len(g) |-> g[i].entry]
      /\ Readable(g) \in Seq(EntrySet) /\ Len(Readable(g)) = Len(f) + 1
      /\ Readable(f) = [i \in 1..Len(f) |-> f[i].entry]
      /\ Readable(f) \in Seq(EntrySet) /\ Len(Readable(f)) = Len(f) /\ Len(f) \in Nat
  BY <1>1, <1>2, ReadsAll
<1> DEFINE r == Append(Readable(f), e)
<1>4. /\ r \in Seq(EntrySet) /\ Len(r) = Len(f) + 1
      /\ \A i \in 1..Len(f) : r[i] = Readable(f)[i]
      /\ r[Len(f) + 1] = e
  BY <1>3, AppendProperties
<1>5. ASSUME NEW i \in 1..(Len(f) + 1) PROVE r[i] = Readable(g)[i]
  <2> HIDE DEF r
  <2>1. CASE i = Len(f) + 1
    BY <1>2, <1>3, <1>4, <2>1
  <2>2. CASE i \in 1..Len(f)
    BY <1>2, <1>3, <1>4, <2>2
  <2> QED
    BY <1>3, <2>1, <2>2
<1> HIDE DEF r
<1>6. r = Readable(g)
  BY <1>3, <1>4, <1>5, SeqEqual
<1> QED
  BY <1>6 DEF r, g

LEMMA IdsAppend ==
  ASSUME NEW es \in Seq(EntrySet), NEW e \in EntrySet
  PROVE  /\ Append(es, e) \in Seq(EntrySet) /\ Append(es, e) # <<>>
         /\ Len(Append(es, e)) = Len(es) + 1 /\ Len(es) \in Nat
         /\ \A i \in 1..Len(es) : Append(es, e)[i] = es[i]
         /\ Append(es, e)[Len(es) + 1] = e
         /\ Ids(Append(es, e)) = Ids(es) \union {e.id}
<1>1. /\ Append(es, e) \in Seq(EntrySet) /\ Append(es, e) # <<>>
      /\ Len(Append(es, e)) = Len(es) + 1 /\ Len(es) \in Nat
      /\ \A i \in 1..Len(es) : Append(es, e)[i] = es[i]
      /\ Append(es, e)[Len(es) + 1] = e
  BY AppendProperties, EmptySeq
<1>2. 1..(Len(es) + 1) = 1..Len(es) \union {Len(es) + 1}
  BY <1>1
<1>3. Ids(Append(es, e)) = {Append(es, e)[i].id : i \in 1..Len(es) \union {Len(es) + 1}}
  BY <1>1, <1>2 DEF Ids
<1>4. Ids(Append(es, e)) = {es[i].id : i \in 1..Len(es)} \union {e.id}
  BY <1>1, <1>3
<1> QED
  BY <1>1, <1>4 DEF Ids

LEMMA IdsEmpty == Ids(<<>>) = {} /\ LoadedLeaf(<<>>) = 0 /\ BuildLabels(<<>>) = {} /\ WellFounded(<<>>)
<1>1. Len(<<>>) = 0 /\ 1..0 = {}
  OBVIOUS
<1>2. Ids(<<>>) = {} /\ LoadedLeaf(<<>>) = 0
  BY <1>1 DEF Ids, LoadedLeaf
<1>3. BuildLabels(<<>>) = {}
  BY <1>1 DEF BuildLabels
<1> QED
  BY <1>1, <1>2, <1>3 DEF WellFounded

LEMMA IdsTyped ==
  ASSUME NEW es \in Seq(EntrySet)
  PROVE  Ids(es) \subseteq Nat /\ LoadedLeaf(es) \in Nat
<1>1. \A i \in 1..Len(es) : es[i] \in EntrySet
  OBVIOUS
<1>2. Ids(es) \subseteq Nat
  BY <1>1, EntryFields DEF Ids
<1>3. es # <<>> => Len(es) \in 1..Len(es)
  BY EmptySeq
<1> QED
  BY <1>1, <1>2, <1>3, EntryFields DEF LoadedLeaf

LEMMA LeafAfterAppend ==
  ASSUME NEW es \in Seq(EntrySet), NEW e \in EntrySet
  PROVE  LoadedLeaf(Append(es, e)) = leafIdAfterEntry(e)
  BY IdsAppend DEF LoadedLeaf

-----------------------------------------------------------------------------
(* What an append adds to a list of entries.                               *)

\* The labels of a longer list are those updateLabelCache makes of the
\* shorter one's: the cache in memory is what a load would build.
LEMMA LabelsAppend ==
  ASSUME NEW es \in Seq(EntrySet), NEW e \in EntrySet
  PROVE  BuildLabels(Append(es, e)) = UpdateLabels(BuildLabels(es), e)
<1> DEFINE n == Len(es)
           gs == Append(es, e)
           speaks(x) == x.type \in {"label", "unlabel"}
           last(s, j) == /\ s[j].type = "label"
                         /\ \A k \in j + 1 .. Len(s) : speaks(s[k]) => s[k].targetId # s[j].targetId
           pair(x) == <<x.targetId, x.id>>
<1>1. /\ Len(gs) = n + 1 /\ n \in Nat /\ gs[n + 1] = e
      /\ \A i \in 1..n : gs[i] = es[i]
  BY IdsAppend
<1>2. /\ \A p : p \in BuildLabels(es) <=> \E j \in 1..n : last(es, j) /\ p = pair(es[j])
      /\ \A p : p \in BuildLabels(gs) <=> \E j \in 1..(n + 1) : last(gs, j) /\ p = pair(gs[j])
  BY <1>1 DEF BuildLabels
<1> HIDE DEF n, gs
<1>3. ASSUME NEW j \in 1..n
      PROVE  last(gs, j) <=> last(es, j) /\ ~(speaks(e) /\ e.targetId = es[j].targetId)
  <2>1. j + 1 .. Len(gs) = (j + 1 .. n) \union {n + 1}
    BY <1>1
  <2>2. \A k \in j + 1 .. n : gs[k] = es[k]
    BY <1>1
  <2>3. last(gs, j) <=> /\ es[j].type = "label"
                        /\ \A k \in (j + 1 .. n) \union {n + 1} :
                             speaks(gs[k]) => gs[k].targetId # es[j].targetId
    BY <1>1, <2>1
  <2>4. last(gs, j) <=> /\ es[j].type = "label"
                        /\ \A k \in j + 1 .. n : speaks(es[k]) => es[k].targetId # es[j].targetId
                        /\ speaks(e) => e.targetId # es[j].targetId
    BY <1>1, <2>2, <2>3
  <2>5. Len(es) = n
    BY DEF n
  <2> QED
    BY <2>4, <2>5
<1>4. last(gs, n + 1) <=> e.type = "label"
  BY <1>1
<1>5. ASSUME NEW p
      PROVE  p \in BuildLabels(gs)
               <=> \/ \E j \in 1..n : /\ last(es, j) /\ ~(speaks(e) /\ e.targetId = es[j].targetId)
                                      /\ p = pair(es[j])
                   \/ e.type = "label" /\ p = pair(e)
  <2>1. p \in BuildLabels(gs) <=> \/ \E j \in 1..n : last(gs, j) /\ p = pair(gs[j])
                                  \/ last(gs, n + 1) /\ p = pair(gs[n + 1])
    <3>1. 1..(n + 1) = 1..n \union {n + 1}
      BY <1>1
    <3> HIDE DEF last, pair
    <3> QED
      BY <1>2, <3>1
  <2> HIDE DEF last, pair, speaks
  <2> QED
    BY <1>1, <1>3, <1>4, <2>1
<1>6. ASSUME NEW p
      PROVE  p \in UpdateLabels(BuildLabels(es), e)
               <=> \/ p \in BuildLabels(es) /\ (speaks(e) => p[1] # e.targetId)
                   \/ e.type = "label" /\ p = pair(e)
  BY DEF UpdateLabels
<1>7. \A x : pair(x)[1] = x.targetId
  OBVIOUS
<1>8. ASSUME NEW p
      PROVE  p \in BuildLabels(gs) <=> p \in UpdateLabels(BuildLabels(es), e)
  <2> HIDE DEF last, pair, speaks
  <2> QED
    BY <1>2, <1>5, <1>6, <1>7
<1> QED
  BY <1>8 DEF gs

LEMMA LabelsTyped ==
  ASSUME NEW es \in Seq(EntrySet)
  PROVE  BuildLabels(es) \subseteq Nat \X Nat
<1>1. \A i \in 1..Len(es) : es[i].targetId \in Nat /\ es[i].id \in Nat
  BY EntryFields
<1> QED
  BY <1>1 DEF BuildLabels

LEMMA UpdateTyped ==
  ASSUME NEW labels \in SUBSET (Nat \X Nat), NEW e \in EntrySet
  PROVE  UpdateLabels(labels, e) \subseteq Nat \X Nat
  BY EntryFields DEF UpdateLabels

\* An entry refers to entries of es, or to the root.
Below(e, es) ==
  /\ e.parentId \in Ids(es) \union {0}
  /\ e.type = "leaf" => e.targetId \in Ids(es) \union {0}

LEMMA StaysWellFounded ==
  ASSUME NEW es \in Seq(EntrySet), NEW e \in EntrySet, WellFounded(es), Below(e, es)
  PROVE  WellFounded(Append(es, e))
<1> DEFINE n == Len(es)
           gs == Append(es, e)
<1>1. /\ Len(gs) = n + 1 /\ n \in Nat /\ gs[n + 1] = e
      /\ \A i \in 1..n : gs[i] = es[i]
      /\ Ids(gs) = Ids(es) \union {e.id} /\ LoadedLeaf(gs) = leafIdAfterEntry(e)
  BY IdsAppend, LeafAfterAppend
<1>2. Ids(es) = {es[i].id : i \in 1..n}
  BY DEF Ids
<1> HIDE DEF gs
<1>3. ASSUME NEW i \in 1..(n + 1)
      PROVE  gs[i].parentId = 0 \/ \E j \in 1 .. i - 1 : gs[j].id = gs[i].parentId
  <2>1. CASE i \in 1..n
    <3>1. es[i].parentId = 0 \/ \E j \in 1 .. i - 1 : es[j].id = es[i].parentId
      BY <2>1 DEF WellFounded
    <3>2. \A j \in 1..i - 1 : j \in 1..n
      BY <1>1, <2>1
    <3> QED
      BY <1>1, <2>1, <3>1, <3>2
  <2>2. CASE i = n + 1
    <3>1. e.parentId = 0 \/ \E j \in 1..n : es[j].id = e.parentId
      BY <1>2 DEF Below
    <3> QED
      BY <1>1, <2>2, <3>1
  <2> QED
    BY <1>1, <2>1, <2>2
<1>4. LoadedLeaf(gs) = 0 \/ LoadedLeaf(gs) \in Ids(gs)
  BY <1>1 DEF Below, leafIdAfterEntry
<1> HIDE DEF n
<1> QED
  BY <1>1, <1>3, <1>4 DEF WellFounded, gs

LEMMA BelowMore ==
  ASSUME NEW e, NEW es, NEW gs, Below(e, es), Ids(es) \subseteq Ids(gs)
  PROVE  Below(e, gs)
  BY DEF Below

-----------------------------------------------------------------------------
(* Types.                                                                  *)

LEMMA OpTyped ==
  ASSUME TypeOK, NEW w \in Writers
  PROVE  op[w] \in OpSet /\ op[w].entry \in EntrySet /\ op[w].more \in BOOLEAN
  BY DEF TypeOK, OpSet

LEMMA AskTyped ==
  ASSUME TypeOK, NEW w \in Writers, NEW type \in Types, NEW parent \in Nat, NEW target \in Nat,
         NEW more \in BOOLEAN, Ask(w, type, parent, target, more)
  PROVE  TypeOK'
<1> DEFINE o == [pc |-> "append", entry |-> Entry(type, nextId + 1, parent, target), more |-> more]
<1>1. o \in OpSet /\ nextId' \in Nat
  BY EntryTyped DEF Ask, TypeOK, OpSet
<1>2. op' = [op EXCEPT ![w] = o]
  BY DEF Ask
<1> HIDE DEF o
<1> QED
  BY <1>1, <1>2 DEF Ask, TypeOK, memVars, histVars

\* Every call of the session asks for one entry, or prepares a compaction.
Appends(w) ==
  \/ AppendMessage(w) \/ AppendCompaction(w) \/ AppendSummary(w)
  \/ \E t \in 0 .. MaxEntries :
       AppendLabel(w, t) \/ \E summarize \in BOOLEAN : MoveTo(w, t, summarize)

LEMMA Callers ==
  ASSUME NEW w \in Writers, Call(w)
  PROVE  Appends(w) \/ \E t \in 0 .. MaxEntries : PrepareCompaction(w, t)
  BY DEF Call, Appends

\* What an append asks for: its type, parent and target are those of the code
\* path it comes from.
Asks(w, type, parent, target, more) ==
  /\ Ask(w, type, parent, target, more)
  /\ nextId < MaxEntries /\ type \in Types /\ more \in BOOLEAN
  /\ more => type = "leaf"
  /\ \/ MayCall(w) /\ parent = currentLeafId /\ type # "compaction"
        /\ (type = "leaf" => target \in Ids(entries) \union {0})
        /\ target \in 0..MaxEntries
     \/ /\ op[w].pc = "compacting" /\ type = "compaction"
        /\ parent = currentLeafId /\ target = op[w].entry.targetId
     \/ /\ op[w].pc = "summary" /\ type = "branch_summary"
        /\ parent = op[w].entry.targetId /\ target = 0

LEMMA WhatIsAsked ==
  ASSUME SessionAssumption, NEW w \in Writers, Appends(w)
  PROVE  \E type, parent, target, more : Asks(w, type, parent, target, more)
<1>0. MaxEntries \in Nat /\ 0 \in 0..MaxEntries
  BY DEF SessionAssumption
<1>1. CASE AppendMessage(w)
  <2>1. Asks(w, "message", currentLeafId, 0, FALSE)
    BY <1>0, <1>1 DEF AppendMessage, Asks, Types, MayCall
  <2> QED
    BY <2>1
<1>2. CASE AppendCompaction(w)
  <2>1. Asks(w, "compaction", currentLeafId, op[w].entry.targetId, FALSE)
    BY <1>2 DEF AppendCompaction, Asks, Types
  <2> QED
    BY <2>1
<1>3. CASE AppendSummary(w)
  <2>1. Asks(w, "branch_summary", op[w].entry.targetId, 0, FALSE)
    BY <1>3 DEF AppendSummary, Asks, Types
  <2> QED
    BY <2>1
<1>4. ASSUME NEW t \in 0..MaxEntries, AppendLabel(w, t)
      PROVE  \E type, parent, target, more : Asks(w, type, parent, target, more)
  <2>1. PICK type \in {"label", "unlabel"} : Ask(w, type, currentLeafId, t, FALSE)
    BY <1>4 DEF AppendLabel
  <2>2. Asks(w, type, currentLeafId, t, FALSE)
    BY <1>4, <2>1 DEF AppendLabel, Asks, Types, MayCall
  <2> QED
    BY <2>2
<1>5. ASSUME NEW t \in 0..MaxEntries, NEW summarize \in BOOLEAN, MoveTo(w, t, summarize)
      PROVE  \E type, parent, target, more : Asks(w, type, parent, target, more)
  <2>1. Asks(w, "leaf", currentLeafId, t, summarize)
    BY <1>5 DEF MoveTo, Asks, Types, MayCall
  <2> QED
    BY <2>1
<1> QED
  BY <1>1, <1>2, <1>3, <1>4, <1>5 DEF Appends

LEMMA AskedTypes ==
  ASSUME TypeOK, SessionAssumption, NEW w \in Writers, NEW type, NEW parent, NEW target, NEW more,
         Asks(w, type, parent, target, more)
  PROVE  type \in Types /\ parent \in Nat /\ target \in Nat /\ more \in BOOLEAN
<1>1. op[w].entry.targetId \in Nat /\ currentLeafId \in Nat /\ MaxEntries \in Nat
  BY OpTyped, EntryFields DEF TypeOK, SessionAssumption
<1> QED
  BY <1>1 DEF Asks

LEMMA PreparedTyped ==
  ASSUME TypeOK, SessionAssumption, NEW w \in Writers, NEW t \in 0..MaxEntries,
         PrepareCompaction(w, t)
  PROVE  TypeOK'
<1> DEFINE o == [pc |-> "compacting", entry |-> Entry("compaction", 0, 0, t), more |-> FALSE]
<1>1. o \in OpSet
  <2>1. t \in Nat /\ "compaction" \in Types
    BY DEF SessionAssumption, Types
  <2> QED
    BY <2>1, EntryTyped DEF OpSet
<1>2. op' = [op EXCEPT ![w] = o]
  BY DEF PrepareCompaction
<1> HIDE DEF o
<1> QED
  BY <1>1, <1>2 DEF PrepareCompaction, TypeOK, memVars, histVars

LEMMA StorageTyped ==
  ASSUME TypeOK, SessionAssumption, NEW w \in Writers, Storage(w)
  PROVE  TypeOK'
<1> DEFINE e == op[w].entry
<1>1. op[w] \in OpSet /\ e \in EntrySet /\ op[w].more \in BOOLEAN /\ Idle \in OpSet
  BY OpTyped, Constants
<1>2. CASE Land(w)
  <2>1. file' \in Seq(LineSet)
    BY <1>1, <1>2, LineLands DEF Land, TypeOK
  <2>2. op' \in [Writers -> OpSet]
    BY <1>1, <1>2 DEF Land, TypeOK, OpSet
  <2> QED
    BY <1>2, <2>1, <2>2 DEF Land, TypeOK, memVars, histVars
<1>3. CASE AppendFails(w)
  BY <1>1, <1>3 DEF AppendFails, TypeOK, memVars
<1>4. CASE AppendTears(w)
  <2>1. file' \in Seq(LineSet)
    BY <1>4, LineTears DEF AppendTears, TypeOK
  <2> QED
    BY <1>1, <1>4, <2>1 DEF AppendTears, TypeOK, memVars
<1>5. CASE Resolve(w)
  <2>1. entries' \in Seq(EntrySet)
    BY <1>1, <1>5, IdsAppend DEF Resolve, TypeOK
  <2>2. labelsById' \subseteq Nat \X Nat
    BY <1>1, <1>5, UpdateTyped DEF Resolve, TypeOK
  <2>3. currentLeafId' \in Nat /\ acked' \subseteq Nat
    BY <1>1, <1>5, EntryFields DEF Resolve, TypeOK
  <2>4. op' \in [Writers -> OpSet]
    <3>1. op' = [op EXCEPT ![w] = IF op[w].more THEN [op[w] EXCEPT !.pc = "summary"] ELSE Idle]
      BY <1>5 DEF Resolve
    <3>2. [op[w] EXCEPT !.pc = "summary"] \in OpSet
      BY <1>1 DEF OpSet
    <3> QED
      BY <1>1, <3>1, <3>2 DEF TypeOK
  <2> QED
    BY <1>5, <2>1, <2>2, <2>3, <2>4 DEF Resolve, TypeOK, histVars
<1> QED
  BY <1>2, <1>3, <1>4, <1>5 DEF Storage

LEMMA CrashTyped ==
  ASSUME TypeOK, Crash
  PROVE  TypeOK'
<1>1. file' \in Seq(LineSet)
  BY LineTears DEF Crash, TypeOK
<1>2. op' \in [Writers -> OpSet] /\ Idle \in OpSet
  BY Constants DEF Crash
<1>3. entries' \in Seq(EntrySet) /\ currentLeafId' \in Nat /\ labelsById' \subseteq Nat \X Nat
  BY DEF Crash
<1>4. /\ opened' \in BOOLEAN /\ nextId' \in Nat /\ acked' \subseteq Nat
      /\ crashes' \in Nat /\ faults' \in Nat /\ tears' \in Nat
  <2>1. nextId' = nextId /\ acked' = acked /\ faults' = faults /\ tears' = tears /\ crashes' = crashes + 1
    BY DEF Crash
  <2>2. opened' \in BOOLEAN
    BY DEF Crash
  <2>3. crashes \in Nat /\ faults \in Nat /\ tears \in Nat /\ nextId \in Nat /\ acked \subseteq Nat
    BY DEF TypeOK
  <2> QED
    BY <2>1, <2>2, <2>3
<1> QED
  BY <1>1, <1>2, <1>3, <1>4 DEF TypeOK

LEMMA OpenTyped ==
  ASSUME TypeOK, Open
  PROVE  TypeOK'
<1>1. Written \in Seq(EntrySet)
  BY ReadsAll, WrittenIsReadable DEF Open, TypeOK
<1>2. LoadedLeaf(Written) \in Nat /\ BuildLabels(Written) \subseteq Nat \X Nat
  BY <1>1, IdsTyped, LabelsTyped
<1> QED
  BY <1>1, <1>2 DEF Open, TypeOK, histVars

LEMMA TypesKept ==
  ASSUME TypeOK, SessionAssumption, [Next]_vars
  PROVE  TypeOK'
<1>1. ASSUME NEW w \in Writers, Call(w) PROVE TypeOK'
  <2>1. CASE Appends(w)
    <3>1. PICK type, parent, target, more : Asks(w, type, parent, target, more)
      BY <2>1, WhatIsAsked
    <3> QED
      BY <3>1, AskedTypes, AskTyped DEF Asks
  <2> QED
    BY <1>1, <2>1, Callers, PreparedTyped
<1>2. CASE UNCHANGED vars
  BY <1>2 DEF vars, memVars, histVars, TypeOK
<1> QED
  BY <1>1, <1>2, StorageTyped, CrashTyped, OpenTyped DEF Next

LEMMA TypesStart == Init => TypeOK
<1> SUFFICES ASSUME Init PROVE TypeOK
  OBVIOUS
<1>1. <<>> \in Seq(LineSet) /\ <<>> \in Seq(EntrySet) /\ Idle \in OpSet
  BY Constants
<1> QED
  BY <1>1 DEF Init, TypeOK

\* Every variable has a value of its type, for any number of callers,
\* entries, crashes and faults.
THEOREM SessionTyping == Spec => []TypeOK
<1>1. TypeOK /\ [Next]_vars => TypeOK'
  BY TypesKept, SessionAssumption
<1> QED
  BY <1>1, TypesStart, PTL DEF Spec

-----------------------------------------------------------------------------
(* The tree, whoever appends at the same time.                             *)

\* What a caller has under way refers to what is in the memory.
CallsAreBelow ==
  \A w \in Writers :
    /\ op[w].pc \in {"append", "landed"} =>
         Below(op[w].entry, entries) /\ (op[w].more => op[w].entry.type = "leaf")
    /\ op[w].pc = "summary" => op[w].entry.targetId \in Ids(entries) \union {0}

\* The memory of an open session is what a load of its entries would make.
MemoryIsLoaded ==
  /\ WellFounded(entries) /\ currentLeafId = LoadedLeaf(entries)
  /\ labelsById = BuildLabels(entries)

\* A file that loads has all that the memory has, and what has landed.
FileIsAhead ==
  /\ WellFounded(Written) /\ acked \subseteq Ids(Written) /\ Ids(entries) \subseteq Ids(Written)
  /\ \A w \in Writers : op[w].pc = "landed" => op[w].entry.id \in Ids(Written)

SharedInv ==
  /\ ~opened => op = [w \in Writers |-> Idle] /\ entries = <<>>
  /\ opened => MemoryIsLoaded /\ acked \subseteq Ids(entries)
  /\ CallsAreBelow
  /\ Loads(file) => FileIsAhead

LEMMA SharedStarts == Init => SharedInv
<1> SUFFICES ASSUME Init PROVE SharedInv
  OBVIOUS
<1>1. \A w \in Writers : op[w].pc = "idle"
  BY Constants DEF Init
<1>2. entries = <<>> /\ file = <<>> /\ acked = {} /\ currentLeafId = 0 /\ labelsById = {} /\ opened
  BY DEF Init
<1>3. Written = <<>>
  <2>1. <<>> \in Seq(LineSet) /\ Len(<<>>) = 0 /\ Loads(<<>>)
    BY DEF Loads
  <2>2. Readable(<<>>) \in Seq(EntrySet) /\ Len(Readable(<<>>)) = 0
    BY <2>1, ReadsAll
  <2> QED
    BY <1>2, <2>2, EmptySeq, WrittenIsReadable
<1> QED
  BY <1>1, <1>2, <1>3, IdsEmpty DEF SharedInv, MemoryIsLoaded, CallsAreBelow, FileIsAhead

\* What is under way, and an open session, find their entries.
LEMMA Known ==
  ASSUME TypeOK, SharedInv, opened
  PROVE  currentLeafId \in Ids(entries) \union {0}
<1>1. LoadedLeaf(entries) = 0 \/ LoadedLeaf(entries) \in Ids(entries)
  BY DEF SharedInv, MemoryIsLoaded, WellFounded
<1> QED
  BY <1>1 DEF SharedInv, MemoryIsLoaded

LEMMA BusyMeansOpen ==
  ASSUME SharedInv, NEW w \in Writers, op[w].pc # "idle"
  PROVE  opened
  BY Constants DEF SharedInv

LEMMA AsksBelow ==
  ASSUME TypeOK, SessionAssumption, SharedInv, NEW w \in Writers,
         NEW type, NEW parent, NEW target, NEW more, Asks(w, type, parent, target, more)
  PROVE  opened /\ Below(Entry(type, nextId + 1, parent, target), entries)
<1>1. opened
  BY BusyMeansOpen DEF Asks, MayCall
<1>2. parent \in Ids(entries) \union {0} /\ (type = "leaf" => target \in Ids(entries) \union {0})
  BY <1>1, Known DEF Asks, SharedInv, CallsAreBelow
<1>3. /\ Entry(type, nextId + 1, parent, target).parentId = parent
      /\ Entry(type, nextId + 1, parent, target).type = type
      /\ Entry(type, nextId + 1, parent, target).targetId = target
  BY DEF Entry
<1> QED
  BY <1>1, <1>2, <1>3 DEF Below

LEMMA AppendsShared ==
  ASSUME TypeOK, SessionAssumption, SharedInv, NEW w \in Writers, Appends(w)
  PROVE  SharedInv'
<1>1. PICK type, parent, target, more : Asks(w, type, parent, target, more)
  BY WhatIsAsked
<1> DEFINE o == [pc |-> "append", entry |-> Entry(type, nextId + 1, parent, target), more |-> more]
<1>2. /\ op' = [op EXCEPT ![w] = o]
      /\ UNCHANGED <<file, opened, entries, currentLeafId, labelsById, acked>>
  BY <1>1 DEF Asks, Ask, memVars
<1>3. opened /\ Below(o.entry, entries) /\ o.pc = "append" /\ (o.more => o.entry.type = "leaf")
  BY <1>1, AsksBelow DEF Asks, Entry
<1> HIDE DEF o
<1>4. CallsAreBelow'
  BY <1>2, <1>3 DEF CallsAreBelow, SharedInv, TypeOK
<1>5. Written' = Written
  BY <1>2 DEF Written
<1>6. Loads(file') => FileIsAhead'
  BY <1>2, <1>3, <1>5 DEF SharedInv, FileIsAhead, TypeOK
<1> QED
  BY <1>2, <1>3, <1>4, <1>6 DEF SharedInv, MemoryIsLoaded

\* Steps that take a caller to where nothing is under way, or to a compaction
\* that has not been asked for yet.
LEMMA RestsShared ==
  ASSUME TypeOK, SharedInv, opened, NEW w \in Writers, NEW o \in OpSet, o.pc \in {"idle", "compacting"},
         op' = [op EXCEPT ![w] = o], UNCHANGED <<opened, entries, currentLeafId, labelsById, acked>>,
         file' = file \/ ~Loads(file')
  PROVE  SharedInv'
<1>1. CallsAreBelow'
  BY DEF CallsAreBelow, SharedInv, TypeOK
<1>2. Loads(file') => FileIsAhead'
  <2> SUFFICES ASSUME Loads(file') PROVE FileIsAhead'
    OBVIOUS
  <2>1. file' = file /\ Written' = Written
    BY DEF Written
  <2> QED
    BY <2>1 DEF SharedInv, FileIsAhead, TypeOK
<1> QED
  BY <1>1, <1>2 DEF SharedInv, MemoryIsLoaded

LEMMA LandShared ==
  ASSUME TypeOK, SharedInv, NEW w \in Writers, Land(w)
  PROVE  SharedInv'
<1> DEFINE e == op[w].entry
<1>1. e \in EntrySet /\ opened /\ Below(e, entries)
  BY OpTyped, BusyMeansOpen DEF Land, SharedInv, CallsAreBelow
<1>2. /\ file' = WithLine(file, e) /\ UNCHANGED <<opened, entries, currentLeafId, labelsById, acked>>
      /\ op' = [op EXCEPT ![w] = [op[w] EXCEPT !.pc = "landed"]]
  BY DEF Land, memVars
<1>3. /\ \A v \in Writers : op'[v].entry = op[v].entry /\ op'[v].more = op[v].more
      /\ \A v \in Writers : v # w => op'[v] = op[v]
      /\ op'[w].pc = "landed" /\ op[w].pc = "append"
  BY <1>2 DEF Land, TypeOK, OpSet
<1> HIDE DEF e
<1>4. CallsAreBelow'
  BY <1>2, <1>3 DEF CallsAreBelow, SharedInv
<1>5. Loads(file') => FileIsAhead'
  <2> SUFFICES ASSUME Loads(file') PROVE FileIsAhead'
    OBVIOUS
  <2>1. Loads(file) /\ file \in Seq(LineSet)
    BY <1>1, <1>2, LineLands DEF TypeOK
  <2>2. Written \in Seq(EntrySet) /\ Written' = Append(Written, e)
    BY <1>1, <1>2, <2>1, ReadsTheLine, ReadsAll, WrittenIsReadable
  <2>3. FileIsAhead
    BY <2>1 DEF SharedInv
  <2>4. Below(e, Written)
    BY <1>1, <2>3, BelowMore DEF FileIsAhead
  <2>5. WellFounded(Written') /\ Ids(Written') = Ids(Written) \union {e.id}
    BY <1>1, <2>2, <2>3, <2>4, StaysWellFounded, IdsAppend DEF FileIsAhead
  <2>6. \A v \in Writers : op'[v].pc = "landed" => op'[v].entry.id \in Ids(Written')
    BY <1>3, <2>3, <2>5 DEF FileIsAhead, e
  <2> QED
    BY <1>2, <2>3, <2>5, <2>6 DEF FileIsAhead
<1> QED
  BY <1>1, <1>2, <1>4, <1>5 DEF SharedInv, MemoryIsLoaded

LEMMA ResolveShared ==
  ASSUME TypeOK, SharedInv, NEW w \in Writers, Resolve(w)
  PROVE  SharedInv'
<1> DEFINE e == op[w].entry
<1>1. /\ e \in EntrySet /\ opened /\ Below(e, entries) /\ op[w].more \in BOOLEAN
      /\ (op[w].more => e.type = "leaf") /\ entries \in Seq(EntrySet)
  BY OpTyped, BusyMeansOpen DEF Resolve, SharedInv, CallsAreBelow, TypeOK
<1>2. /\ entries' = Append(entries, e) /\ labelsById' = UpdateLabels(labelsById, e)
      /\ currentLeafId' = leafIdAfterEntry(e) /\ acked' = acked \union {e.id}
      /\ UNCHANGED <<file, opened>>
  BY DEF Resolve
<1>3. /\ \A v \in Writers : v # w => op'[v] = op[v]
      /\ op'[w] = (IF op[w].more THEN [op[w] EXCEPT !.pc = "summary"] ELSE Idle)
      /\ op[w].pc = "landed"
  BY DEF Resolve, TypeOK
<1>4. /\ op'[w].pc \in {"idle", "summary"}
      /\ op'[w].pc = "summary" => op[w].more /\ op'[w].entry = e
  <2>1. CASE op[w].more
    BY <1>3, <2>1 DEF TypeOK, OpSet
  <2>2. CASE ~op[w].more
    BY <1>3, <2>2, Constants
  <2> QED
    BY <2>1, <2>2
<1> HIDE DEF e
<1>5. /\ Ids(entries') = Ids(entries) \union {e.id} /\ WellFounded(entries')
      /\ LoadedLeaf(entries') = leafIdAfterEntry(e)
      /\ BuildLabels(entries') = UpdateLabels(BuildLabels(entries), e)
  BY <1>1, <1>2, IdsAppend, StaysWellFounded, LeafAfterAppend, LabelsAppend DEF SharedInv, MemoryIsLoaded
<1>6. CallsAreBelow'
  <2> SUFFICES ASSUME NEW v \in Writers
               PROVE  /\ op'[v].pc \in {"append", "landed"} =>
                           Below(op'[v].entry, entries') /\ (op'[v].more => op'[v].entry.type = "leaf")
                      /\ op'[v].pc = "summary" => op'[v].entry.targetId \in Ids(entries') \union {0}
    BY DEF CallsAreBelow
  <2>1. CASE v = w
    BY <1>1, <1>4, <1>5, <2>1 DEF Below
  <2>2. CASE v # w
    BY <1>3, <1>5, <2>2, BelowMore DEF SharedInv, CallsAreBelow
  <2> QED
    BY <2>1, <2>2
<1>7. Loads(file') => FileIsAhead'
  <2>1. Written' = Written
    BY <1>2 DEF Written
  <2>2. Loads(file) => e.id \in Ids(Written)
    BY <1>3 DEF SharedInv, FileIsAhead, e
  <2> QED
    BY <1>2, <1>3, <1>4, <1>5, <2>1, <2>2 DEF SharedInv, FileIsAhead
<1> QED
  BY <1>1, <1>2, <1>5, <1>6, <1>7 DEF SharedInv, MemoryIsLoaded

LEMMA CrashShared ==
  ASSUME TypeOK, SharedInv, Crash
  PROVE  SharedInv'
<1>1. /\ entries' = <<>> /\ op' = [w \in Writers |-> Idle] /\ opened' = FALSE /\ acked' = acked
      /\ file' = file \/ file' = WithTear(file)
  BY DEF Crash
<1>2. CallsAreBelow'
  BY <1>1, Constants DEF CallsAreBelow
<1>3. Loads(file') => FileIsAhead'
  <2> SUFFICES ASSUME Loads(file') PROVE FileIsAhead'
    OBVIOUS
  <2>1. file' = file /\ Written' = Written
    BY <1>1, LineTears DEF Written, TypeOK
  <2> QED
    BY <1>1, <2>1, IdsEmpty, Constants DEF SharedInv, FileIsAhead
<1> QED
  BY <1>1, <1>2, <1>3 DEF SharedInv

LEMMA OpenShared ==
  ASSUME TypeOK, SharedInv, Open
  PROVE  SharedInv'
<1>1. /\ ~opened /\ opened' = TRUE /\ entries' = Written /\ currentLeafId' = LoadedLeaf(Written)
      /\ labelsById' = BuildLabels(Written) /\ UNCHANGED <<file, op, acked>> /\ Loads(file)
  BY DEF Open
<1>2. FileIsAhead /\ op = [w \in Writers |-> Idle] /\ Written' = Written
  BY <1>1 DEF SharedInv, Written
<1>3. MemoryIsLoaded' /\ (acked \subseteq Ids(entries))'
  BY <1>1, <1>2 DEF MemoryIsLoaded, FileIsAhead
<1>4. CallsAreBelow'
  BY <1>1, <1>2, Constants DEF CallsAreBelow
<1>5. FileIsAhead'
  BY <1>1, <1>2 DEF FileIsAhead
<1> QED
  BY <1>1, <1>3, <1>4, <1>5 DEF SharedInv

LEMMA SharedKept ==
  ASSUME TypeOK, SessionAssumption, SharedInv, [Next]_vars
  PROVE  SharedInv'
<1>1. ASSUME NEW w \in Writers, NEW t \in 0..MaxEntries, PrepareCompaction(w, t) PROVE SharedInv'
  <2> DEFINE o == [pc |-> "compacting", entry |-> Entry("compaction", 0, 0, t), more |-> FALSE]
  <2>1. o \in OpSet /\ o.pc = "compacting"
    <3>1. t \in Nat /\ "compaction" \in Types
      BY DEF SessionAssumption, Types
    <3> QED
      BY <3>1, EntryTyped DEF OpSet
  <2>2. /\ op' = [op EXCEPT ![w] = o] /\ opened
        /\ UNCHANGED <<file, opened, entries, currentLeafId, labelsById, acked>>
    BY <1>1 DEF PrepareCompaction, MayCall, memVars
  <2> HIDE DEF o
  <2> QED
    BY <2>1, <2>2, RestsShared
<1>2. ASSUME NEW w \in Writers, AppendFails(w) \/ AppendTears(w) PROVE SharedInv'
  <2>1. opened
    BY <1>2, BusyMeansOpen DEF AppendFails, AppendTears
  <2>2. /\ op' = [op EXCEPT ![w] = Idle]
        /\ UNCHANGED <<opened, entries, currentLeafId, labelsById, acked>>
        /\ file' = file \/ ~Loads(file')
    BY <1>2, LineTears DEF AppendFails, AppendTears, memVars, TypeOK
  <2> QED
    BY <2>1, <2>2, RestsShared, Constants
<1>3. CASE UNCHANGED vars
  <2>1. UNCHANGED <<file, opened, entries, currentLeafId, labelsById, op, acked>> /\ Written' = Written
    BY <1>3 DEF vars, memVars, Written
  <2> QED
    BY <2>1 DEF SharedInv, MemoryIsLoaded, CallsAreBelow, FileIsAhead
<1> QED
  BY <1>1, <1>2, <1>3, Callers, AppendsShared, LandShared, ResolveShared, CrashShared, OpenShared
  DEF Next, Storage

LEMMA SharedHolds == Spec => [](TypeOK /\ SharedInv)
<1>1. TypeOK /\ SharedInv /\ [Next]_vars => (TypeOK /\ SharedInv)'
  BY TypesKept, SharedKept, SessionAssumption
<1> QED
  BY <1>1, TypesStart, SharedStarts, PTL DEF Spec

\* However many callers append at the same time, and whatever fails: parents
\* precede their children in memory and in a file that loads, and the leaf is
\* an entry or the root.
THEOREM TreeStaysSound == Spec => []TreeIsSound
<1>1. TypeOK /\ SharedInv => TreeIsSound
  BY Known DEF TreeIsSound, SharedInv, MemoryIsLoaded, FileIsAhead
<1> QED
  BY <1>1, SharedHolds, PTL

\* An append that resolved is in the session whenever that is open: a crash or
\* a torn line may cost the session, but never an entry without a word.
THEOREM AcknowledgedIsKept == Spec => []NothingLostSilently
<1>1. SharedInv => NothingLostSilently
  BY DEF NothingLostSilently, SharedInv
<1> QED
  BY <1>1, SharedHolds, PTL

-----------------------------------------------------------------------------
(* Paths.                                                                  *)

LEMMA Least ==
  ASSUME NEW S \in SUBSET Nat, S # {}
  PROVE  \E x \in S : \A y \in S : x <= y
<1> DEFINE R == {ss \in Nat \X Nat : ss[1] < ss[2]}
<1>1. IsWellFoundedOn(R, Nat)
  BY NatLessThanWellFounded DEF OpToRel
<1>2. PICK z \in S : \A y \in S : <<y, z>> \notin R
  <2> HIDE DEF R
  <2> QED
    BY <1>1, WFMin
<1>3. \A y \in S : z <= y
  <2> SUFFICES ASSUME NEW y \in S, y < z PROVE FALSE
    OBVIOUS
  <2>1. <<y, z>> \in R
    OBVIOUS
  <2> QED
    BY <1>2, <2>1
<1> QED
  BY <1>3

\* Ids grow along a list.
Ordered(es) ==
  \A i \in 1 .. Len(es) : es[i].id >= 1 /\ \A j \in 1 .. i - 1 : es[j].id < es[i].id

LEMMA OrderedIds ==
  ASSUME NEW es \in Seq(EntrySet), Ordered(es)
  PROVE  /\ 0 \notin Ids(es)
         /\ \A i, j \in 1..Len(es) : es[i].id = es[j].id => i = j
         /\ \A i \in 1..Len(es) : ById(es, es[i].id) = es[i] /\ es[i].id \in Ids(es)
<1>1. \A i \in 1..Len(es) : es[i].id \in Nat
  BY EntryFields
<1>2. 0 \notin Ids(es)
  BY <1>1 DEF Ids, Ordered
<1>3. ASSUME NEW i \in 1..Len(es), NEW j \in 1..Len(es), es[i].id = es[j].id PROVE i = j
  <2>1. ~(i < j)
    <3> SUFFICES ASSUME i < j PROVE FALSE
      OBVIOUS
    <3>1. i \in 1..j - 1
      OBVIOUS
    <3> QED
      BY <1>1, <1>3, <3>1 DEF Ordered
  <2>2. ~(j < i)
    <3> SUFFICES ASSUME j < i PROVE FALSE
      OBVIOUS
    <3>1. j \in 1..i - 1
      OBVIOUS
    <3> QED
      BY <1>1, <1>3, <3>1 DEF Ordered
  <2> QED
    BY <2>1, <2>2
<1>4. ASSUME NEW i \in 1..Len(es) PROVE ById(es, es[i].id) = es[i] /\ es[i].id \in Ids(es)
  <2>1. (CHOOSE k \in 1..Len(es) : es[k].id = es[i].id) = i
    BY <1>3
  <2> QED
    BY <2>1 DEF ById, Ids
<1> QED
  BY <1>2, <1>3, <1>4

\* f gives every entry of the first k its path.
Walks(f, es, k) ==
  /\ f = [n \in {es[i].id : i \in 1..k} \union {0} |-> f[n]] /\ f[0] = <<>>
  /\ \A i \in 1..k : f[es[i].id] = Append(f[es[i].parentId], es[i])

LEMMA ParentsFirst ==
  ASSUME NEW es \in Seq(EntrySet), WellFounded(es), Ordered(es), NEW i \in 1..Len(es)
  PROVE  /\ es[i].parentId = 0 \/ \E j \in 1..Len(es) : j < i /\ es[j].id = es[i].parentId
         /\ es[i].parentId < es[i].id /\ es[i].id >= 1 /\ es[i].id \in Nat /\ es[i].parentId \in Nat
<1>1. es[i].parentId = 0 \/ \E j \in 1..i - 1 : es[j].id = es[i].parentId
  BY DEF WellFounded
<1>2. es[i].id >= 1 /\ \A j \in 1..i - 1 : es[j].id < es[i].id /\ j \in 1..Len(es) /\ j < i
  BY DEF Ordered
<1>3. es[i].id \in Nat /\ es[i].parentId \in Nat
  BY EntryFields
<1> QED
  BY <1>1, <1>2, <1>3

LEMMA WalkExists ==
  ASSUME NEW es \in Seq(EntrySet), WellFounded(es), Ordered(es)
  PROVE  \E f : Walks(f, es, Len(es))
<1> DEFINE S == {k \in Nat : k <= Len(es) /\ ~\E f : Walks(f, es, k)}
<1>0. Len(es) \in Nat
  OBVIOUS
<1>1. SUFFICES ASSUME S # {} PROVE FALSE
  BY <1>0
<1>2. PICK k \in S : \A j \in S : k <= j
  <2>1. S \in SUBSET Nat
    OBVIOUS
  <2> HIDE DEF S
  <2> QED
    BY <1>1, <2>1, Least
<1>3. k \in Nat /\ k <= Len(es) /\ ~\E f : Walks(f, es, k)
  OBVIOUS
<1>4. k # 0
  <2> DEFINE f == [n \in {0} |-> <<>>]
  <2>1. {es[i].id : i \in 1..0} = {} /\ \A i \in 1..0 : FALSE
    OBVIOUS
  <2>2. Walks(f, es, 0)
    BY <2>1 DEF Walks
  <2> QED
    BY <1>3, <2>2
<1>5. k \in 1..Len(es) /\ k - 1 \in Nat /\ k - 1 <= Len(es) /\ ~(k <= k - 1)
  BY <1>0, <1>3, <1>4
<1>6. k - 1 \notin S
  <2> HIDE DEF S
  <2> QED
    BY <1>2, <1>5
<1>7. PICK f : Walks(f, es, k - 1)
  BY <1>5, <1>6
<1> DEFINE D == {es[i].id : i \in 1..k} \union {0}
           g == [n \in D |-> IF n = es[k].id THEN Append(f[es[k].parentId], es[k]) ELSE f[n]]
<1>8. /\ \A i \in 1..k - 1 : es[i].id # es[k].id /\ i \in 1..k /\ i \in 1..Len(es)
      /\ es[k].id # 0 /\ k \in 1..k
  <2>1. \A i \in 1..k - 1 : i \in 1..k /\ i \in 1..Len(es) /\ i # k
    BY <1>5
  <2> QED
    BY <1>5, <2>1, OrderedIds, ParentsFirst
<1>9. \A i \in 1..k : es[i].id \in D /\ es[i].parentId \in D /\ es[i].parentId # es[k].id
  <2> SUFFICES ASSUME NEW i \in 1..k
               PROVE  es[i].id \in D /\ es[i].parentId \in D /\ es[i].parentId # es[k].id
    OBVIOUS
  <2>1. i \in 1..Len(es) /\ i <= k
    BY <1>5
  <2>2. es[i].parentId = 0 \/ \E j \in 1..Len(es) : j < i /\ es[j].id = es[i].parentId
    BY <2>1, ParentsFirst
  <2>3. CASE es[i].parentId = 0
    BY <1>8, <2>3
  <2>4. CASE \E j \in 1..Len(es) : j < i /\ es[j].id = es[i].parentId
    <3>1. PICK j \in 1..Len(es) : j < i /\ es[j].id = es[i].parentId
      BY <2>4
    <3>2. j \in 1..k - 1
      BY <1>5, <2>1, <3>1
    <3> QED
      BY <1>8, <3>1, <3>2
  <2> QED
    BY <2>2, <2>3, <2>4
<1>10. g[0] = <<>>
  BY <1>7, <1>8 DEF Walks
<1>11. ASSUME NEW i \in 1..k PROVE g[es[i].id] = Append(g[es[i].parentId], es[i])
  <2>1. g[es[i].parentId] = f[es[i].parentId]
    BY <1>9
  <2>2. CASE i = k
    BY <1>9, <2>1, <2>2
  <2>3. CASE i # k
    <3>1. i \in 1..k - 1
      BY <1>5, <2>3
    <3>2. g[es[i].id] = f[es[i].id]
      BY <1>8, <1>9, <3>1
    <3> QED
      BY <1>7, <2>1, <3>1, <3>2 DEF Walks
  <2> QED
    BY <2>2, <2>3
<1>12. Walks(g, es, k)
  <2>1. g = [n \in D |-> g[n]]
    OBVIOUS
  <2> HIDE DEF g
  <2> QED
    BY <1>10, <1>11, <2>1 DEF Walks
<1> QED
  BY <1>3, <1>12

\* getPathToRoot, one entry at a time: it ends, and finds every parent.
LEMMA PathUnfolds ==
  ASSUME NEW es \in Seq(EntrySet), WellFounded(es), Ordered(es)
  PROVE  /\ PathToRoot(es, 0) = <<>>
         /\ \A i \in 1..Len(es) :
              PathToRoot(es, es[i].id) = Append(PathToRoot(es, es[i].parentId), es[i])
<1> DEFINE D == Ids(es) \union {0}
           f == CHOOSE f : f = [n \in D |->
                  IF n = 0 THEN <<>> ELSE Append(f[ById(es, n).parentId], ById(es, n))]
<1>1. PICK g : Walks(g, es, Len(es))
  BY WalkExists
<1>2. g = [n \in D |-> g[n]]
  BY <1>1 DEF Walks, Ids
<1>3. ASSUME NEW n \in D
      PROVE  g[n] = IF n = 0 THEN <<>> ELSE Append(g[ById(es, n).parentId], ById(es, n))
  <2>1. CASE n = 0
    BY <1>1, <2>1 DEF Walks
  <2>2. CASE n # 0
    <3>1. PICK i \in 1..Len(es) : n = es[i].id
      BY <2>2 DEF Ids
    <3>2. ById(es, n) = es[i]
      BY <3>1, OrderedIds
    <3> QED
      BY <1>1, <2>2, <3>1, <3>2 DEF Walks
  <2> QED
    BY <2>1, <2>2
<1> DEFINE Body(h, n) == IF n = 0 THEN <<>> ELSE Append(h[ById(es, n).parentId], ById(es, n))
<1>4. \A n \in D : g[n] = Body(g, n)
  BY <1>3
<1>5. f = [n \in D |-> Body(f, n)]
  <2> HIDE DEF D, Body
  <2>1. g = [n \in D |-> Body(g, n)]
    BY <1>2, <1>4
  <2> USE DEF Body
  <2> QED
    BY <2>1
<1>6. \A n : PathToRoot(es, n) = f[n]
  BY DEF PathToRoot
<1> HIDE DEF f
<1>7. 0 \in D /\ f[0] = <<>>
  BY <1>5
<1>8. ASSUME NEW i \in 1..Len(es) PROVE f[es[i].id] = Append(f[es[i].parentId], es[i])
  <2>1. es[i].id \in D /\ es[i].id # 0 /\ ById(es, es[i].id) = es[i]
    BY OrderedIds
  <2> QED
    BY <1>5, <2>1
<1> QED
  BY <1>6, <1>7, <1>8

\* p leads from the root down to n along entries of es.
Chain(p) ==
  \A k \in 1 .. Len(p) : p[k].parentId = IF k = 1 THEN 0 ELSE p[k - 1].id

Leads(es, p, n) ==
  /\ p \in Seq(EntrySet) /\ Ordered(p) /\ Chain(p)
  /\ \A k \in 1 .. Len(p) : \E i \in 1 .. Len(es) : p[k] = es[i]
  /\ IF n = 0 THEN p = <<>> ELSE p # <<>> /\ p[Len(p)].id = n

LEMMA StepDown ==
  ASSUME NEW es, NEW p, NEW e \in EntrySet, Leads(es, p, e.parentId), e.parentId < e.id,
         \E i \in 1 .. Len(es) : e = es[i]
  PROVE  Leads(es, Append(p, e), e.id)
<1> DEFINE q == Append(p, e)
           n == Len(p)
<1>1. /\ p \in Seq(EntrySet) /\ Ordered(p) /\ Chain(p)
      /\ \A k \in 1..n : \E i \in 1..Len(es) : p[k] = es[i]
      /\ e.parentId = 0 => p = <<>>
      /\ e.parentId # 0 => p # <<>> /\ p[Len(p)].id = e.parentId
  BY DEF Leads
<1>2. /\ q \in Seq(EntrySet) /\ q # <<>> /\ Len(q) = n + 1 /\ n \in Nat
      /\ (\A i \in 1..n : q[i] = p[i]) /\ q[n + 1] = e
  BY <1>1, IdsAppend
<1>3. e.id \in Nat /\ e.parentId \in Nat /\ e.id >= 1 /\ \A i \in 1..n : p[i].id \in Nat
  BY <1>1, EntryFields
<1>4. n # 0 => n \in 1..n /\ p[n].id = e.parentId /\ p # <<>>
  BY <1>1, <1>2, EmptySeq
<1>5. n = 0 => e.parentId = 0
  BY <1>1, EmptySeq
<1> HIDE DEF q
<1>6. \A i \in 1..n : p[i].id < e.id
  <2> SUFFICES ASSUME NEW i \in 1..n PROVE p[i].id < e.id
    OBVIOUS
  <2>1. n \in 1..n /\ p[n].id = e.parentId
    BY <1>2, <1>4
  <2>2. CASE i = n
    BY <2>1, <2>2
  <2>3. CASE i # n
    <3>1. i \in 1..n - 1
      BY <1>2, <2>3
    <3>2. p[i].id < p[n].id
      BY <1>1, <2>1, <3>1 DEF Ordered
    <3> QED
      BY <1>3, <2>1, <3>2
  <2> QED
    BY <2>2, <2>3
<1>7. Ordered(q)
  <2> SUFFICES ASSUME NEW i \in 1..(n + 1)
               PROVE  q[i].id >= 1 /\ \A j \in 1..i - 1 : q[j].id < q[i].id
    BY <1>2 DEF Ordered
  <2>1. CASE i \in 1..n
    <3>1. p[i].id >= 1 /\ \A j \in 1..i - 1 : p[j].id < p[i].id /\ j \in 1..n
      BY <1>1, <1>2, <2>1 DEF Ordered
    <3> QED
      BY <1>2, <2>1, <3>1
  <2>2. CASE i = n + 1
    BY <1>2, <1>3, <1>6, <2>2
  <2> QED
    BY <1>2, <2>1, <2>2
<1>8. Chain(q)
  <2> SUFFICES ASSUME NEW i \in 1..(n + 1)
               PROVE  q[i].parentId = IF i = 1 THEN 0 ELSE q[i - 1].id
    BY <1>2 DEF Chain
  <2>1. CASE i \in 1..n
    <3>1. p[i].parentId = IF i = 1 THEN 0 ELSE p[i - 1].id
      BY <1>1, <2>1 DEF Chain
    <3>2. i # 1 => i - 1 \in 1..n
      BY <1>2, <2>1
    <3> QED
      BY <1>2, <2>1, <3>1, <3>2
  <2>2. CASE i = n + 1
    <3>1. CASE n = 0
      BY <1>2, <1>5, <2>2, <3>1
    <3>2. CASE n # 0
      BY <1>2, <1>4, <2>2, <3>2
    <3> QED
      BY <3>1, <3>2
  <2> QED
    BY <1>2, <2>1, <2>2
<1>9. \A k \in 1..(n + 1) : \E i \in 1..Len(es) : q[k] = es[i]
  <2> SUFFICES ASSUME NEW k \in 1..(n + 1) PROVE \E i \in 1..Len(es) : q[k] = es[i]
    OBVIOUS
  <2>1. CASE k \in 1..n
    BY <1>1, <1>2, <2>1
  <2>2. CASE k = n + 1
    BY <1>2, <2>2
  <2> QED
    BY <1>2, <2>1, <2>2
<1>10. Leads(es, q, e.id)
  BY <1>2, <1>3, <1>7, <1>8, <1>9 DEF Leads
<1> QED
  BY <1>10 DEF q

LEMMA PathLeads ==
  ASSUME NEW es \in Seq(EntrySet), WellFounded(es), Ordered(es), NEW n \in Ids(es) \union {0}
  PROVE  Leads(es, PathToRoot(es, n), n)
<1>0. Leads(es, PathToRoot(es, 0), 0)
  <2>1. PathToRoot(es, 0) = <<>> /\ <<>> \in Seq(EntrySet) /\ Len(<<>>) = 0
    BY PathUnfolds
  <2>2. 1..Len(<<>>) = {}
    BY <2>1
  <2>3. Ordered(<<>>) /\ Chain(<<>>)
    BY <2>2 DEF Ordered, Chain
  <2>4. \A p : p = <<>> => Leads(es, p, 0)
    BY <2>1, <2>2, <2>3 DEF Leads
  <2> QED
    BY <2>1, <2>4
<1> DEFINE S == {i \in 1..Len(es) : ~Leads(es, PathToRoot(es, es[i].id), es[i].id)}
<1>1. S = {}
  <2> SUFFICES ASSUME S # {} PROVE FALSE
    OBVIOUS
  <2>1. PICK i \in S : \A j \in S : i <= j
    <3>1. S \in SUBSET Nat
      OBVIOUS
    <3> HIDE DEF S
    <3> QED
      BY <3>1, Least
  <2>2. i \in 1..Len(es) /\ ~Leads(es, PathToRoot(es, es[i].id), es[i].id)
    OBVIOUS
  <2>3. Leads(es, PathToRoot(es, es[i].parentId), es[i].parentId)
    <3>1. es[i].parentId = 0 \/ \E j \in 1..Len(es) : j < i /\ es[j].id = es[i].parentId
      BY <2>2, ParentsFirst
    <3>2. CASE es[i].parentId = 0
      BY <1>0, <3>2
    <3>3. CASE \E j \in 1..Len(es) : j < i /\ es[j].id = es[i].parentId
      <4>1. PICK j \in 1..Len(es) : j < i /\ es[j].id = es[i].parentId
        BY <3>3
      <4>2. j \notin S
        <5> HIDE DEF S
        <5>1. ~(i <= j)
          BY <2>2, <4>1
        <5> QED
          BY <2>1, <5>1
      <4> QED
        BY <4>1, <4>2
    <3> QED
      BY <3>1, <3>2, <3>3
  <2>4. es[i] \in EntrySet /\ es[i].parentId < es[i].id
    BY <2>2, ParentsFirst
  <2>5. PathToRoot(es, es[i].id) = Append(PathToRoot(es, es[i].parentId), es[i])
    BY <2>2, PathUnfolds
  <2> QED
    BY <2>2, <2>3, <2>4, <2>5, StepDown
<1>2. CASE n = 0
  BY <1>0, <1>2
<1>3. CASE n # 0
  <2>1. PICK i \in 1..Len(es) : n = es[i].id
    BY <1>3 DEF Ids
  <2> QED
    BY <1>1, <2>1
<1> QED
  BY <1>2, <1>3

\* An append leaves the paths there are as they are.
LEMMA PathStays ==
  ASSUME NEW es \in Seq(EntrySet), WellFounded(es), Ordered(es),
         NEW e \in EntrySet, WellFounded(Append(es, e)), Ordered(Append(es, e)),
         NEW n \in Ids(es) \union {0}
  PROVE  PathToRoot(Append(es, e), n) = PathToRoot(es, n)
<1> DEFINE gs == Append(es, e)
<1>1. /\ gs \in Seq(EntrySet) /\ Len(gs) = Len(es) + 1 /\ Len(es) \in Nat
      /\ \A i \in 1..Len(es) : gs[i] = es[i] /\ i \in 1..Len(gs)
  BY IdsAppend
<1>2. WellFounded(gs) /\ Ordered(gs)
  OBVIOUS
<1> HIDE DEF gs
<1>3. /\ PathToRoot(gs, 0) = PathToRoot(es, 0)
      /\ \A i \in 1..Len(es) :
           /\ PathToRoot(es, es[i].id) = Append(PathToRoot(es, es[i].parentId), es[i])
           /\ PathToRoot(gs, es[i].id) = Append(PathToRoot(gs, es[i].parentId), es[i])
  BY <1>1, <1>2, PathUnfolds
<1> DEFINE S == {i \in 1..Len(es) : PathToRoot(gs, es[i].id) # PathToRoot(es, es[i].id)}
<1>4. S = {}
  <2> SUFFICES ASSUME S # {} PROVE FALSE
    OBVIOUS
  <2>1. PICK i \in S : \A j \in S : i <= j
    <3>1. S \in SUBSET Nat
      OBVIOUS
    <3> HIDE DEF S
    <3> QED
      BY <3>1, Least
  <2>2. i \in 1..Len(es) /\ PathToRoot(gs, es[i].id) # PathToRoot(es, es[i].id)
    OBVIOUS
  <2>3. PathToRoot(gs, es[i].parentId) = PathToRoot(es, es[i].parentId)
    <3>1. es[i].parentId = 0 \/ \E j \in 1..Len(es) : j < i /\ es[j].id = es[i].parentId
      BY <2>2, ParentsFirst
    <3>2. CASE es[i].parentId = 0
      BY <1>3, <3>2
    <3>3. CASE \E j \in 1..Len(es) : j < i /\ es[j].id = es[i].parentId
      <4>1. PICK j \in 1..Len(es) : j < i /\ es[j].id = es[i].parentId
        BY <3>3
      <4>2. j \notin S
        <5> HIDE DEF S
        <5>1. ~(i <= j)
          BY <2>2, <4>1
        <5> QED
          BY <2>1, <5>1
      <4> QED
        BY <4>1, <4>2
    <3> QED
      BY <3>1, <3>2, <3>3
  <2> QED
    BY <1>3, <2>2, <2>3
<1>5. PathToRoot(gs, n) = PathToRoot(es, n)
  <2>1. CASE n = 0
    BY <1>3, <2>1
  <2>2. CASE n # 0
    <3>1. PICK i \in 1..Len(es) : n = es[i].id
      BY <2>2 DEF Ids
    <3> QED
      BY <1>4, <3>1
  <2> QED
    BY <2>1, <2>2
<1> QED
  BY <1>5 DEF gs

\* A chain is a list of entries in itself, and its own path.
LEMMA ChainIsWhole ==
  ASSUME NEW p \in Seq(EntrySet), Ordered(p), Chain(p)
  PROVE  \A i \in 1 .. Len(p) :
           p[i].parentId = 0 \/ \E j \in 1 .. i - 1 : p[j].id = p[i].parentId
<1> SUFFICES ASSUME NEW i \in 1..Len(p), i # 1
             PROVE  \E j \in 1..i - 1 : p[j].id = p[i].parentId
  BY DEF Chain
<1>1. i - 1 \in 1..i - 1
  OBVIOUS
<1> QED
  BY <1>1 DEF Chain

LEMMA ChainIsItsPath ==
  ASSUME NEW p \in Seq(EntrySet), WellFounded(p), Ordered(p), Chain(p), p # <<>>
  PROVE  PathToRoot(p, p[Len(p)].id) = p
<1> DEFINE S == {i \in 1..Len(p) : PathToRoot(p, p[i].id) # SubSeq(p, 1, i)}
<1>0. Len(p) \in Nat /\ Len(p) \in 1..Len(p)
  BY EmptySeq
<1>1. S = {}
  <2> SUFFICES ASSUME S # {} PROVE FALSE
    OBVIOUS
  <2>1. PICK i \in S : \A j \in S : i <= j
    <3>1. S \in SUBSET Nat
      OBVIOUS
    <3> HIDE DEF S
    <3> QED
      BY <3>1, Least
  <2>2. i \in 1..Len(p) /\ PathToRoot(p, p[i].id) # SubSeq(p, 1, i)
    OBVIOUS
  <2>3. PathToRoot(p, p[i].id) = Append(PathToRoot(p, p[i].parentId), p[i]) /\ PathToRoot(p, 0) = <<>>
    BY <2>2, PathUnfolds
  <2>4. PathToRoot(p, p[i].parentId) = SubSeq(p, 1, i - 1)
    <3>1. CASE i = 1
      <4>1. SubSeq(p, 1, 0) = <<>>
        OBVIOUS
      <4> QED
        BY <2>2, <2>3, <3>1, <4>1 DEF Chain
    <3>2. CASE i # 1
      <4>1. i - 1 \in 1..Len(p) /\ ~(i <= i - 1)
        BY <1>0, <2>2, <3>2
      <4>2. i - 1 \notin S
        <5> HIDE DEF S
        <5> QED
          BY <2>1, <4>1
      <4>3. p[i].parentId = p[i - 1].id
        BY <2>2, <3>2 DEF Chain
      <4> QED
        BY <4>1, <4>2, <4>3
    <3> QED
      BY <3>1, <3>2
  <2>5. Append(SubSeq(p, 1, i - 1), p[i]) = SubSeq(p, 1, i)
    <3> DEFINE s == SubSeq(p, 1, i - 1)
               t == SubSeq(p, 1, i)
    <3>1. /\ s \in Seq(EntrySet) /\ Len(s) = i - 1 /\ \A j \in 1..i - 1 : s[j] = p[j]
          /\ t \in Seq(EntrySet) /\ Len(t) = i /\ \A j \in 1..i : t[j] = p[j]
      BY <1>0, <2>2, SubSeqProperties
    <3>2. p[i] \in EntrySet
      BY <2>2
    <3> HIDE DEF s, t
    <3>3. /\ Append(s, p[i]) \in Seq(EntrySet) /\ Len(Append(s, p[i])) = i
          /\ (\A j \in 1..i - 1 : Append(s, p[i])[j] = p[j]) /\ Append(s, p[i])[i] = p[i]
      BY <2>2, <3>1, <3>2, IdsAppend
    <3>4. \A j \in 1..i : Append(s, p[i])[j] = t[j]
      <4> SUFFICES ASSUME NEW j \in 1..i PROVE Append(s, p[i])[j] = t[j]
        OBVIOUS
      <4>1. j = i \/ j \in 1..i - 1
        BY <2>2
      <4> QED
        BY <2>2, <3>1, <3>3, <4>1
    <3>5. Append(s, p[i]) = t
      BY <3>1, <3>3, <3>4, SeqEqual
    <3> QED
      BY <3>5 DEF s, t
  <2> QED
    BY <2>2, <2>3, <2>4, <2>5
<1>2. PathToRoot(p, p[Len(p)].id) = SubSeq(p, 1, Len(p))
  BY <1>0, <1>1
<1>3. SubSeq(p, 1, Len(p)) = p
  <2> DEFINE t == SubSeq(p, 1, Len(p))
  <2>1. t \in Seq(EntrySet) /\ Len(t) = Len(p) /\ \A j \in 1..Len(p) : t[j] = p[j]
    BY <1>0, SubSeqProperties
  <2> HIDE DEF t
  <2>2. t = p
    BY <2>1, SeqEqual
  <2> QED
    BY <2>2 DEF t
<1> QED
  BY <1>2, <1>3

-----------------------------------------------------------------------------
(* Branches.                                                               *)

\* A compaction keeps from an entry of the branch it was appended to.
KeepsItsBranch(es) ==
  \A i \in 1 .. Len(es) :
    es[i].type = "compaction" => es[i].targetId \in Ids(PathToRoot(es, es[i].parentId))

DistinctIds(s) == \A i, j \in 1..Len(s) : s[i].id = s[j].id => i = j

LEMMA CountIds ==
  ASSUME NEW s \in Seq(EntrySet), DistinctIds(s)
  PROVE  Len(s) = Cardinality(Ids(s))
<1> DEFINE n == Len(s)
           f == [i \in 1..n |-> s[i].id]
<1>1. n \in Nat
  OBVIOUS
<1>2. f \in Bijection(1..n, Ids(s))
  <2>1. f \in [1..n -> Ids(s)]
    BY DEF Ids
  <2>2. \A i, j \in 1..n : f[i] = f[j] => i = j
    BY DEF DistinctIds
  <2>3. \A x \in Ids(s) : \E i \in 1..n : f[i] = x
    BY DEF Ids
  <2> HIDE DEF f
  <2> QED
    BY <2>1, <2>2, <2>3 DEF Bijection, Injection, Surjection, IsInjective
<1>3. ExistsBijection(1..n, Ids(s))
  BY <1>2 DEF ExistsBijection
<1> QED
  BY <1>1, <1>3, FS_CountingElements

\* The context of a branch that ends in a compaction: the compaction, then
\* the branch from its first kept entry on.
LEMMA CompactedContext ==
  ASSUME NEW p \in Seq(EntrySet), Ordered(p), NEW t \in 1 .. Len(p) - 1,
         p[Len(p)].type = "compaction", p[t].id = p[Len(p)].targetId
  PROVE  LET ctx == ContextEntries(p) IN
         /\ ctx \in Seq(EntrySet) /\ Len(ctx) = 1 + (Len(p) - t)
         /\ ctx[1] = p[Len(p)]
         /\ \A i \in 1 .. Len(p) - t : ctx[i + 1] = p[t + i - 1]
<1> DEFINE n == Len(p)
           compactions == {i \in 1 .. n : p[i].type = "compaction"}
           c == CHOOSE i \in compactions : \A j \in compactions : j <= i
           kept(i) == \E j \in 1 .. i : p[j].id = p[c].targetId
           before == {i \in 1 .. c - 1 : kept(i)}
           first == IF before = {} THEN c ELSE CHOOSE i \in before : \A j \in before : i <= j
<1>1. n \in Nat /\ n \in 1..n /\ t \in 1..n - 1 /\ t \in 1..n
  OBVIOUS
<1>2. compactions # {}
  BY <1>1
<1>3. ContextEntries(p) = <<p[c]>> \o SubSeq(p, first, c - 1) \o SubSeq(p, c + 1, n)
  BY <1>2 DEF ContextEntries
<1>4. c = n
  <2>1. n \in compactions /\ \A j \in compactions : j <= n
    BY <1>1
  <2>2. \A i \in compactions : (\A j \in compactions : j <= i) => i = n
    BY <1>1, <2>1
  <2> HIDE DEF compactions
  <2> QED
    BY <2>1, <2>2
<1>5. \A i \in 1..n - 1 : kept(i) <=> t <= i
  <2> HIDE DEF c
  <2> SUFFICES ASSUME NEW i \in 1..n - 1 PROVE kept(i) <=> t <= i
    OBVIOUS
  <2>1. \A j \in 1..i : p[j].id = p[c].targetId => j = t
    <3>1. \A j \in 1..i : j \in 1..n
      BY <1>1
    <3> QED
      BY <1>1, <1>4, <3>1, OrderedIds
  <2>2. t <= i => t \in 1..i
    BY <1>1
  <2>3. kept(i) => t <= i
    BY <2>1
  <2>4. t <= i => kept(i)
    BY <1>4, <2>2
  <2> QED
    BY <2>3, <2>4
<1> HIDE DEF c, kept
<1>6. before = {i \in 1..n - 1 : t <= i}
  BY <1>4, <1>5
<1>7. first = t
  <2>1. t \in before /\ \A j \in before : t <= j
    BY <1>1, <1>6
  <2>2. \A i \in before : (\A j \in before : i <= j) => i = t
    BY <1>1, <1>6, <2>1
  <2> HIDE DEF before
  <2> QED
    BY <2>1, <2>2
<1> HIDE DEF first
<1> DEFINE a == <<p[n]>>
           b == SubSeq(p, t, n - 1)
<1>8. SubSeq(p, n + 1, n) = <<>>
  BY <1>1, SubSeqEmpty
<1>9. /\ a \in Seq(EntrySet) /\ Len(a) = 1 /\ a[1] = p[n]
      /\ b \in Seq(EntrySet) /\ Len(b) = n - t /\ \A i \in 1..n - t : b[i] = p[t + i - 1]
  <2>1. p[n] \in EntrySet
    BY <1>1
  <2>2. \A i \in t..n - 1 : p[i] \in EntrySet
    BY <1>1
  <2>3. b \in Seq(EntrySet) /\ Len(b) = (n - 1) - t + 1 /\ \A i \in 1..(n - 1) - t + 1 : b[i] = p[t + i - 1]
    BY <1>1, <2>2, SubSeqProperties
  <2>4. (n - 1) - t + 1 = n - t
    BY <1>1
  <2> HIDE DEF b
  <2> QED
    BY <2>1, <2>3, <2>4
<1>10. ContextEntries(p) = a \o b \o <<>>
  BY <1>3, <1>4, <1>7, <1>8
<1> HIDE DEF a, b, n
<1>11. /\ a \o b \in Seq(EntrySet) /\ Len(a \o b) = 1 + (n - t)
       /\ \A i \in 1..1 + (n - t) : (a \o b)[i] = IF i <= 1 THEN a[i] ELSE b[i - 1]
  <2>1. /\ a \o b \in Seq(EntrySet) /\ Len(a \o b) = Len(a) + Len(b)
        /\ \A i \in 1..Len(a) + Len(b) : (a \o b)[i] = IF i <= Len(a) THEN a[i] ELSE b[i - Len(a)]
    BY <1>9, ConcatProperties
  <2>2. Len(a) = 1 /\ Len(b) = n - t
    BY <1>9
  <2> QED
    BY <2>1, <2>2
<1>12. ContextEntries(p) = a \o b
  BY <1>10, <1>11, ConcatEmptySeq
<1>13. (a \o b)[1] = p[n] /\ \A i \in 1..n - t : (a \o b)[i + 1] = p[t + i - 1]
  <2>1. (a \o b)[1] = p[n]
    BY <1>1, <1>9, <1>11
  <2>2. \A i \in 1..n - t : i + 1 \in 1..1 + (n - t) /\ ~(i + 1 <= 1) /\ (i + 1) - 1 = i
    BY <1>1
  <2> QED
    BY <1>9, <1>11, <2>1, <2>2
<1> HIDE DEF a, b
<1> QED
  BY <1>11, <1>12, <1>13 DEF n

LEMMA ContextHoldsTheBranch ==
  ASSUME NEW es \in Seq(EntrySet), WellFounded(es), Ordered(es), KeepsItsBranch(es),
         NEW i \in 1..Len(es), es[i].type = "compaction"
  PROVE  LET path == PathToRoot(es, es[i].id)
             ctx  == ContextEntries(path)
         IN  /\ es[i].targetId \in Ids(path)
             /\ ctx[1] = es[i]
             /\ Len(ctx) = Cardinality(Ids(ctx))
             /\ \A j, k \in 1 .. Len(path) :
                  path[j].id = es[i].targetId /\ j <= k => path[k].id \in Ids(ctx)
<1> DEFINE p == PathToRoot(es, es[i].id)
           q == PathToRoot(es, es[i].parentId)
           n == Len(p)
           ctx == ContextEntries(p)
<1>1. es[i] \in EntrySet /\ es[i].id \in Ids(es) /\ es[i].id # 0 /\ es[i].parentId \in Ids(es) \union {0}
  <2>1. es[i].id \in Ids(es) /\ 0 \notin Ids(es) /\ \A j \in 1..Len(es) : es[j].id \in Ids(es)
    BY OrderedIds
  <2>2. es[i].parentId = 0 \/ \E j \in 1..Len(es) : j < i /\ es[j].id = es[i].parentId
    BY ParentsFirst
  <2> QED
    BY <2>1, <2>2
<1>2. Leads(es, p, es[i].id) /\ Leads(es, q, es[i].parentId) /\ p = Append(q, es[i])
  BY <1>1, PathLeads, PathUnfolds
<1>3. q \in Seq(EntrySet) /\ p \in Seq(EntrySet) /\ Ordered(p)
  BY <1>2 DEF Leads
<1> HIDE DEF p, q
<1>4. /\ n = Len(q) + 1 /\ Len(q) \in Nat /\ (\A k \in 1..Len(q) : p[k] = q[k]) /\ p[n] = es[i]
      /\ Ids(p) = Ids(q) \union {es[i].id}
  BY <1>1, <1>2, <1>3, IdsAppend
<1>5. es[i].targetId \in Ids(q)
  BY DEF KeepsItsBranch, q
<1>6. PICK t \in 1..Len(q) : q[t].id = es[i].targetId
  BY <1>5 DEF Ids
<1>7. t \in 1..n - 1 /\ t \in 1..n /\ p[t].id = es[i].targetId /\ n \in Nat
  BY <1>4, <1>6
<1>8. /\ ctx \in Seq(EntrySet) /\ Len(ctx) = 1 + (n - t) /\ ctx[1] = es[i]
      /\ \A k \in 1..n - t : ctx[k + 1] = p[t + k - 1]
  <2>1. p[Len(p)].type = "compaction" /\ p[t].id = p[Len(p)].targetId /\ t \in 1..Len(p) - 1
    BY <1>4, <1>7
  <2>2. /\ ctx \in Seq(EntrySet) /\ Len(ctx) = 1 + (Len(p) - t) /\ ctx[1] = p[Len(p)]
        /\ \A k \in 1..Len(p) - t : ctx[k + 1] = p[t + k - 1]
    <3>1. LET d == ContextEntries(p) IN
          /\ d \in Seq(EntrySet) /\ Len(d) = 1 + (Len(p) - t) /\ d[1] = p[Len(p)]
          /\ \A k \in 1..Len(p) - t : d[k + 1] = p[t + k - 1]
      BY <1>3, <2>1, CompactedContext
    <3> QED
      BY <3>1
  <2> QED
    BY <1>4, <2>2
<1> HIDE DEF ctx, n
<1>9. \A k \in 2..1 + (n - t) : ctx[k] = p[t + k - 2] /\ t + k - 2 \in 1..n - 1
  <2> SUFFICES ASSUME NEW k \in 2..1 + (n - t)
               PROVE  ctx[k] = p[t + k - 2] /\ t + k - 2 \in 1..n - 1
    OBVIOUS
  <2>1. k - 1 \in 1..n - t /\ (k - 1) + 1 = k /\ t + (k - 1) - 1 = t + k - 2 /\ t + k - 2 \in 1..n - 1
    BY <1>7
  <2> QED
    BY <1>8, <2>1
<1>10. \A j, k \in 1..n : p[j].id = p[k].id => j = k
  BY <1>3, OrderedIds DEF n
<1>11. DistinctIds(ctx)
  <2> SUFFICES ASSUME NEW j \in 1..1 + (n - t), NEW k \in 1..1 + (n - t), ctx[j].id = ctx[k].id
               PROVE  j = k
    BY <1>8 DEF DistinctIds
  <2> DEFINE at(x) == IF x = 1 THEN n ELSE t + x - 2
  <2>1. \A x \in 1..1 + (n - t) : ctx[x] = p[at(x)] /\ at(x) \in 1..n /\ (x # 1 => at(x) # n)
    <3> SUFFICES ASSUME NEW x \in 1..1 + (n - t)
                 PROVE  ctx[x] = p[at(x)] /\ at(x) \in 1..n /\ (x # 1 => at(x) # n)
      OBVIOUS
    <3>1. CASE x = 1
      BY <1>4, <1>7, <1>8, <3>1
    <3>2. CASE x # 1
      <4>1. x \in 2..1 + (n - t)
        BY <1>7, <3>2
      <4>2. ctx[x] = p[t + x - 2] /\ t + x - 2 \in 1..n - 1
        BY <1>9, <4>1
      <4> QED
        BY <1>7, <3>2, <4>2
    <3> QED
      BY <3>1, <3>2
  <2>2. at(j) = at(k)
    <3> HIDE DEF at
    <3> QED
      BY <1>10, <2>1
  <2>3. (j = 1) <=> (k = 1)
    BY <2>1, <2>2
  <2> QED
    BY <1>7, <2>2, <2>3
<1>12. Len(ctx) = Cardinality(Ids(ctx))
  BY <1>8, <1>11, CountIds
<1>13. ASSUME NEW j \in 1..n, NEW k \in 1..n, p[j].id = es[i].targetId, j <= k
       PROVE  p[k].id \in Ids(ctx)
  <2>1. j = t
    BY <1>7, <1>10, <1>13
  <2>2. CASE k = n
    <3>1. 1 \in 1..Len(ctx) /\ ctx[1] = p[k]
      BY <1>4, <1>7, <1>8, <2>2
    <3> QED
      BY <3>1 DEF Ids
  <2>3. CASE k # n
    <3>1. (k - t) + 1 \in 1..n - t /\ t + ((k - t) + 1) - 1 = k
      BY <1>7, <1>13, <2>1, <2>3
    <3>2. ((k - t) + 1) + 1 \in 1..Len(ctx)
      BY <1>7, <1>8, <3>1
    <3>3. ctx[((k - t) + 1) + 1] = p[k]
      BY <1>8, <3>1
    <3> QED
      BY <3>2, <3>3 DEF Ids
  <2> QED
    BY <2>2, <2>3
<1> QED
  BY <1>4, <1>5, <1>8, <1>12, <1>13 DEF p, n, ctx

LEMMA ForkHoldsTheBranch ==
  ASSUME NEW es \in Seq(EntrySet), WellFounded(es), Ordered(es), NEW id \in Ids(es)
  PROVE  LET path == PathToRoot(es, id)
             fork == EntriesToFork(es, id)
         IN  (\A i \in 1 .. Len(path) : path[i].type # "leaf") =>
               /\ LoadedLeaf(fork) = id /\ WellFounded(fork)
               /\ PathToRoot(fork, id) = path /\ Ids(fork) = Ids(path)
<1> DEFINE p == PathToRoot(es, id)
<1>1. EntriesToFork(es, id) = p
  BY DEF EntriesToFork
<1>2. id # 0 /\ Leads(es, p, id)
  BY OrderedIds, PathLeads
<1> HIDE DEF p
<1>3. p \in Seq(EntrySet) /\ Ordered(p) /\ Chain(p) /\ p # <<>> /\ p[Len(p)].id = id
  BY <1>2 DEF Leads
<1>4. Len(p) \in 1..Len(p)
  BY <1>3, EmptySeq
<1> SUFFICES ASSUME \A i \in 1..Len(p) : p[i].type # "leaf"
             PROVE  /\ LoadedLeaf(p) = id /\ WellFounded(p) /\ PathToRoot(p, id) = p
  BY <1>1 DEF p
<1>5. LoadedLeaf(p) = id
  BY <1>3, <1>4 DEF LoadedLeaf, leafIdAfterEntry
<1>6. id \in Ids(p)
  BY <1>3, <1>4 DEF Ids
<1>7. WellFounded(p)
  BY <1>3, <1>5, <1>6, ChainIsWhole DEF WellFounded
<1> QED
  BY <1>3, <1>5, <1>7, ChainIsItsPath

-----------------------------------------------------------------------------
(* One caller at a time.                                                   *)

\* Nobody calls while another call is under way.
Lone == \A v, w \in Writers : op[v].pc # "idle" /\ op[w].pc # "idle" => v = w

\* What a lone caller has under way is new, below the active leaf, and keeps
\* from an entry of the active branch if it is a compaction.
Fits(w) ==
  LET o == op[w]
      e == o.entry
  IN  /\ o.pc \in {"append", "landed"} =>
           /\ e.parentId = currentLeafId /\ e.id \in 1..nextId
           /\ \A i \in 1..Len(entries) : entries[i].id < e.id
           /\ e.targetId \in 0..MaxEntries
           /\ e.type = "compaction" => e.targetId \in Ids(PathToRoot(entries, currentLeafId))
      /\ o.pc = "compacting" =>
           /\ e.targetId \in Ids(PathToRoot(entries, currentLeafId))
           /\ e.targetId \in 0..MaxEntries
      /\ o.pc = "summary" => e.targetId = currentLeafId

\* What a branch is made of, in memory as on file.
Grown(es, n) ==
  /\ Ordered(es) /\ KeepsItsBranch(es)
  /\ \A i \in 1..Len(es) : es[i].id <= n

\* The file is the memory, and what has landed and is not resolved.
Matches ==
  /\ \A w \in Writers : op[w].pc = "landed" => Written = Append(entries, op[w].entry)
  /\ (\A w \in Writers : op[w].pc # "landed") => Written = entries

SoloInv ==
  /\ Lone /\ \A w \in Writers : Fits(w)
  /\ opened /\ tears = 0 => Loads(file)
  /\ opened /\ Loads(file) => Matches
  /\ opened => Grown(entries, nextId)
  /\ Loads(file) => Grown(Written, nextId)
  /\ nextId <= MaxEntries

LEMMA GrowsByOne ==
  ASSUME NEW es \in Seq(EntrySet), NEW e \in EntrySet, NEW n \in Nat, WellFounded(es), Below(e, es),
         Grown(es, n), e.id \in 1..n, \A i \in 1..Len(es) : es[i].id < e.id,
         e.type = "compaction" => e.targetId \in Ids(PathToRoot(es, e.parentId))
  PROVE  Grown(Append(es, e), n)
<1> DEFINE gs == Append(es, e)
           m == Len(es)
<1>1. /\ gs \in Seq(EntrySet) /\ Len(gs) = m + 1 /\ m \in Nat
      /\ (\A i \in 1..m : gs[i] = es[i]) /\ gs[m + 1] = e
      /\ Ordered(es) /\ KeepsItsBranch(es) /\ \A i \in 1..m : es[i].id <= n
  BY IdsAppend DEF Grown
<1>2. WellFounded(gs)
  BY StaysWellFounded
<1> HIDE DEF gs
<1>3. Ordered(gs)
  <2> SUFFICES ASSUME NEW i \in 1..(m + 1)
               PROVE  gs[i].id >= 1 /\ \A j \in 1..i - 1 : gs[j].id < gs[i].id
    BY <1>1 DEF Ordered
  <2>1. CASE i \in 1..m
    <3>1. es[i].id >= 1 /\ \A j \in 1..i - 1 : es[j].id < es[i].id /\ j \in 1..m
      BY <1>1, <2>1 DEF Ordered
    <3> QED
      BY <1>1, <2>1, <3>1
  <2>2. CASE i = m + 1
    BY <1>1, <2>2
  <2> QED
    BY <1>1, <2>1, <2>2
<1>4. \A x \in Ids(es) \union {0} : PathToRoot(gs, x) = PathToRoot(es, x)
  BY <1>1, <1>2, <1>3, PathStays DEF gs
<1>5. KeepsItsBranch(gs)
  <2> SUFFICES ASSUME NEW i \in 1..(m + 1), gs[i].type = "compaction"
               PROVE  gs[i].targetId \in Ids(PathToRoot(gs, gs[i].parentId))
    BY <1>1 DEF KeepsItsBranch
  <2>1. CASE i \in 1..m
    <3>1. es[i].targetId \in Ids(PathToRoot(es, es[i].parentId))
      BY <1>1, <2>1 DEF KeepsItsBranch
    <3>2. es[i].parentId \in Ids(es) \union {0}
      <4>1. es[i].parentId = 0 \/ \E j \in 1..Len(es) : j < i /\ es[j].id = es[i].parentId
        BY <1>1, <2>1, ParentsFirst
      <4> QED
        BY <4>1 DEF Ids
    <3> QED
      BY <1>1, <1>4, <2>1, <3>1, <3>2
  <2>2. CASE i = m + 1
    <3>1. e.parentId \in Ids(es) \union {0}
      BY DEF Below
    <3> QED
      BY <1>1, <1>4, <2>2, <3>1
  <2> QED
    BY <1>1, <2>1, <2>2
<1>6. \A i \in 1..(m + 1) : gs[i].id <= n
  <2> SUFFICES ASSUME NEW i \in 1..(m + 1) PROVE gs[i].id <= n
    OBVIOUS
  <2>1. CASE i \in 1..m
    BY <1>1, <2>1
  <2>2. CASE i = m + 1
    BY <1>1, <2>2
  <2> QED
    BY <1>1, <2>1, <2>2
<1>7. Grown(gs, n)
  BY <1>1, <1>3, <1>5, <1>6 DEF Grown
<1> QED
  BY <1>7 DEF gs

LEMMA GrownLater ==
  ASSUME NEW es \in Seq(EntrySet), NEW n \in Nat, Grown(es, n)
  PROVE  Grown(es, n + 1)
<1>1. \A i \in 1..Len(es) : es[i].id \in Nat
  BY EntryFields
<1> QED
  BY <1>1 DEF Grown

LEMMA NothingGrown ==
  ASSUME NEW n PROVE Grown(<<>>, n)
<1>1. 1..Len(<<>>) = {}
  OBVIOUS
<1> QED
  BY <1>1 DEF Grown, Ordered, KeepsItsBranch

LEMMA SoloStarts ==
  ASSUME SessionAssumption, Init
  PROVE  SoloInv
<1>1. \A w \in Writers : op[w].pc = "idle"
  BY Constants DEF Init
<1>2. entries = <<>> /\ file = <<>> /\ nextId = 0 /\ nextId <= MaxEntries
  BY DEF Init, SessionAssumption
<1>3. Written = <<>> /\ Loads(file)
  <2>1. <<>> \in Seq(LineSet) /\ Len(<<>>) = 0 /\ Loads(<<>>)
    BY DEF Loads
  <2>2. Readable(<<>>) \in Seq(EntrySet) /\ Len(Readable(<<>>)) = 0
    BY <2>1, ReadsAll
  <2> QED
    BY <1>2, <2>1, <2>2, EmptySeq, WrittenIsReadable
<1> QED
  BY <1>1, <1>2, <1>3, NothingGrown DEF SoloInv, Lone, Fits, Matches

\* The others are idle while one has a call under way, and stay so.
LEMMA OthersIdle ==
  ASSUME TypeOK, NEW w \in Writers, NEW o \in OpSet, op' = [op EXCEPT ![w] = o],
         \A v \in Writers : v # w => op[v].pc = "idle"
  PROVE  /\ op'[w] = o /\ (\A v \in Writers : v # w => op'[v] = op[v] /\ op'[v].pc = "idle")
         /\ Lone' /\ (Fits(w)' => \A v \in Writers : Fits(v)')
<1>1. op'[w] = o /\ (\A v \in Writers : v # w => op'[v] = op[v])
  BY DEF TypeOK
<1>2. Lone'
  BY <1>1 DEF Lone
<1>3. \A v \in Writers : v # w => Fits(v)'
  BY <1>1 DEF Fits
<1> QED
  BY <1>1, <1>2, <1>3

\* What is read of the file while no line lands in it.
LEMMA FileRests ==
  ASSUME file' = file PROVE Written' = Written /\ (Loads(file') <=> Loads(file))
  BY DEF Written

LEMMA AppendsSolo ==
  ASSUME TypeOK, SessionAssumption, SharedInv, SoloInv, ~Concurrent, NEW w \in Writers, Appends(w)
  PROVE  SoloInv'
<1>1. PICK type, parent, target, more : Asks(w, type, parent, target, more)
  BY WhatIsAsked
<1> DEFINE e == Entry(type, nextId + 1, parent, target)
           o == [pc |-> "append", entry |-> e, more |-> more]
<1>2. /\ op' = [op EXCEPT ![w] = o] /\ nextId' = nextId + 1 /\ nextId < MaxEntries
      /\ UNCHANGED <<file, opened, entries, currentLeafId, tears>>
  BY <1>1 DEF Asks, Ask, memVars, histVars
<1>3. /\ o \in OpSet /\ o.pc = "append" /\ o.entry = e
      /\ e.type = type /\ e.id = nextId + 1 /\ e.parentId = parent /\ e.targetId = target
      /\ nextId \in Nat /\ MaxEntries \in Nat
  <2>1. /\ type \in Types /\ parent \in Nat /\ target \in Nat /\ more \in BOOLEAN
        /\ nextId \in Nat /\ nextId + 1 \in Nat /\ MaxEntries \in Nat
    BY <1>1, AskedTypes DEF TypeOK, SessionAssumption
  <2>2. /\ e \in EntrySet /\ e.type = type /\ e.id = nextId + 1 /\ e.parentId = parent
        /\ e.targetId = target
    BY <2>1, EntryTyped
  <2> HIDE DEF e
  <2> QED
    BY <2>1, <2>2 DEF OpSet
<1>4. opened
  BY <1>1, AsksBelow
<1>5. \A v \in Writers : op[v].pc # "landed" /\ (v # w => op[v].pc = "idle")
  <2>1. CASE MayCall(w)
    BY <2>1, Constants DEF MayCall
  <2>2. CASE op[w].pc \in {"compacting", "summary"}
    BY <2>2 DEF SoloInv, Lone
  <2> QED
    BY <1>1, <2>1, <2>2 DEF Asks
<1>6. Fits(w)
  BY DEF SoloInv
<1>7. /\ parent = currentLeafId /\ target \in 0..MaxEntries
      /\ type = "compaction" => target \in Ids(PathToRoot(entries, currentLeafId))
  <2>1. CASE MayCall(w) /\ parent = currentLeafId /\ type # "compaction" /\ target \in 0..MaxEntries
    BY <2>1
  <2>2. CASE /\ op[w].pc = "compacting" /\ type = "compaction"
             /\ parent = currentLeafId /\ target = op[w].entry.targetId
    BY <1>6, <2>2 DEF Fits
  <2>3. CASE /\ op[w].pc = "summary" /\ type = "branch_summary"
             /\ parent = op[w].entry.targetId /\ target = 0
    BY <1>3, <1>6, <2>3 DEF Fits
  <2> QED
    BY <1>1, <2>1, <2>2, <2>3 DEF Asks
<1> HIDE DEF o, e
<1>8. /\ op'[w] = o /\ (\A v \in Writers : v # w => op'[v] = op[v] /\ op'[v].pc = "idle")
      /\ Lone' /\ (Fits(w)' => \A v \in Writers : Fits(v)')
  BY <1>2, <1>3, <1>5, OthersIdle
<1>9. Grown(entries, nextId) /\ Grown(entries, nextId + 1)
  BY <1>3, <1>4, GrownLater DEF SoloInv, TypeOK
<1>10. Fits(w)'
  <2>1. \A i \in 1..Len(entries) : entries[i].id < nextId + 1
    <3>1. \A i \in 1..Len(entries) : entries[i].id \in Nat
      BY EntryFields DEF TypeOK
    <3> QED
      BY <1>3, <1>9, <3>1 DEF Grown
  <2> QED
    BY <1>2, <1>3, <1>7, <1>8, <2>1 DEF Fits
<1>11. Written' = Written /\ (Loads(file') <=> Loads(file))
  BY <1>2, FileRests
<1>12. Loads(file) => Matches' /\ Grown(Written, nextId')
  <2> SUFFICES ASSUME Loads(file) PROVE Matches' /\ Grown(Written, nextId')
    OBVIOUS
  <2>1. Matches /\ Grown(Written, nextId) /\ Written \in Seq(EntrySet)
    BY <1>4, ReadsAll, WrittenIsReadable DEF SoloInv, TypeOK
  <2>2. Written = entries /\ \A v \in Writers : op'[v].pc # "landed"
    BY <1>3, <1>5, <1>8, <2>1 DEF Matches
  <2> QED
    BY <1>2, <1>3, <1>11, <2>1, <2>2, GrownLater DEF Matches
<1>13. nextId' <= MaxEntries
  BY <1>2, <1>3
<1> QED
  BY <1>2, <1>4, <1>8, <1>9, <1>10, <1>11, <1>12, <1>13 DEF SoloInv

\* A call fails, or a compaction is prepared.
LEMMA RestsSolo ==
  ASSUME TypeOK, SoloInv, opened, NEW w \in Writers, NEW o \in OpSet, o.pc \in {"idle", "compacting"},
         op[w].pc # "landed", \A v \in Writers : v # w => op[v].pc = "idle",
         o.pc = "compacting" =>
           /\ o.entry.targetId \in Ids(PathToRoot(entries, currentLeafId))
           /\ o.entry.targetId \in 0..MaxEntries,
         op' = [op EXCEPT ![w] = o], UNCHANGED <<opened, entries, currentLeafId, nextId>>,
         \/ file' = file /\ tears' = tears
         \/ ~Loads(file') /\ tears' # 0
  PROVE  SoloInv'
<1>1. /\ op'[w] = o /\ (\A v \in Writers : v # w => op'[v] = op[v] /\ op'[v].pc = "idle")
      /\ Lone' /\ (Fits(w)' => \A v \in Writers : Fits(v)')
  BY OthersIdle
<1>2. Fits(w)'
  BY <1>1 DEF Fits
<1>3. \A v \in Writers : op[v].pc # "landed" /\ op'[v].pc # "landed"
  <2> SUFFICES ASSUME NEW v \in Writers PROVE op[v].pc # "landed" /\ op'[v].pc # "landed"
    OBVIOUS
  <2>1. CASE v = w
    BY <1>1, <2>1
  <2>2. CASE v # w
    BY <1>1, <2>2
  <2> QED
    BY <2>1, <2>2
<1>4. Loads(file') => Loads(file) /\ Written' = Written /\ Matches' /\ Grown(Written, nextId)
  <2> SUFFICES ASSUME Loads(file')
               PROVE  Loads(file) /\ Written' = Written /\ Matches' /\ Grown(Written, nextId)
    OBVIOUS
  <2>1. Written' = Written /\ Loads(file)
    BY FileRests
  <2>2. Matches /\ Grown(Written, nextId)
    BY <2>1 DEF SoloInv
  <2> QED
    BY <1>3, <2>1, <2>2 DEF Matches
<1>5. opened' /\ tears' = 0 => Loads(file')
  BY FileRests DEF SoloInv
<1>6. nextId' <= MaxEntries /\ (opened' => Grown(entries, nextId)')
  BY DEF SoloInv
<1> QED
  BY <1>1, <1>2, <1>4, <1>5, <1>6 DEF SoloInv

LEMMA LandSolo ==
  ASSUME TypeOK, SharedInv, SoloInv, NEW w \in Writers, Land(w)
  PROVE  SoloInv'
<1> DEFINE e == op[w].entry
           o == [op[w] EXCEPT !.pc = "landed"]
<1>1. /\ op[w] \in OpSet /\ e \in EntrySet /\ opened /\ Below(e, entries) /\ op[w].pc = "append"
  BY OpTyped, BusyMeansOpen DEF Land, SharedInv, CallsAreBelow
<1>2. /\ file' = WithLine(file, e) /\ UNCHANGED <<opened, entries, currentLeafId, nextId, tears>>
      /\ op' = [op EXCEPT ![w] = o]
  BY DEF Land, memVars, histVars
<1>3. o \in OpSet /\ o.pc = "landed" /\ o.entry = e
  BY <1>1 DEF OpSet
<1>4. \A v \in Writers : v # w => op[v].pc = "idle"
  BY <1>1 DEF SoloInv, Lone
<1> HIDE DEF e, o
<1>5. /\ op'[w] = o /\ (\A v \in Writers : v # w => op'[v] = op[v] /\ op'[v].pc = "idle")
      /\ Lone' /\ (Fits(w)' => \A v \in Writers : Fits(v)')
  BY <1>2, <1>3, <1>4, OthersIdle
<1>6. Fits(w) /\ e = op[w].entry
  BY DEF SoloInv, e
<1>7. Fits(w)'
  BY <1>1, <1>2, <1>3, <1>5, <1>6 DEF Fits
<1>8. Loads(file') => Matches' /\ Grown(Written', nextId)
  <2> SUFFICES ASSUME Loads(file') PROVE Matches' /\ Grown(Written', nextId)
    OBVIOUS
  <2>1. Loads(file) /\ file \in Seq(LineSet)
    BY <1>1, <1>2, LineLands DEF TypeOK
  <2>2. Written' = Append(Written, e)
    BY <1>1, <1>2, <2>1, ReadsTheLine, WrittenIsReadable
  <2>3. Written = entries
    <3>1. Matches /\ \A v \in Writers : op[v].pc # "landed"
      BY <1>1, <1>4, <2>1 DEF SoloInv
    <3> QED
      BY <3>1 DEF Matches
  <2>4. Matches'
    BY <1>2, <1>3, <1>5, <2>2, <2>3 DEF Matches
  <2>5. Grown(entries, nextId) /\ WellFounded(entries) /\ entries \in Seq(EntrySet) /\ nextId \in Nat
    BY <1>1 DEF SoloInv, SharedInv, MemoryIsLoaded, TypeOK
  <2>6. /\ e.id \in 1..nextId /\ (\A i \in 1..Len(entries) : entries[i].id < e.id)
        /\ e.type = "compaction" => e.targetId \in Ids(PathToRoot(entries, e.parentId))
    BY <1>1, <1>6 DEF Fits
  <2>7. Grown(Append(entries, e), nextId)
    BY <1>1, <2>5, <2>6, GrowsByOne
  <2> QED
    BY <2>2, <2>3, <2>4, <2>7
<1>9. opened' /\ tears' = 0 => Loads(file')
  BY <1>1, <1>2, LineLands DEF SoloInv, TypeOK
<1> QED
  BY <1>2, <1>5, <1>7, <1>8, <1>9 DEF SoloInv

LEMMA ResolveSolo ==
  ASSUME TypeOK, SharedInv, SoloInv, NEW w \in Writers, Resolve(w)
  PROVE  SoloInv'
<1> DEFINE e == op[w].entry
           o == IF op[w].more THEN [op[w] EXCEPT !.pc = "summary"] ELSE Idle
<1>1. /\ op[w] \in OpSet /\ e \in EntrySet /\ opened /\ Below(e, entries) /\ op[w].pc = "landed"
      /\ (op[w].more => e.type = "leaf") /\ op[w].more \in BOOLEAN
  BY OpTyped, BusyMeansOpen DEF Resolve, SharedInv, CallsAreBelow
<1>2. /\ entries' = Append(entries, e) /\ currentLeafId' = leafIdAfterEntry(e)
      /\ UNCHANGED <<file, opened, nextId, tears>> /\ op' = [op EXCEPT ![w] = o]
  BY DEF Resolve, histVars
<1>3. o \in OpSet /\ o.pc \in {"idle", "summary"} /\ (o.pc = "summary" => o.entry = e /\ e.type = "leaf")
  <2>1. CASE op[w].more
    BY <1>1, <2>1 DEF OpSet
  <2>2. CASE ~op[w].more
    BY <2>2, Constants
  <2> QED
    BY <2>1, <2>2
<1>4. \A v \in Writers : v # w => op[v].pc = "idle"
  BY <1>1 DEF SoloInv, Lone
<1> HIDE DEF e, o
<1>5. /\ op'[w] = o /\ (\A v \in Writers : v # w => op'[v] = op[v] /\ op'[v].pc = "idle")
      /\ Lone' /\ (Fits(w)' => \A v \in Writers : Fits(v)')
  BY <1>2, <1>3, <1>4, OthersIdle
<1>6. Fits(w) /\ e = op[w].entry
  BY DEF SoloInv, e
<1>7. Fits(w)'
  BY <1>2, <1>3, <1>5 DEF Fits, leafIdAfterEntry
<1>8. Written' = Written /\ (Loads(file') <=> Loads(file))
  BY <1>2, FileRests
<1>9. Loads(file) => Matches' /\ Grown(Written, nextId)
  <2> SUFFICES ASSUME Loads(file) PROVE Matches' /\ Grown(Written, nextId)
    OBVIOUS
  <2>1. Written = entries' /\ Grown(Written, nextId)
    BY <1>1, <1>2, <1>6 DEF SoloInv, Matches
  <2>2. \A v \in Writers : op'[v].pc # "landed"
    BY <1>3, <1>5
  <2> QED
    BY <1>8, <2>1, <2>2 DEF Matches
<1>10. Grown(entries', nextId)
  <2>1. Grown(entries, nextId) /\ WellFounded(entries) /\ entries \in Seq(EntrySet) /\ nextId \in Nat
    BY <1>1 DEF SoloInv, SharedInv, MemoryIsLoaded, TypeOK
  <2>2. /\ e.id \in 1..nextId /\ (\A i \in 1..Len(entries) : entries[i].id < e.id)
        /\ e.type = "compaction" => e.targetId \in Ids(PathToRoot(entries, e.parentId))
    BY <1>1, <1>6 DEF Fits
  <2> QED
    BY <1>1, <1>2, <2>1, <2>2, GrowsByOne
<1>11. (opened' /\ tears' = 0 => Loads(file')) /\ nextId' <= MaxEntries
  BY <1>1, <1>2, <1>8 DEF SoloInv
<1> QED
  BY <1>2, <1>5, <1>7, <1>8, <1>9, <1>10, <1>11 DEF SoloInv

LEMMA CrashSolo ==
  ASSUME TypeOK, SoloInv, Crash
  PROVE  SoloInv'
<1>1. /\ op' = [w \in Writers |-> Idle] /\ opened' = FALSE /\ UNCHANGED <<nextId, tears>>
      /\ file' = file \/ file' = WithTear(file)
  BY DEF Crash
<1>2. \A w \in Writers : op'[w].pc = "idle"
  BY <1>1, Constants
<1>3. Lone' /\ \A w \in Writers : Fits(w)'
  BY <1>2 DEF Lone, Fits
<1>4. Loads(file') => Grown(Written', nextId')
  BY <1>1, FileRests, LineTears DEF SoloInv, TypeOK
<1> QED
  BY <1>1, <1>3, <1>4 DEF SoloInv

LEMMA OpenSolo ==
  ASSUME TypeOK, SharedInv, SoloInv, Open
  PROVE  SoloInv'
<1>1. /\ entries' = Written /\ UNCHANGED <<file, op, nextId, tears>> /\ Loads(file) /\ ~opened
  BY DEF Open, histVars
<1>2. \A w \in Writers : op'[w].pc = "idle"
  BY <1>1, Constants DEF SharedInv
<1>3. Lone' /\ \A w \in Writers : Fits(w)'
  BY <1>2 DEF Lone, Fits
<1>4. Written' = Written /\ (Loads(file') <=> Loads(file))
  BY <1>1, FileRests
<1>5. Matches' /\ Grown(Written, nextId)
  BY <1>1, <1>2, <1>4 DEF SoloInv, Matches
<1> QED
  BY <1>1, <1>3, <1>4, <1>5 DEF SoloInv

LEMMA SoloKept ==
  ASSUME TypeOK, SessionAssumption, SharedInv, SoloInv, ~Concurrent, [Next]_vars
  PROVE  SoloInv'
<1>1. ASSUME NEW w \in Writers, NEW t \in 0..MaxEntries, PrepareCompaction(w, t) PROVE SoloInv'
  <2> DEFINE o == [pc |-> "compacting", entry |-> Entry("compaction", 0, 0, t), more |-> FALSE]
  <2>1. o \in OpSet /\ o.pc = "compacting" /\ o.entry.targetId = t
    <3>1. t \in Nat /\ "compaction" \in Types
      BY DEF SessionAssumption, Types
    <3> QED
      BY <3>1, EntryTyped DEF OpSet
  <2>2. /\ op' = [op EXCEPT ![w] = o] /\ opened /\ t \in Ids(PathToRoot(entries, currentLeafId))
        /\ UNCHANGED <<file, opened, entries, currentLeafId, nextId, tears>>
        /\ \A v \in Writers : op[v].pc = "idle"
    BY <1>1, Constants DEF PrepareCompaction, MayCall, memVars, histVars
  <2> HIDE DEF o
  <2> QED
    BY <1>1, <2>1, <2>2, RestsSolo
<1>2. ASSUME NEW w \in Writers, AppendFails(w) \/ AppendTears(w) PROVE SoloInv'
  <2>1. opened /\ op[w].pc = "append"
    BY <1>2, BusyMeansOpen DEF AppendFails, AppendTears
  <2>2. \A v \in Writers : v # w => op[v].pc = "idle"
    BY <2>1 DEF SoloInv, Lone
  <2>3. /\ op' = [op EXCEPT ![w] = Idle]
        /\ UNCHANGED <<opened, entries, currentLeafId, nextId>>
        /\ \/ file' = file /\ tears' = tears
           \/ ~Loads(file') /\ tears' # 0
    <3>1. CASE AppendFails(w)
      BY <3>1 DEF AppendFails, memVars
    <3>2. CASE AppendTears(w)
      <4>1. tears' = tears + 1 /\ tears \in Nat
        BY <3>2 DEF AppendTears, TypeOK
      <4> QED
        BY <3>2, <4>1, LineTears DEF AppendTears, memVars, TypeOK
    <3> QED
      BY <1>2, <3>1, <3>2
  <2> QED
    BY <2>1, <2>2, <2>3, RestsSolo, Constants
<1>3. CASE UNCHANGED vars
  <2>1. UNCHANGED <<file, opened, entries, currentLeafId, op, nextId, tears>>
    BY <1>3 DEF vars, memVars, histVars
  <2>2. Written' = Written /\ (Loads(file') <=> Loads(file))
    BY <2>1, FileRests
  <2>3. Lone' /\ (Matches' <=> Matches) /\ \A w \in Writers : Fits(w)'
    BY <2>1, <2>2 DEF SoloInv, Lone, Fits, Matches
  <2> QED
    BY <2>1, <2>2, <2>3 DEF SoloInv
<1> QED
  BY <1>1, <1>2, <1>3, Callers, AppendsSolo, LandSolo, ResolveSolo, CrashSolo, OpenSolo DEF Next, Storage

LEMMA SoloHolds == ~Concurrent => (Spec => [](TypeOK /\ SharedInv /\ SoloInv))
<1> SUFFICES ASSUME ~Concurrent PROVE Spec => [](TypeOK /\ SharedInv /\ SoloInv)
  OBVIOUS
<1>1. Init => TypeOK /\ SharedInv /\ SoloInv
  BY TypesStart, SharedStarts, SoloStarts, SessionAssumption
<1>2. TypeOK /\ SharedInv /\ SoloInv /\ [Next]_vars => (TypeOK /\ SharedInv /\ SoloInv)'
  BY TypesKept, SharedKept, SoloKept, SessionAssumption
<1> QED
  BY <1>1, <1>2, PTL DEF Spec

\* One caller at a time: whatever crashes or fails in between, as long as no
\* line is torn, memory and file agree between calls, leaf and labels included.
THEOREM MemoryStaysFile == ~Concurrent => (Spec => []MemoryIsFile)
<1> SUFFICES ASSUME ~Concurrent PROVE Spec => []MemoryIsFile
  OBVIOUS
<1>1. SharedInv /\ SoloInv => MemoryIsFile
  BY DEF MemoryIsFile, SharedInv, MemoryIsLoaded, SoloInv, Matches
<1> QED
  BY <1>1, SoloHolds, PTL

\* One caller at a time: a compaction keeps from an entry of its own branch, so
\* its context has all from there on and nothing twice; a fork is a branch.
THEOREM BranchesAreKept == ~Concurrent => (Spec => []BranchesHold)
<1> SUFFICES ASSUME ~Concurrent PROVE Spec => []BranchesHold
  OBVIOUS
<1>1. TypeOK /\ SharedInv /\ SoloInv => BranchesHold
  <2> SUFFICES ASSUME TypeOK, SharedInv, SoloInv PROVE BranchesHold
    OBVIOUS
  <2>1. CASE opened
    <3>1. entries \in Seq(EntrySet) /\ WellFounded(entries) /\ Ordered(entries) /\ KeepsItsBranch(entries)
      BY <2>1 DEF TypeOK, SharedInv, MemoryIsLoaded, SoloInv, Grown
    <3> QED
      BY <3>1, ContextHoldsTheBranch, ForkHoldsTheBranch
      DEF BranchesHold, CompactionKeepsItsBranch, ForkIsTheBranch
  <2>2. CASE ~opened
    <3>1. entries = <<>> /\ Ids(entries) = {} /\ 1..Len(entries) = {}
      BY <2>2, IdsEmpty DEF SharedInv
    <3> QED
      BY <3>1 DEF BranchesHold, CompactionKeepsItsBranch, ForkIsTheBranch
  <2> QED
    BY <2>1, <2>2
<1> QED
  BY <1>1, SoloHolds, PTL

-----------------------------------------------------------------------------
(* The file is the tree of SessionTree.tla.                                *)

\* The operators of SessionTree are those of Session.
LEMMA SameEntries ==
  /\ Tree!Types = Types
  /\ \A es : Tree!Ids(es) = Ids(es)
  /\ \A type, id, parent, target : Tree!Entry(type, id, parent, target) = Entry(type, id, parent, target)
  /\ \A labels, e : Tree!UpdateLabels(labels, e) = UpdateLabels(labels, e)
<1>1. Tree!Types = Types
  BY DEF Tree!Types, Types
<1>2. \A es : Tree!Ids(es) = Ids(es)
  BY DEF Tree!Ids, Ids
<1>3. \A type, id, parent, target : Tree!Entry(type, id, parent, target) = Entry(type, id, parent, target)
  BY DEF Tree!Entry, Entry
<1>4. \A labels, e : Tree!UpdateLabels(labels, e) = UpdateLabels(labels, e)
  BY DEF Tree!UpdateLabels, UpdateLabels
<1> QED
  BY <1>1, <1>2, <1>3, <1>4

treeVars == <<Written, LoadedLeaf(Written), BuildLabels(Written)>>

LEMMA TreeStarts ==
  ASSUME Init
  PROVE  Tree!Init
<1>1. file = <<>>
  BY DEF Init
<1>2. Written = <<>>
  <2>1. <<>> \in Seq(LineSet) /\ Len(<<>>) = 0 /\ Loads(<<>>)
    BY DEF Loads
  <2>2. Readable(<<>>) \in Seq(EntrySet) /\ Len(Readable(<<>>)) = 0
    BY <2>1, ReadsAll
  <2> QED
    BY <1>1, <2>2, EmptySeq, WrittenIsReadable
<1> QED
  BY <1>2, IdsEmpty DEF Tree!Init

\* A line that lands is one step of the tree: a move of the leaf, or an entry
\* below it.
LEMMA LandIsAStep ==
  ASSUME TypeOK, SessionAssumption, SharedInv, SoloInv, tears = 0, NEW w \in Writers, Land(w)
  PROVE  Tree!Next
<1> DEFINE e == op[w].entry
<1>1. /\ e \in EntrySet /\ opened /\ Below(e, entries) /\ op[w].pc = "append" /\ Fits(w)
      /\ file' = WithLine(file, e)
  BY OpTyped, BusyMeansOpen DEF Land, SharedInv, CallsAreBelow, SoloInv
<1>2. Loads(file) /\ Written' = Append(Written, e)
  BY <1>1, ReadsTheLine, WrittenIsReadable DEF SoloInv, TypeOK
<1>3. Written = entries
  <2>1. \A v \in Writers : op[v].pc # "landed"
    BY <1>1 DEF SoloInv, Lone
  <2> QED
    BY <1>1, <1>2, <2>1 DEF SoloInv, Matches
<1>4. /\ e.parentId = LoadedLeaf(Written) /\ e.id \in 1..nextId /\ e.targetId \in 0..MaxEntries
      /\ \A i \in 1..Len(entries) : entries[i].id < e.id
  BY <1>1, <1>3 DEF Fits, SharedInv, MemoryIsLoaded
<1> HIDE DEF e
<1>5. /\ e.id \in 1..MaxEntries /\ e.targetId \in 1..MaxEntries \union {0}
      /\ e.id \notin Ids(Written)
  <2>1. nextId \in Nat /\ MaxEntries \in Nat /\ nextId <= MaxEntries
    BY DEF TypeOK, SessionAssumption, SoloInv
  <2>2. \A i \in 1..Len(entries) : entries[i].id # e.id
    <3>1. \A i \in 1..Len(entries) : entries[i].id \in Nat
      BY EntryFields DEF TypeOK
    <3> QED
      BY <1>4, <2>1, <3>1
  <2> QED
    BY <1>3, <1>4, <2>1, <2>2 DEF Ids
<1>6. /\ e = Entry(e.type, e.id, e.parentId, e.targetId) /\ e.type \in Types
      /\ e.type = "leaf" => e.targetId \in Ids(Written) \union {0}
  BY <1>1, <1>3 DEF EntrySet, Entry, Below
<1>7. /\ LoadedLeaf(Written') = leafIdAfterEntry(e)
      /\ BuildLabels(Written') = UpdateLabels(BuildLabels(Written), e)
  BY <1>1, <1>2, <1>3, LeafAfterAppend, LabelsAppend DEF TypeOK
<1>8. CASE e.type = "leaf"
  <2>1. LoadedLeaf(Written') = e.targetId /\ BuildLabels(Written') = BuildLabels(Written)
    BY <1>7, <1>8 DEF leafIdAfterEntry, UpdateLabels
  <2>2. Tree!SetLeafId(e.id, e.targetId)
    BY <1>2, <1>4, <1>5, <1>6, <1>8, <2>1, SameEntries DEF Tree!SetLeafId
  <2> QED
    BY <1>5, <2>2 DEF Tree!Next
<1>9. CASE e.type # "leaf"
  <2>1. LoadedLeaf(Written') = e.id
    BY <1>7, <1>9 DEF leafIdAfterEntry
  <2>2. Tree!AppendEntry(e.type, e.id, e.targetId)
    BY <1>2, <1>4, <1>5, <1>6, <1>7, <2>1, SameEntries DEF Tree!AppendEntry
  <2>3. e.type \in Tree!Types \ {"leaf"}
    BY <1>6, <1>9, SameEntries
  <2> QED
    BY <1>5, <2>2, <2>3 DEF Tree!Next
<1> QED
  BY <1>8, <1>9

\* Whatever else happens - calls, failures, crashes, reopening - leaves what
\* is written as it is.
LEMMA OthersStutter ==
  ASSUME TypeOK, SessionAssumption, MaxTears = 0, tears = 0, [Next]_vars,
         ~\E w \in Writers : Land(w)
  PROVE  UNCHANGED treeVars /\ tears' = 0
<1>1. ASSUME file' = file PROVE UNCHANGED treeVars
  BY <1>1, FileRests DEF treeVars
<1>2. ASSUME NEW w \in Writers, Appends(w) PROVE file' = file /\ tears' = 0
  <2>1. PICK type, parent, target, more : Asks(w, type, parent, target, more)
    BY <1>2, WhatIsAsked
  <2> QED
    BY <2>1 DEF Asks, Ask, histVars
<1>3. ASSUME NEW w \in Writers, NEW t \in 0..MaxEntries, PrepareCompaction(w, t)
      PROVE  file' = file /\ tears' = 0
  BY <1>3 DEF PrepareCompaction, histVars
<1>4. ASSUME NEW w \in Writers, AppendFails(w) \/ Resolve(w) PROVE file' = file /\ tears' = 0
  BY <1>4 DEF AppendFails, Resolve, histVars
<1>5. ASSUME NEW w \in Writers PROVE ~AppendTears(w)
  BY DEF AppendTears
<1>6. CASE Crash
  <2>1. (file' = file \/ file' = WithTear(file)) /\ tears' = 0
    BY <1>6 DEF Crash
  <2>2. ASSUME file' = WithTear(file) PROVE Written' = Written
    BY <2>2, LineTears, WrittenIsReadable DEF TypeOK
  <2> QED
    BY <1>1, <2>1, <2>2 DEF treeVars
<1>7. CASE Open
  BY <1>1, <1>7 DEF Open, histVars
<1>8. CASE UNCHANGED vars
  BY <1>1, <1>8 DEF vars, histVars
<1> QED
  BY <1>1, <1>2, <1>3, <1>4, <1>5, <1>6, <1>7, <1>8, Callers DEF Next, Storage

LEMMA LandTearsNothing ==
  ASSUME tears = 0, NEW w \in Writers, Land(w) PROVE tears' = 0
  BY DEF Land, histVars

\* One caller at a time, and no line torn by a failing append: the file is the
\* tree of SessionTree, each line that lands one atomic step of it, through
\* any number of crashes, failed appends and reopenings.
THEOREM FileIsTheTree == ~Concurrent /\ MaxTears = 0 => (Spec => ImplementsTree)
<1> SUFFICES ASSUME ~Concurrent, MaxTears = 0 PROVE Spec => ImplementsTree
  OBVIOUS
<1>1. Init => tears = 0 /\ Tree!Init
  BY TreeStarts DEF Init
<1>2. TypeOK /\ SharedInv /\ SoloInv /\ tears = 0 /\ [Next]_vars
        => (tears = 0)' /\ [Tree!Next]_<<Written, LoadedLeaf(Written), BuildLabels(Written)>>
  BY LandIsAStep, OthersStutter, LandTearsNothing, SessionAssumption DEF treeVars
<1>3. Spec => [](TypeOK /\ SharedInv /\ SoloInv)
  BY SoloHolds
<1> QED
  BY <1>1, <1>2, <1>3, PTL DEF Spec, ImplementsTree, Tree!Spec

=============================================================================
