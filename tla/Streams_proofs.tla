--------------------------- MODULE Streams_proofs ---------------------------
(***************************************************************************)
(* The inductive invariant of EventStream.tla, and with it its safety      *)
(* properties, for any set of iterators and any number of events; and that *)
(* the message a turn ends with is the provider's final one, proved of     *)
(* ResponseStream.tla for responses of any length.                         *)
(***************************************************************************)
EXTENDS EventStream, ResponseStream, SequenceTheorems, TLAPS

-----------------------------------------------------------------------------
(* Facts about the data, so that the steps need not expand it.             *)

LEMMA EventFacts ==
  /\ Pending \in Event /\ Pending.n = 0 /\ ~Pending.final /\ Given \in Event
  /\ \A e \in Event : e.n \in Nat /\ e.final \in BOOLEAN
  BY DEF Event, Pending, Given

LEMMA Appended ==
  ASSUME NEW S, NEW s \in Seq(S), NEW e \in S
  PROVE  /\ Append(s, e) \in Seq(S) /\ Len(Append(s, e)) = Len(s) + 1 /\ Len(s) \in Nat
         /\ \A i \in 1 .. Len(s) : Append(s, e)[i] = s[i]
         /\ Append(s, e)[Len(s) + 1] = e
  BY AppendProperties, LenProperties

LEMMA Shifted ==
  ASSUME NEW S, NEW s \in Seq(S), s # <<>>
  PROVE  /\ Len(s) \in Nat \ {0} /\ Head(s) = s[1] /\ Head(s) \in S
         /\ Tail(s) \in Seq(S) /\ Len(Tail(s)) = Len(s) - 1
         /\ \A i \in 1 .. Len(Tail(s)) : Tail(s)[i] = s[i + 1]
  BY HeadTailProperties, EmptySeq

\* The conjuncts of the invariant, with the types as facts.
LEMMA Unfolded ==
  ASSUME StreamInv
  PROVE  /\ queue \in Seq(Event) /\ waiting \in Seq(Consumers) /\ done \in BOOLEAN
         /\ result \in Event /\ log \in Seq(Event) /\ ended \in BOOLEAN
         /\ at \in [Consumers -> States] /\ inbox \in [Consumers -> Event]
         /\ received \in [Consumers -> Seq(Event)]
         /\ Len(queue) \in Nat /\ Len(log) \in Nat /\ Len(waiting) \in Nat
         /\ \A c \in Consumers : Len(received[c]) \in Nat
         /\ WaitersSleep /\ NobodySleepsBesideAnEvent /\ QueueIsTheRest
         /\ Numbered /\ EachEventOnce /\ GivenInOrder /\ FinalEventIsTheResult
  BY LenProperties DEF StreamInv, TypeOK


\* One more event is handed out, and it is given to w.
LEMMA GivenOneMore ==
  ASSUME EachEventOnce, NEW w \in Consumers, Handed \in Nat, Handed' = Handed + 1,
         GivenTo'[w] = GivenTo[w] \union {Handed + 1},
         \A c \in Consumers : c # w => GivenTo'[c] = GivenTo[c]
  PROVE  EachEventOnce'
  <1>0. /\ \A n \in 1 .. Handed : \E c \in Consumers : n \in GivenTo[c]
        /\ \A c \in Consumers : GivenTo[c] \subseteq 1 .. Handed
        /\ \A c, d \in Consumers : c # d => GivenTo[c] \intersect GivenTo[d] = {}
    BY DEF EachEventOnce
  <1>1. ASSUME NEW n \in 1 .. Handed' PROVE \E c \in Consumers : n \in GivenTo'[c]
    <2>1. CASE n = Handed + 1
      BY <2>1
    <2>2. CASE n \in 1 .. Handed
      <3>1. PICK c \in Consumers : n \in GivenTo[c]
        BY <2>2, <1>0
      <3> QED
        BY <3>1
    <2> QED
      BY <2>1, <2>2
  <1>2. ASSUME NEW c \in Consumers PROVE GivenTo'[c] \subseteq 1 .. Handed'
    <2>1. GivenTo'[c] \subseteq GivenTo[c] \union {Handed + 1}
      OBVIOUS
    <2>2. ASSUME NEW x \in GivenTo[c] \union {Handed + 1} PROVE x \in 1 .. Handed + 1
      BY <1>0
    <2> QED
      BY <2>1, <2>2
  <1>3. ASSUME NEW c \in Consumers, NEW d \in Consumers, c # d
        PROVE  GivenTo'[c] \intersect GivenTo'[d] = {}
    <2>1. GivenTo[c] \intersect GivenTo[d] = {}
      BY <1>3, <1>0
    <2>2. Handed + 1 \notin GivenTo[c] /\ Handed + 1 \notin GivenTo[d]
      BY <1>0
    <2> QED
      BY <2>1, <2>2, <1>3
  <1>4. /\ \A n \in 1 .. Handed' : \E c \in Consumers : n \in GivenTo'[c]
        /\ \A c \in Consumers : GivenTo'[c] \subseteq 1 .. Handed'
        /\ \A c, d \in Consumers : c # d => GivenTo'[c] \intersect GivenTo'[d] = {}
    BY <1>1, <1>2, <1>3
  <1> QED
    BY <1>4 DEF EachEventOnce

-----------------------------------------------------------------------------
\* The initial state: an empty stream, and iterators that have nothing.
LEMMA InitIInv == Init => StreamInv
  <1> SUFFICES ASSUME Init PROVE StreamInv
    OBVIOUS
  <1> USE EventFacts DEF Init, StreamInit
  <1>0. <<>> \in Seq(Event) /\ <<>> \in Seq(Consumers) /\ Len(<<>>) = 0
    BY EmptySeq
  <1>1. TypeOK
    BY <1>0 DEF TypeOK, States
  <1>2. WaitersSleep /\ NobodySleepsBesideAnEvent
    BY <1>0 DEF WaitersSleep, NobodySleepsBesideAnEvent
  <1>3. QueueIsTheRest /\ FinalEventIsTheResult
    BY <1>0 DEF QueueIsTheRest, FinalEventIsTheResult
  <1>4. Numbered
    BY <1>0 DEF Numbered, Handed
  <1>5. EachEventOnce /\ GivenInOrder
    <2>1. Handed = 0
      BY <1>0 DEF Handed
    <2>2. \A c \in Consumers : received[c] = <<>> /\ inbox[c].n = 0 /\ inbox[c] = Pending
      OBVIOUS
    <2>3. ASSUME NEW c \in Consumers PROVE GivenTo[c] = {}
      <3>1. 1 .. Len(received[c]) = {} /\ {inbox[c].n} \ {0} = {}
        BY <1>0, <2>2
      <3> QED
        BY <3>1 DEF GivenTo
    <2> QED
      BY <1>0, <2>1, <2>2, <2>3 DEF EachEventOnce, GivenInOrder
  <1> QED
    BY <1>1, <1>2, <1>3, <1>4, <1>5 DEF StreamInv

\* A push that wakes a consumer: the queue is empty, the event is in flight.
LEMMA PushToWaiter ==
  ASSUME StreamInv, NEW e \in Event, e.n = Len(log) + 1, Push(e), waiting # <<>>
  PROVE  StreamInv'
  <1> DEFINE w == Head(waiting)
  <1> USE EventFacts, Unfolded
  <1>1. /\ w \in Consumers /\ w = waiting[1] /\ waiting' = Tail(waiting)
        /\ Tail(waiting) \in Seq(Consumers) /\ Len(waiting) \in Nat \ {0}
        /\ Len(waiting') = Len(waiting) - 1
        /\ \A i \in 1 .. Len(waiting') : waiting'[i] = waiting[i + 1]
    <2>1. waiting' = Tail(waiting)
      BY DEF Push
    <2>2. waiting \in Seq(Consumers)
      OBVIOUS
    <2> QED
      BY <2>1, <2>2, Shifted
  <1>2. at[w] = "waiting" /\ inbox[w] = Pending
    BY <1>1 DEF WaitersSleep
  <1>3. queue = <<>> /\ queue' = <<>> /\ Len(<<>>) = 0 /\ ~done /\ result = Pending
    BY EmptySeq DEF NobodySleepsBesideAnEvent, Push, Numbered
  <1>4. /\ log' = Append(log, e) /\ log' \in Seq(Event) /\ Len(log') = Len(log) + 1
        /\ \A i \in 1 .. Len(log) : log'[i] = log[i]
        /\ log'[Len(log) + 1] = e
    BY Appended DEF Push
  <1>5. /\ at' = [at EXCEPT ![w] = "woken"] /\ inbox' = [inbox EXCEPT ![w] = e]
        /\ received' = received /\ ended' = ended /\ done' = e.final
        /\ result' = IF e.final THEN e ELSE result
    BY <1>3 DEF Push, Resolve
  <1> HIDE DEF w
  <1>6. Handed = Len(log) /\ Handed' = Len(log) + 1
    BY <1>3, <1>4 DEF Handed
  <1>7. TypeOK'
    BY <1>1, <1>3, <1>4, <1>5 DEF TypeOK, States
  <1>8. WaitersSleep'
    BY <1>1, <1>2, <1>5 DEF WaitersSleep, States
  <1>9. NobodySleepsBesideAnEvent' /\ QueueIsTheRest'
    BY <1>3 DEF NobodySleepsBesideAnEvent, QueueIsTheRest
  <1>10. Numbered'
    <2>1. \A i \in 1 .. Len(log') : log'[i].n = i
      BY <1>4 DEF Numbered
    <2>2. \A c \in Consumers : inbox'[c] # Pending => inbox'[c].n \in 1 .. Handed'
      BY <1>1, <1>5, <1>6 DEF Numbered
    <2>3. ASSUME NEW c \in Consumers, NEW i \in 1 .. Len(received[c])
          PROVE  received[c][i].n \in 1 .. Handed'
      <3>1. received[c][i].n \in 1 .. Handed
        BY DEF Numbered
      <3> QED
        BY <3>1, <1>6
    <2>4. ~done' => result' = Pending /\ \A i \in 1 .. Len(log') : ~log'[i].final
      BY <1>3, <1>4, <1>5 DEF Numbered
    <2> QED
      BY <1>3, <1>4, <1>5, <2>1, <2>2, <2>3, <2>4 DEF Numbered
  <1>11. FinalEventIsTheResult'
    BY <1>3, <1>4, <1>5 DEF Numbered, FinalEventIsTheResult
  <1>12. GivenInOrder'
    BY <1>1, <1>5, <1>6 DEF Numbered, GivenInOrder
  <1>13. /\ GivenTo'[w] = GivenTo[w] \union {Handed + 1}
         /\ \A c \in Consumers : c # w => GivenTo'[c] = GivenTo[c]
    <2>1. inbox[w].n = 0 /\ inbox'[w].n = Len(log) + 1
      BY <1>1, <1>2, <1>5
    <2>2. \A c \in Consumers \ {w} : inbox'[c] = inbox[c]
      BY <1>5
    <2>3. \A c \in Consumers \ {w} : GivenTo'[c] = GivenTo[c]
      BY <1>5, <2>2 DEF GivenTo
    <2>4. GivenTo'[w] = GivenTo[w] \union {Len(log) + 1}
      BY <1>1, <1>5, <2>1 DEF GivenTo
    <2> QED
      BY <1>6, <2>3, <2>4
  <1>14. EachEventOnce'
    BY <1>1, <1>6, <1>13, GivenOneMore
  <1> QED
    BY <1>7, <1>8, <1>9, <1>10, <1>11, <1>12, <1>14 DEF StreamInv

\* A push while nobody sleeps: the event is the last of the queue.
LEMMA PushQueued ==
  ASSUME StreamInv, NEW e \in Event, e.n = Len(log) + 1, Push(e), waiting = <<>>
  PROVE  StreamInv'
  <1> USE EventFacts, Unfolded
  <1>1. /\ log' = Append(log, e) /\ log' \in Seq(Event) /\ Len(log') = Len(log) + 1
        /\ \A i \in 1 .. Len(log) : log'[i] = log[i]
        /\ log'[Len(log) + 1] = e
    BY Appended DEF Push
  <1>2. /\ queue' = Append(queue, e) /\ queue' \in Seq(Event)
        /\ Len(queue') = Len(queue) + 1
        /\ \A i \in 1 .. Len(queue) : queue'[i] = queue[i]
        /\ queue'[Len(queue) + 1] = e
    <2>1. queue' = Append(queue, e)
      BY DEF Push
    <2> QED
      BY <2>1, Appended
  <1>3. ~done /\ result = Pending /\ Len(queue) <= Len(log)
    BY DEF Push, Numbered
  <1>4. /\ waiting' = waiting /\ at' = at /\ inbox' = inbox
        /\ received' = received /\ ended' = ended /\ done' = e.final
        /\ result' = IF e.final THEN e ELSE result
    BY <1>3 DEF Push, Resolve
  <1>5. Handed' = Handed /\ Handed \in Nat /\ GivenTo' = GivenTo
    BY <1>1, <1>2, <1>3, <1>4 DEF Handed, GivenTo
  <1>6. TypeOK'
    BY <1>1, <1>2, <1>3, <1>4 DEF TypeOK
  <1>7. WaitersSleep' /\ NobodySleepsBesideAnEvent' /\ GivenInOrder'
    BY <1>4 DEF WaitersSleep, NobodySleepsBesideAnEvent, GivenInOrder
  <1>8. QueueIsTheRest'
    <2> SUFFICES ASSUME NEW i \in 1 .. Len(queue')
                 PROVE  queue'[i] = log'[Len(log') - Len(queue') + i]
      BY DEF QueueIsTheRest
    <2>1. CASE i = Len(queue) + 1
      BY <2>1, <1>1, <1>2, <1>3
    <2>2. CASE i \in 1 .. Len(queue)
      <3>1. queue[i] = log[Len(log) - Len(queue) + i]
        BY <2>2 DEF QueueIsTheRest
      <3>2. /\ Len(log) - Len(queue) + i \in 1 .. Len(log)
            /\ Len(log') - Len(queue') + i = Len(log) - Len(queue) + i
        BY <2>2, <1>1, <1>2, <1>3
      <3> QED
        BY <3>1, <3>2, <2>2, <1>1, <1>2
    <2> QED
      BY <2>1, <2>2, <1>2
  <1>9. Numbered'
    <2>1. \A i \in 1 .. Len(log') : log'[i].n = i
      BY <1>1 DEF Numbered
    <2>2. ~done' => result' = Pending /\ \A i \in 1 .. Len(log') : ~log'[i].final
      BY <1>1, <1>3, <1>4 DEF Numbered
    <2>3. /\ \A c \in Consumers : inbox[c] # Pending => inbox[c].n \in 1 .. Handed
          /\ \A c \in Consumers : \A i \in 1 .. Len(received[c]) :
               received[c][i].n \in 1 .. Handed
      BY DEF Numbered
    <2> QED
      BY <1>1, <1>2, <1>3, <1>4, <1>5, <2>1, <2>2, <2>3 DEF Numbered
  <1>10. FinalEventIsTheResult'
    BY <1>1, <1>3, <1>4 DEF Numbered, FinalEventIsTheResult
  <1>11. EachEventOnce'
    BY <1>5 DEF EachEventOnce
  <1> QED
    BY <1>6, <1>7, <1>8, <1>9, <1>10, <1>11 DEF StreamInv

\* end(): the sleepers are woken without an event.
LEMMA EndStream ==
  ASSUME StreamInv, NEW r \in {Pending, Given}, End(r)
  PROVE  StreamInv'
  <1> USE EventFacts, Unfolded
  <1>1. /\ queue' = queue /\ log' = log /\ inbox' = inbox /\ received' = received
        /\ waiting' = <<>> /\ done' = TRUE /\ ended' = TRUE
        /\ result' = IF r # Pending /\ result = Pending THEN r ELSE result
    BY DEF End, Resolve
  <1>2. /\ at' = [c \in Consumers |->
                    IF \E i \in 1 .. Len(waiting) : waiting[i] = c THEN "woken" ELSE at[c]]
        /\ Len(<<>>) = 0 /\ <<>> \in Seq(Consumers)
    BY EmptySeq DEF End
  <1>3. Handed' = Handed /\ GivenTo' = GivenTo
    BY <1>1 DEF Handed, GivenTo
  <1>4. TypeOK'
    <2>1. at' \in [Consumers -> States]
      BY <1>2 DEF States
    <2>2. result' \in Event /\ done' \in BOOLEAN /\ ended' \in BOOLEAN
      BY <1>1
    <2> QED
      BY <1>1, <1>2, <2>1, <2>2 DEF TypeOK
  <1>5. WaitersSleep'
    BY <1>1, <1>2 DEF WaitersSleep
  <1>6. NobodySleepsBesideAnEvent' /\ QueueIsTheRest' /\ GivenInOrder'
    BY <1>1 DEF NobodySleepsBesideAnEvent, QueueIsTheRest, GivenInOrder
  <1>7. Numbered'
    BY <1>1, <1>3 DEF Numbered
  <1>8. EachEventOnce'
    BY <1>3 DEF EachEventOnce
  <1>9. FinalEventIsTheResult'
    <2> SUFFICES ASSUME NEW i \in 1 .. Len(log), log[i].final
                 PROVE  i = Len(log) /\ result' = log[i]
      BY <1>1 DEF FinalEventIsTheResult
    <2>1. i = Len(log) /\ result = log[i] /\ log[i].n = i
      BY DEF FinalEventIsTheResult, Numbered
    <2>2. result # Pending
      BY <2>1
    <2> QED
      BY <2>1, <2>2, <1>1
  <1> QED
    BY <1>4, <1>5, <1>6, <1>7, <1>8, <1>9 DEF StreamInv

\* A ready consumer takes the oldest event of the queue.
LEMMA TakeEvent ==
  ASSUME StreamInv, NEW c \in Consumers, Take(c)
  PROVE  StreamInv'
  <1> USE EventFacts, Unfolded
  <1>1. /\ Len(queue) \in Nat \ {0} /\ Head(queue) = queue[1] /\ Head(queue) \in Event
        /\ queue' = Tail(queue) /\ queue' \in Seq(Event) /\ Len(queue') = Len(queue) - 1
        /\ \A i \in 1 .. Len(queue') : queue'[i] = queue[i + 1]
    <2>1. queue # <<>> /\ queue' = Tail(queue)
      BY DEF Take
    <2> QED
      BY <2>1, Shifted
  <1>2. /\ waiting' = waiting /\ done' = done /\ result' = result /\ at' = at
        /\ inbox' = inbox /\ log' = log /\ ended' = ended
        /\ received' = [received EXCEPT ![c] = Append(@, Head(queue))]
        /\ at[c] = "ready" /\ inbox[c] = Pending /\ waiting = <<>>
    BY <1>1, EmptySeq DEF Take, WaitersSleep, NobodySleepsBesideAnEvent
  <1>3. Len(queue) <= Len(log) /\ Handed \in Nat /\ Handed' = Handed + 1
    BY <1>1, <1>2 DEF Numbered, Handed
  <1>4. Head(queue).n = Handed + 1
    <2>1. queue[1] = log[Len(log) - Len(queue) + 1]
      BY <1>1 DEF QueueIsTheRest
    <2>2. Len(log) - Len(queue) + 1 \in 1 .. Len(log)
      BY <1>1, <1>3
    <2> QED
      BY <1>1, <2>1, <2>2 DEF Numbered, Handed
  <1>5. /\ received'[c] = Append(received[c], Head(queue))
        /\ received'[c] \in Seq(Event)
        /\ Len(received'[c]) = Len(received[c]) + 1
        /\ \A i \in 1 .. Len(received[c]) : received'[c][i] = received[c][i]
        /\ received'[c][Len(received[c]) + 1] = Head(queue)
        /\ \A d \in Consumers : d # c => received'[d] = received[d]
    <2>1. received'[c] = Append(received[c], Head(queue))
      BY <1>2
    <2>2. \A d \in Consumers : d # c => received'[d] = received[d]
      BY <1>2
    <2> QED
      BY <1>1, <2>1, <2>2, Appended
  <1>6. TypeOK'
    BY <1>1, <1>2, <1>5 DEF TypeOK
  <1>7. WaitersSleep' /\ NobodySleepsBesideAnEvent' /\ FinalEventIsTheResult'
    BY <1>2 DEF WaitersSleep, NobodySleepsBesideAnEvent, FinalEventIsTheResult
  <1>8. QueueIsTheRest'
    <2> SUFFICES ASSUME NEW i \in 1 .. Len(queue')
                 PROVE  queue'[i] = log'[Len(log') - Len(queue') + i]
      BY DEF QueueIsTheRest
    <2>1. i + 1 \in 1 .. Len(queue)
      BY <1>1
    <2>2. queue[i + 1] = log[Len(log) - Len(queue) + (i + 1)]
      BY <2>1 DEF QueueIsTheRest
    <2>3. Len(log') - Len(queue') + i = Len(log) - Len(queue) + (i + 1)
      BY <1>1, <1>2
    <2> QED
      BY <1>1, <1>2, <2>2, <2>3
  <1>9. ASSUME NEW d \in Consumers, NEW i \in 1 .. Len(received'[d])
        PROVE  received'[d][i].n \in 1 .. Handed'
    <2>1. \A k \in 1 .. Len(received[d]) : received[d][k].n \in 1 .. Handed
      BY DEF Numbered
    <2>2. CASE d # c
      BY <2>1, <2>2, <1>3, <1>5
    <2>3. CASE d = c /\ i \in 1 .. Len(received[c])
      BY <2>1, <2>3, <1>3, <1>5
    <2>4. CASE d = c /\ i = Len(received[c]) + 1
      BY <2>4, <1>3, <1>4, <1>5
    <2> QED
      BY <2>2, <2>3, <2>4, <1>5
  <1>10. Numbered'
    <2>1. /\ \A i \in 1 .. Len(log) : log[i].n = i
          /\ ~done => result = Pending /\ \A i \in 1 .. Len(log) : ~log[i].final
      BY DEF Numbered
    <2>2. \A d \in Consumers : inbox[d] # Pending => inbox[d].n \in 1 .. Handed'
      BY <1>3 DEF Numbered
    <2> QED
      BY <1>1, <1>2, <1>3, <1>9, <2>1, <2>2 DEF Numbered
  <1>11. GivenInOrder'
    <2>1. ASSUME NEW d \in Consumers, NEW i \in 1 .. Len(received'[d]),
                 NEW j \in 1 .. Len(received'[d]), i < j
          PROVE  received'[d][i].n < received'[d][j].n
      <3>0. \A k, l \in 1 .. Len(received[d]) : k < l => received[d][k].n < received[d][l].n
        BY DEF GivenInOrder
      <3>1. CASE d # c
        BY <3>0, <3>1, <2>1, <1>5
      <3>2. CASE d = c /\ j \in 1 .. Len(received[c])
        BY <3>0, <3>2, <2>1, <1>5
      <3>3. CASE d = c /\ j = Len(received[c]) + 1
        <4>1. i \in 1 .. Len(received[c]) /\ received[c][i].n \in 1 .. Handed
          BY <3>3, <2>1, <1>5 DEF Numbered
        <4>2. received'[d][j].n = Handed + 1 /\ received'[d][i].n = received[c][i].n
          BY <4>1, <3>3, <1>4, <1>5
        <4> QED
          BY <4>1, <4>2, <1>3
      <3> QED
        BY <3>1, <3>2, <3>3, <1>5
    <2>2. ASSUME NEW d \in Consumers, inbox'[d] # Pending, NEW i \in 1 .. Len(received'[d])
          PROVE  received'[d][i].n < inbox'[d].n
      <3>1. d # c /\ inbox[d] # Pending
        BY <2>2, <1>2
      <3> QED
        BY <3>1, <1>2, <1>5 DEF GivenInOrder
    <2> QED
      BY <2>1, <2>2 DEF GivenInOrder
  <1>12. /\ GivenTo'[c] = GivenTo[c] \union {Handed + 1}
         /\ \A d \in Consumers : d # c => GivenTo'[d] = GivenTo[d]
    <2>1. {received'[c][i].n : i \in 1 .. Len(received'[c])}
            = {received[c][i].n : i \in 1 .. Len(received[c])} \union {Handed + 1}
      BY <1>4, <1>5
    <2>2. \A d \in Consumers :
            /\ GivenTo[d] = {received[d][i].n : i \in 1 .. Len(received[d])}
                             \union ({inbox[d].n} \ {0})
            /\ GivenTo'[d] = {received'[d][i].n : i \in 1 .. Len(received'[d])}
                              \union ({inbox[d].n} \ {0})
      BY <1>2 DEF GivenTo
    <2>3. GivenTo'[c] = GivenTo[c] \union {Handed + 1}
      BY <2>1, <2>2
    <2>4. ASSUME NEW d \in Consumers, d # c PROVE GivenTo'[d] = GivenTo[d]
      <3>1. received'[d] = received[d]
        BY <2>4, <1>5
      <3>2. {received'[d][i].n : i \in 1 .. Len(received'[d])}
              = {received[d][i].n : i \in 1 .. Len(received[d])}
        BY <3>1
      <3> QED
        BY <2>2, <3>2
    <2> QED
      BY <2>3, <2>4
  <1>13. EachEventOnce'
    BY <1>3, <1>12, GivenOneMore
  <1> QED
    BY <1>6, <1>7, <1>8, <1>10, <1>11, <1>13 DEF StreamInv

\* The other steps of a consumer leave the queue and the log alone.
LEMMA FinishSleepLeave ==
  ASSUME StreamInv, NEW c \in Consumers, Finish(c) \/ Sleep(c) \/ Leave(c)
  PROVE  StreamInv'
  <1> USE EventFacts, Unfolded
  <1>1. /\ queue' = queue /\ done' = done /\ result' = result /\ log' = log
        /\ inbox' = inbox /\ received' = received /\ ended' = ended
        /\ at[c] = "ready" /\ inbox[c] = Pending
    BY DEF Finish, Sleep, Leave, streamVars, WaitersSleep
  <1>2. Handed' = Handed /\ GivenTo' = GivenTo
    BY <1>1 DEF Handed, GivenTo
  <1>3. /\ QueueIsTheRest' /\ Numbered' /\ EachEventOnce' /\ GivenInOrder'
        /\ FinalEventIsTheResult'
    BY <1>1, <1>2
    DEF QueueIsTheRest, Numbered, EachEventOnce, GivenInOrder, FinalEventIsTheResult
  <1>4. CASE Sleep(c)
    <2>1. /\ waiting' = Append(waiting, c) /\ queue = <<>>
          /\ at' = [at EXCEPT ![c] = "waiting"]
      BY <1>4 DEF Sleep
    <2>2. /\ waiting' \in Seq(Consumers) /\ Len(waiting') = Len(waiting) + 1
          /\ \A i \in 1 .. Len(waiting) : waiting'[i] = waiting[i]
          /\ waiting'[Len(waiting) + 1] = c
      BY <2>1, Appended
    <2>3. TypeOK'
      BY <1>1, <2>1, <2>2 DEF TypeOK, States
    <2>4. \A i \in 1 .. Len(waiting) : at[waiting[i]] = "waiting" /\ waiting[i] # c
      BY <1>1 DEF WaitersSleep
    <2>5. WaitersSleep'
      <3>1. ASSUME NEW i \in 1 .. Len(waiting') PROVE at'[waiting'[i]] = "waiting"
        <4>1. CASE i = Len(waiting) + 1
          BY <4>1, <2>1, <2>2
        <4>2. CASE i \in 1 .. Len(waiting)
          <5>1. waiting[i] \in Consumers /\ waiting'[i] = waiting[i]
            BY <4>2, <2>2, ElementOfSeq
          <5> QED
            BY <4>2, <5>1, <2>1, <2>4
        <4> QED
          BY <4>1, <4>2, <2>2
      <3>2. ASSUME NEW i \in 1 .. Len(waiting'), NEW j \in 1 .. Len(waiting'),
                   waiting'[i] = waiting'[j]
            PROVE  i = j
        <4>1. \A k, m \in 1 .. Len(waiting) : waiting[k] = waiting[m] => k = m
          BY DEF WaitersSleep
        <4>2. CASE i \in 1 .. Len(waiting) /\ j \in 1 .. Len(waiting)
          BY <4>1, <4>2, <2>2, <3>2
        <4>3. CASE i = Len(waiting) + 1 /\ j \in 1 .. Len(waiting)
          BY <4>3, <2>2, <2>4, <3>2
        <4>4. CASE i \in 1 .. Len(waiting) /\ j = Len(waiting) + 1
          BY <4>4, <2>2, <2>4, <3>2
        <4> QED
          BY <4>2, <4>3, <4>4, <2>2
      <3>3. ASSUME NEW d \in Consumers, inbox'[d] # Pending PROVE at'[d] = "woken"
        BY <1>1, <2>1, <3>3 DEF WaitersSleep
      <3> QED
        BY <3>1, <3>2, <3>3 DEF WaitersSleep
    <2>6. NobodySleepsBesideAnEvent'
      BY <1>1, <2>1 DEF NobodySleepsBesideAnEvent
    <2> QED
      BY <1>3, <2>3, <2>5, <2>6 DEF StreamInv
  <1>5. CASE Finish(c) \/ Leave(c)
    <2>1. waiting' = waiting /\ at' = [at EXCEPT ![c] = "returned"]
      BY <1>5 DEF Finish, Leave, streamVars
    <2>2. TypeOK'
      BY <1>1, <2>1 DEF TypeOK, States
    <2>3. WaitersSleep' /\ NobodySleepsBesideAnEvent'
      BY <1>1, <2>1 DEF WaitersSleep, NobodySleepsBesideAnEvent
    <2> QED
      BY <1>3, <2>2, <2>3 DEF StreamInv
  <1> QED
    BY <1>4, <1>5

\* A woken consumer goes on with the event it was woken with, or returns.
LEMMA WakeUp ==
  ASSUME StreamInv, NEW c \in Consumers, Wake(c)
  PROVE  StreamInv'
  <1> USE EventFacts, Unfolded
  <1>1. /\ queue' = queue /\ waiting' = waiting /\ done' = done /\ result' = result
        /\ log' = log /\ ended' = ended
        /\ inbox' = [inbox EXCEPT ![c] = Pending] /\ at[c] = "woken"
    BY DEF Wake, streamVars
  <1>2. NobodySleepsBesideAnEvent' /\ QueueIsTheRest' /\ FinalEventIsTheResult'
    BY <1>1 DEF NobodySleepsBesideAnEvent, QueueIsTheRest, FinalEventIsTheResult
  <1>3. Handed' = Handed /\ Handed \in Nat
    BY <1>1 DEF Handed, Numbered
  <1>4. PICK l \in {"ready", "returned"} : at' = [at EXCEPT ![c] = l]
    BY DEF Wake
  <1>5. WaitersSleep'
    BY <1>1, <1>4 DEF WaitersSleep
  <1>6. CASE inbox[c] = Pending
    <2>1. received' = received /\ inbox' = inbox
      BY <1>1, <1>6 DEF Wake
    <2>2. GivenTo' = GivenTo
      BY <2>1 DEF GivenTo
    <2>3. TypeOK'
      BY <1>1, <1>4, <2>1 DEF TypeOK, States
    <2>4. Numbered' /\ EachEventOnce' /\ GivenInOrder'
      BY <1>1, <1>3, <2>1, <2>2 DEF Numbered, EachEventOnce, GivenInOrder
    <2> QED
      BY <1>2, <1>5, <2>3, <2>4 DEF StreamInv
  <1>7. CASE inbox[c] # Pending
    <2>1. received' = [received EXCEPT ![c] = Append(@, inbox[c])]
      BY <1>7 DEF Wake
    <2>2. /\ received'[c] = Append(received[c], inbox[c])
          /\ received'[c] \in Seq(Event)
          /\ Len(received'[c]) = Len(received[c]) + 1
          /\ \A i \in 1 .. Len(received[c]) : received'[c][i] = received[c][i]
          /\ received'[c][Len(received[c]) + 1] = inbox[c]
          /\ \A d \in Consumers : d # c => received'[d] = received[d]
      <3>1. received'[c] = Append(received[c], inbox[c])
        BY <2>1
      <3>2. \A d \in Consumers : d # c => received'[d] = received[d]
        BY <2>1
      <3> QED
        BY <3>1, <3>2, Appended
    <2>3. inbox[c].n \in 1 .. Handed /\ inbox'[c] = Pending
          /\ \A d \in Consumers : d # c => inbox'[d] = inbox[d]
      BY <1>1, <1>7 DEF Numbered
    <2>4. TypeOK'
      BY <1>1, <1>4, <2>1, <2>2 DEF TypeOK, States
    <2>5. Numbered'
      <3>1. ASSUME NEW d \in Consumers, NEW i \in 1 .. Len(received'[d])
            PROVE  received'[d][i].n \in 1 .. Handed'
        <4>1. \A k \in 1 .. Len(received[d]) : received[d][k].n \in 1 .. Handed
          BY DEF Numbered
        <4>2. CASE d # c
          BY <4>1, <4>2, <1>3, <2>2
        <4>3. CASE d = c
          BY <4>1, <4>3, <1>3, <2>2, <2>3
        <4> QED
          BY <4>2, <4>3
      <3>2. /\ \A i \in 1 .. Len(log) : log[i].n = i
            /\ ~done => result = Pending /\ \A i \in 1 .. Len(log) : ~log[i].final
            /\ \A d \in Consumers : inbox[d] # Pending => inbox[d].n \in 1 .. Handed
            /\ Len(queue) <= Len(log)
        BY DEF Numbered
      <3> QED
        BY <1>1, <1>3, <2>3, <3>1, <3>2 DEF Numbered
    <2>6. GivenInOrder'
      <3>1. ASSUME NEW d \in Consumers, NEW i \in 1 .. Len(received'[d]),
                   NEW j \in 1 .. Len(received'[d]), i < j
            PROVE  received'[d][i].n < received'[d][j].n
        <4>0. \A k, m \in 1 .. Len(received[d]) :
                k < m => received[d][k].n < received[d][m].n
          BY DEF GivenInOrder
        <4>1. CASE d # c
          BY <4>0, <4>1, <3>1, <2>2
        <4>2. CASE d = c /\ j \in 1 .. Len(received[c])
          BY <4>0, <4>2, <3>1, <2>2
        <4>3. CASE d = c /\ j = Len(received[c]) + 1
          <5>1. i \in 1 .. Len(received[c]) /\ received[c][i].n < inbox[c].n
            BY <4>3, <3>1, <1>7, <2>2 DEF GivenInOrder
          <5>2. received'[d][j] = inbox[c] /\ received'[d][i] = received[c][i]
            BY <5>1, <4>3, <2>2
          <5> QED
            BY <5>1, <5>2
        <4> QED
          BY <4>1, <4>2, <4>3, <2>2
      <3>2. ASSUME NEW d \in Consumers, inbox'[d] # Pending,
                   NEW i \in 1 .. Len(received'[d])
            PROVE  received'[d][i].n < inbox'[d].n
        BY <3>2, <2>2, <2>3 DEF GivenInOrder
      <3> QED
        BY <3>1, <3>2 DEF GivenInOrder
    <2>7. \A d \in Consumers : GivenTo'[d] = GivenTo[d]
      <3>0. \A d \in Consumers :
              /\ GivenTo[d] = {received[d][i].n : i \in 1 .. Len(received[d])}
                               \union ({inbox[d].n} \ {0})
              /\ GivenTo'[d] = {received'[d][i].n : i \in 1 .. Len(received'[d])}
                                \union ({inbox'[d].n} \ {0})
        BY DEF GivenTo
      <3>1. {received'[c][i].n : i \in 1 .. Len(received'[c])}
              = {received[c][i].n : i \in 1 .. Len(received[c])} \union {inbox[c].n}
        BY <2>2
      <3>2. GivenTo'[c] = GivenTo[c]
        <4>1. inbox[c].n # 0 /\ inbox'[c].n = 0
          BY <1>7, <2>3 DEF Pending
        <4>2. GivenTo[c] = {received[c][i].n : i \in 1 .. Len(received[c])}
                             \union {inbox[c].n}
          BY <3>0, <4>1
        <4>3. GivenTo'[c] = {received'[c][i].n : i \in 1 .. Len(received'[c])}
          BY <3>0, <4>1
        <4> QED
          BY <3>1, <4>2, <4>3
      <3>3. ASSUME NEW d \in Consumers, d # c PROVE GivenTo'[d] = GivenTo[d]
        <4>1. received'[d] = received[d] /\ inbox'[d] = inbox[d]
          BY <3>3, <2>2, <2>3
        <4>2. {received'[d][i].n : i \in 1 .. Len(received'[d])}
                = {received[d][i].n : i \in 1 .. Len(received[d])}
          BY <4>1
        <4> QED
          BY <3>0, <4>1, <4>2
      <3> QED
        BY <3>2, <3>3
    <2>8. EachEventOnce'
      <3>1. /\ \A n \in 1 .. Handed : \E d \in Consumers : n \in GivenTo[d]
            /\ \A d \in Consumers : GivenTo[d] \subseteq 1 .. Handed
            /\ \A d, e \in Consumers : d # e => GivenTo[d] \intersect GivenTo[e] = {}
        BY DEF EachEventOnce
      <3>2. \A n \in 1 .. Handed' : \E d \in Consumers : n \in GivenTo'[d]
        BY <1>3, <2>7, <3>1
      <3>3. \A d \in Consumers : GivenTo'[d] \subseteq 1 .. Handed'
        BY <1>3, <2>7, <3>1
      <3>4. \A d, e \in Consumers : d # e => GivenTo'[d] \intersect GivenTo'[e] = {}
        BY <2>7, <3>1
      <3> QED
        BY <3>2, <3>3, <3>4 DEF EachEventOnce
    <2> QED
      BY <1>2, <1>5, <2>4, <2>5, <2>6, <2>8 DEF StreamInv
  <1> QED
    BY <1>6, <1>7

-----------------------------------------------------------------------------
\* Every step of the stream or of one of its iterators keeps the invariant.
LEMMA NextIInv == StreamInv /\ [Next]_vars => StreamInv'
  <1> SUFFICES ASSUME StreamInv, [Next]_vars PROVE StreamInv'
    OBVIOUS
  <1>1. CASE Produce
    <2>1. ASSUME NEW final \in BOOLEAN, Push([n |-> Len(log) + 1, final |-> final])
          PROVE  StreamInv'
      <3>1. [n |-> Len(log) + 1, final |-> final] \in Event
        BY Unfolded DEF Event
      <3> QED
        BY <2>1, <3>1, PushToWaiter, PushQueued
    <2> QED
      BY <1>1, <2>1, EndStream DEF Produce
  <1>2. CASE \E c \in Consumers : ConsumerStep(c) \/ Leave(c)
    BY <1>2, TakeEvent, FinishSleepLeave, WakeUp DEF ConsumerStep
  <1>3. CASE UNCHANGED vars
    <2>1. GivenTo' = GivenTo /\ Handed' = Handed
      BY <1>3 DEF vars, streamVars, consumerVars, GivenTo, Handed
    <2> QED
      BY <1>3, <2>1
      DEF vars, streamVars, consumerVars, StreamInv, TypeOK, WaitersSleep,
          NobodySleepsBesideAnEvent, QueueIsTheRest, Numbered, EachEventOnce,
          GivenInOrder, FinalEventIsTheResult
  <1> QED
    BY <1>1, <1>2, <1>3 DEF Next

\* The invariant holds in every reachable state of the stream.
THEOREM Invariance == Spec => []StreamInv
  BY InitIInv, NextIInv, PTL DEF Spec

\* event-stream.ts keeps every variable in its type.
THEOREM Typing == Spec => []TypeOK
  <1>1. StreamInv => TypeOK
    BY DEF StreamInv
  <1> QED
    BY Invariance, <1>1, PTL

\* push() and the iterator never leave a consumer asleep beside an event.
THEOREM NoLostWakeup == Spec => []NobodySleepsBesideAnEvent
  <1>1. StreamInv => NobodySleepsBesideAnEvent
    BY DEF StreamInv
  <1> QED
    BY Invariance, <1>1, PTL

\* Every event that was accepted is still queued or was given to exactly one
\* iterator: push() loses none and yields none twice.
THEOREM ExactlyOnce == Spec => [](EachEventOnce /\ QueueIsTheRest)
  <1>1. StreamInv => EachEventOnce /\ QueueIsTheRest
    BY DEF StreamInv
  <1> QED
    BY Invariance, <1>1, PTL

\* Each iterator is given its events in the order they were pushed.
THEOREM Ordering == Spec => []GivenInOrder
  <1>1. StreamInv => GivenInOrder
    BY DEF StreamInv
  <1> QED
    BY Invariance, <1>1, PTL

\* A final event is the last one accepted and it is what result() yields.
THEOREM FinalResult == Spec => []FinalEventIsTheResult
  <1>1. StreamInv => FinalEventIsTheResult
    BY DEF StreamInv
  <1> QED
    BY Invariance, <1>1, PTL

-----------------------------------------------------------------------------
(* ResponseStream.  Both of its streams have one iterator each, so what    *)
(* one keeps about them is simple: the log is what its iterator has been   *)
(* given, the event in flight, and the queue.  It is stated once, of a     *)
(* record that stands for either stream.                                   *)

Events  == [n : Nat, final : BOOLEAN]
Nothing == [n |-> 0, final |-> FALSE]
Places  == {"ready", "waiting", "woken", "returned"}

\* One stream and its iterator.
Stream(q, w, d, r, l, a, b, v) ==
  [queue |-> q, waiting |-> w, done |-> d, result |-> r, log |-> l,
   at |-> a, inbox |-> b, received |-> v]

Queue(s) == s.queue
Waiters(s) == s.waiting
Done(s) == s.done
Result(s) == s.result
Log(s) == s.log
At(s) == s.at
Inbox(s) == s.inbox
Got(s) == s.received

In  == Stream(inQueue, inWaiting, inDone, inResult, inLog,
              inAt["forward"], inInbox["forward"], inReceived["forward"])
Out == Stream(outQueue, outWaiting, outDone, outResult, outLog,
              outAt["loop"], outInbox["loop"], outReceived["loop"])

\* The functions of the iterators, each with its one iterator.
SingleIn ==
  /\ inAt \in [{"forward"} -> Places] /\ inInbox \in [{"forward"} -> Events]
  /\ inReceived \in [{"forward"} -> Seq(Events)]

SingleOut ==
  /\ outAt \in [{"loop"} -> Places] /\ outInbox \in [{"loop"} -> Events]
  /\ outReceived \in [{"loop"} -> Seq(Events)]

-----------------------------------------------------------------------------
(* The invariant of one stream.                                            *)

Typed(s) ==
  /\ Queue(s) \in Seq(Events) /\ Done(s) \in BOOLEAN /\ Result(s) \in Events
  /\ Log(s) \in Seq(Events) /\ At(s) \in Places /\ Inbox(s) \in Events
  /\ Got(s) \in Seq(Events)

Flying(s) == IF Inbox(s) = Nothing THEN 0 ELSE 1

\* A log that ends with a final event.
Ends(l) == l # <<>> /\ l[Len(l)].final

\* The log is what was received, what is in flight and what is queued.
Reads(s) ==
  /\ Len(Log(s)) = Len(Got(s)) + Flying(s) + Len(Queue(s))
  /\ \A i \in 1 .. Len(Got(s)) : Got(s)[i] = Log(s)[i]
  /\ Flying(s) = 1 => Inbox(s) = Log(s)[Len(Got(s)) + 1]
  /\ \A i \in 1 .. Len(Queue(s)) : Queue(s)[i] = Log(s)[Len(Got(s)) + Flying(s) + i]

\* Iterator c sleeps only beside an empty queue, and what wakes it without an
\* event is the end.
Sleeps(s, c) ==
  /\ Waiters(s) = (IF At(s) = "waiting" THEN <<c>> ELSE <<>>)
  /\ At(s) = "waiting" => Queue(s) = <<>> /\ ~Done(s)
  /\ At(s) # "woken" => Inbox(s) = Nothing
  /\ At(s) = "woken" /\ Inbox(s) = Nothing => Done(s) /\ Queue(s) = <<>>

\* Only the last event can be final, and only a final one is the result.
Finals(s) ==
  /\ \A i \in 1 .. Len(Log(s)) : Log(s)[i] # Nothing /\ (Log(s)[i].final => i = Len(Log(s)))
  /\ Result(s) = IF Ends(Log(s)) THEN Log(s)[Len(Log(s))] ELSE Nothing
  /\ Ends(Log(s)) => Done(s)

Good(s, c) == Typed(s) /\ Reads(s) /\ Sleeps(s, c) /\ Finals(s)

\* An iterator that came to the end has had everything.
Empty(s) == At(s) = "returned" => Done(s) /\ Queue(s) = <<>>

-----------------------------------------------------------------------------
(* The steps of one stream.                                                *)

Pushes(s, t, e) ==
  /\ ~Done(s) /\ Done(t) = e.final
  /\ Result(t) = IF e.final /\ Result(s) = Nothing THEN e ELSE Result(s)
  /\ Log(t) = Append(Log(s), e) /\ Got(t) = Got(s)
  /\ IF Waiters(s) # <<>>
     THEN Waiters(t) = <<>> /\ At(t) = "woken" /\ Inbox(t) = e /\ Queue(t) = Queue(s)
     ELSE Waiters(t) = Waiters(s) /\ At(t) = At(s) /\ Inbox(t) = Inbox(s)
          /\ Queue(t) = Append(Queue(s), e)

Stops(s, t) ==
  /\ Done(t) /\ Done(t) \in BOOLEAN /\ Result(t) = Result(s) /\ Log(t) = Log(s)
  /\ Waiters(t) = <<>> /\ At(t) = (IF Waiters(s) = <<>> THEN At(s) ELSE "woken")
  /\ Inbox(t) = Inbox(s) /\ Queue(t) = Queue(s) /\ Got(t) = Got(s)

Takes(s, t) ==
  /\ At(s) = "ready" /\ Queue(s) # <<>>
  /\ Got(t) = Append(Got(s), Head(Queue(s))) /\ Queue(t) = Tail(Queue(s))
  /\ Waiters(t) = Waiters(s) /\ At(t) = At(s) /\ Inbox(t) = Inbox(s)

Rests(s, t, c) ==
  /\ At(s) = "ready" /\ Queue(s) = <<>>
  /\ \/ Done(s) /\ At(t) = "returned" /\ Waiters(t) = Waiters(s)
     \/ ~Done(s) /\ At(t) = "waiting" /\ Waiters(t) = Append(Waiters(s), c)
  /\ Queue(t) = Queue(s) /\ Inbox(t) = Inbox(s) /\ Got(t) = Got(s)

Wakes(s, t) ==
  /\ At(s) = "woken" /\ Inbox(t) = Nothing /\ Queue(t) = Queue(s) /\ Waiters(t) = Waiters(s)
  /\ IF Inbox(s) = Nothing
     THEN At(t) = "returned" /\ Got(t) = Got(s)
     ELSE At(t) = "ready" /\ Got(t) = Append(Got(s), Inbox(s))

Steps(s, t, c) ==
  /\ Done(t) = Done(s) /\ Result(t) = Result(s) /\ Log(t) = Log(s)
  /\ Takes(s, t) \/ Rests(s, t, c) \/ Wakes(s, t)

Leaves(s, t) ==
  /\ At(s) = "ready" /\ At(t) = "returned"
  /\ Done(t) = Done(s) /\ Result(t) = Result(s) /\ Log(t) = Log(s)
  /\ Queue(t) = Queue(s) /\ Waiters(t) = Waiters(s) /\ Inbox(t) = Inbox(s)
  /\ Got(t) = Got(s)

LEMMA PlainEvents ==
  /\ Nothing \in Events /\ ~Nothing.final
  /\ \A e \in Events : e.n \in Nat /\ e.final \in BOOLEAN
  BY DEF Events, Nothing

LEMMA Lengthened ==
  ASSUME NEW q \in Seq(Events), NEW e \in Events
  PROVE  /\ Append(q, e) \in Seq(Events) /\ Len(Append(q, e)) = Len(q) + 1 /\ Len(q) \in Nat
         /\ \A i \in 1 .. Len(q) : Append(q, e)[i] = q[i]
         /\ Append(q, e)[Len(q) + 1] = e /\ Append(q, e) # <<>>
  BY AppendProperties, LenProperties

LEMMA Shortened ==
  ASSUME NEW q \in Seq(Events), q # <<>>
  PROVE  /\ Len(q) \in Nat \ {0} /\ Head(q) = q[1] /\ Head(q) \in Events
         /\ Tail(q) \in Seq(Events) /\ Len(Tail(q)) = Len(q) - 1
         /\ \A i \in 1 .. Len(Tail(q)) : Tail(q)[i] = q[i + 1]
  BY HeadTailProperties, EmptySeq

LEMMA Lengths ==
  ASSUME NEW q \in Seq(Events)
  PROVE  Len(q) \in Nat /\ (q = <<>> <=> Len(q) = 0) /\ \A i \in 1 .. Len(q) : q[i] \in Events
  BY LenProperties, EmptySeq

\* push()
LEMMA PushKeeps ==
  ASSUME NEW c, NEW s, NEW t, NEW e \in Events, e # Nothing, Good(s, c), Pushes(s, t, e)
  PROVE  Good(t, c) /\ (Empty(s) => Empty(t)) /\ (Ends(Log(t)) <=> e.final)
<1>1. Typed(s) /\ Reads(s) /\ Sleeps(s, c) /\ Finals(s)
  BY DEF Good
<1>2. /\ Log(t) \in Seq(Events) /\ Len(Log(t)) = Len(Log(s)) + 1 /\ Len(Log(s)) \in Nat
      /\ \A i \in 1 .. Len(Log(s)) : Log(t)[i] = Log(s)[i]
      /\ Log(t)[Len(Log(s)) + 1] = e /\ Log(t) # <<>>
  BY <1>1, Lengthened DEF Typed, Pushes
<1>3. ~Ends(Log(s)) /\ Result(s) = Nothing /\ \A i \in 1 .. Len(Log(s)) : ~Log(s)[i].final
  <2>1. ~Ends(Log(s)) /\ Result(s) = Nothing
    BY <1>1 DEF Finals, Pushes
  <2>2. \A i \in 1 .. Len(Log(s)) : ~Log(s)[i].final
    <3> SUFFICES ASSUME NEW i \in 1 .. Len(Log(s)), Log(s)[i].final PROVE FALSE
      OBVIOUS
    <3>1. i = Len(Log(s))
      BY <1>1 DEF Finals
    <3>2. Log(s) # <<>>
      BY <1>1, <1>2, Lengths DEF Typed
    <3> QED
      BY <3>1, <3>2, <2>1 DEF Ends
  <2> QED
    BY <2>1, <2>2
<1>4. Ends(Log(t)) <=> e.final
  BY <1>2 DEF Ends
<1>5. Finals(t)
  <2>1. \A i \in 1 .. Len(Log(t)) : Log(t)[i] # Nothing /\ (Log(t)[i].final => i = Len(Log(t)))
    <3> SUFFICES ASSUME NEW i \in 1 .. Len(Log(t))
                 PROVE  Log(t)[i] # Nothing /\ (Log(t)[i].final => i = Len(Log(t)))
      OBVIOUS
    <3>1. CASE i = Len(Log(s)) + 1
      BY <3>1, <1>2
    <3>2. CASE i \in 1 .. Len(Log(s))
      BY <3>2, <1>1, <1>2, <1>3 DEF Finals
    <3> QED
      BY <3>1, <3>2, <1>2
  <2>2. Result(t) = (IF e.final THEN e ELSE Nothing) /\ Done(t) = e.final
    BY <1>3 DEF Pushes
  <2> QED
    BY <2>1, <2>2, <1>2, <1>4 DEF Finals
<1>6. CASE Waiters(s) # <<>>
  <2>1. /\ Waiters(t) = <<>> /\ At(t) = "woken" /\ Inbox(t) = e /\ Queue(t) = Queue(s)
        /\ Got(t) = Got(s)
    BY <1>6 DEF Pushes
  <2>2. At(s) = "waiting" /\ Queue(s) = <<>> /\ Inbox(s) = Nothing
    BY <1>1, <1>6 DEF Sleeps
  <2>3. Typed(t)
    BY <1>1, <1>2, <1>3, <2>1, PlainEvents DEF Typed, Pushes, Places
  <2>4. Sleeps(t, c)
    BY <2>1 DEF Sleeps
  <2>5. Reads(t)
    <3>1. Flying(t) = 1 /\ Flying(s) = 0 /\ Len(Queue(s)) = 0 /\ Len(Got(s)) \in Nat
      BY <2>1, <2>2, <1>1, Lengths DEF Flying, Typed
    <3>2. /\ Len(Log(s)) = Len(Got(s)) /\ Got(t) = Got(s)
          /\ \A i \in 1 .. Len(Got(s)) : Got(s)[i] = Log(s)[i]
      BY <3>1, <2>1, <1>1 DEF Reads
    <3>3. Len(Queue(t)) = 0
      BY <3>1, <2>1
    <3> QED
      BY <3>1, <3>2, <3>3, <2>1, <1>2 DEF Reads
  <2> QED
    BY <1>4, <1>5, <2>1, <2>3, <2>4, <2>5 DEF Good, Empty
<1>7. CASE Waiters(s) = <<>>
  <2>1. /\ Waiters(t) = Waiters(s) /\ At(t) = At(s) /\ Inbox(t) = Inbox(s)
        /\ Queue(t) = Append(Queue(s), e) /\ Got(t) = Got(s)
    BY <1>7 DEF Pushes
  <2>2. /\ Queue(t) \in Seq(Events) /\ Len(Queue(t)) = Len(Queue(s)) + 1 /\ Len(Queue(s)) \in Nat
        /\ \A i \in 1 .. Len(Queue(s)) : Queue(t)[i] = Queue(s)[i]
        /\ Queue(t)[Len(Queue(s)) + 1] = e
    BY <1>1, <2>1, Lengthened DEF Typed
  <2>3. At(s) # "waiting"
    BY <1>1, <1>7 DEF Sleeps
  <2>4. Typed(t)
    BY <1>1, <1>2, <1>3, <2>1, <2>2, PlainEvents DEF Typed, Pushes
  <2>5. Sleeps(t, c)
    BY <1>1, <2>1, <2>3 DEF Sleeps, Pushes
  <2>6. Reads(t)
    <3>1. /\ Flying(t) = Flying(s) /\ Flying(s) \in {0, 1} /\ Len(Got(s)) \in Nat
          /\ Got(t) = Got(s) /\ Inbox(t) = Inbox(s)
      BY <2>1, <1>1, Lengths DEF Flying, Typed
    <3>0. /\ Len(Log(s)) = Len(Got(s)) + Flying(s) + Len(Queue(s))
          /\ \A i \in 1 .. Len(Got(s)) : Got(s)[i] = Log(s)[i]
          /\ Flying(s) = 1 => Inbox(s) = Log(s)[Len(Got(s)) + 1]
          /\ \A i \in 1 .. Len(Queue(s)) : Queue(s)[i] = Log(s)[Len(Got(s)) + Flying(s) + i]
      BY <1>1 DEF Reads
    <3>2. Len(Log(t)) = Len(Got(t)) + Flying(t) + Len(Queue(t))
      BY ONLY <3>0, <3>1, <2>2, <1>2
    <3>3. \A i \in 1 .. Len(Queue(t)) : Queue(t)[i] = Log(t)[Len(Got(t)) + Flying(t) + i]
      <4> SUFFICES ASSUME NEW i \in 1 .. Len(Queue(t))
                   PROVE  Queue(t)[i] = Log(t)[Len(Got(t)) + Flying(t) + i]
        OBVIOUS
      <4>1. CASE i = Len(Queue(s)) + 1
        BY ONLY <4>1, <3>0, <3>1, <2>2, <1>2
      <4>2. CASE i \in 1 .. Len(Queue(s))
        BY ONLY <4>2, <3>0, <3>1, <2>2, <1>2
      <4> QED
        BY <4>1, <4>2, <2>2
    <3> QED
      <4>1. \A i \in 1 .. Len(Got(t)) : Got(t)[i] = Log(t)[i]
        BY ONLY <3>0, <3>1, <2>2, <1>2
      <4>2. Flying(t) = 1 => Inbox(t) = Log(t)[Len(Got(t)) + 1]
        BY ONLY <3>0, <3>1, <2>2, <1>2
      <4> QED
        BY ONLY <3>2, <3>3, <4>1, <4>2 DEF Reads
  <2>7. Empty(s) => Empty(t)
    BY <2>1 DEF Empty, Pushes
  <2> QED
    BY <1>4, <1>5, <2>4, <2>5, <2>6, <2>7 DEF Good
<1> QED
  BY <1>6, <1>7

\* end(), which gives no result that push() has not given.
LEMMA StopKeeps ==
  ASSUME NEW c, NEW s, NEW t, Good(s, c), Stops(s, t)
  PROVE  Good(t, c) /\ (Empty(s) => Empty(t))
<1>1. Typed(s) /\ Reads(s) /\ Sleeps(s, c) /\ Finals(s)
  BY DEF Good
<1>2. Typed(t)
  BY <1>1 DEF Typed, Stops, Places
<1>3. Reads(t)
  <2>1. /\ Flying(t) = Flying(s) /\ Log(t) = Log(s) /\ Queue(t) = Queue(s)
        /\ Inbox(t) = Inbox(s) /\ Got(t) = Got(s)
    BY DEF Stops, Flying
  <2> QED
    BY ONLY <1>1, <2>1 DEF Reads
<1>4. Finals(t)
  BY <1>1 DEF Finals, Stops
<1>5. Sleeps(t, c)
  BY <1>1 DEF Sleeps, Stops
<1>6. Empty(s) => Empty(t)
  BY DEF Empty, Stops
<1> QED
  BY <1>2, <1>3, <1>4, <1>5, <1>6 DEF Good

\* Finals looks at no more than the log, the result and done.
LEMMA FinalsKept ==
  ASSUME NEW s, NEW t, Finals(s), Done(t) = Done(s), Result(t) = Result(s), Log(t) = Log(s)
  PROVE  Finals(t)
  BY DEF Finals

\* What an iterator is given next: the event in flight, or the queue's first.
LEMMA GotOneMore ==
  ASSUME NEW s, NEW t, Typed(s), NEW e \in Events, Got(t) = Append(Got(s), e),
         \A i \in 1 .. Len(Got(s)) : Got(s)[i] = Log(s)[i],
         e = Log(s)[Len(Got(s)) + 1], Log(t) = Log(s)
  PROVE  /\ Got(t) \in Seq(Events) /\ Len(Got(t)) = Len(Got(s)) + 1
         /\ Len(Got(s)) \in Nat
         /\ \A i \in 1 .. Len(Got(t)) : Got(t)[i] = Log(t)[i]
<1>1. /\ Got(t) \in Seq(Events) /\ Len(Got(t)) = Len(Got(s)) + 1
      /\ Len(Got(s)) \in Nat
      /\ \A i \in 1 .. Len(Got(s)) : Got(t)[i] = Got(s)[i]
      /\ Got(t)[Len(Got(s)) + 1] = e
  BY Lengthened DEF Typed
<1>2. ASSUME NEW i \in 1 .. Len(Got(t)) PROVE Got(t)[i] = Log(t)[i]
  <2>1. CASE i = Len(Got(s)) + 1
    BY <2>1, <1>1
  <2>2. CASE i \in 1 .. Len(Got(s))
    BY <2>2, <1>1
  <2> QED
    BY <2>1, <2>2, <1>1
<1> QED
  BY <1>1, <1>2

\* One step of the iterator.
LEMMA StepKeeps ==
  ASSUME NEW c, NEW s, NEW t, Good(s, c), Steps(s, t, c)
  PROVE  Good(t, c) /\ (Empty(s) => Empty(t))
<1>1. Typed(s) /\ Reads(s) /\ Sleeps(s, c) /\ Finals(s)
  BY DEF Good
<1>2. Done(t) = Done(s) /\ Result(t) = Result(s) /\ Log(t) = Log(s)
  BY DEF Steps
<1>3. Finals(t)
  BY <1>1, <1>2, FinalsKept
<1>4. CASE Takes(s, t)
  <2>1. /\ At(s) = "ready" /\ At(t) = "ready" /\ Inbox(s) = Nothing /\ Inbox(t) = Nothing
        /\ Waiters(s) = <<>> /\ Waiters(t) = <<>> /\ Flying(s) = 0 /\ Flying(t) = 0
    BY <1>1, <1>4 DEF Takes, Sleeps, Flying
  <2>2. /\ Len(Queue(s)) \in Nat \ {0} /\ Head(Queue(s)) = Queue(s)[1] /\ Head(Queue(s)) \in Events
        /\ Queue(t) \in Seq(Events) /\ Len(Queue(t)) = Len(Queue(s)) - 1
        /\ \A i \in 1 .. Len(Queue(t)) : Queue(t)[i] = Queue(s)[i + 1]
    BY <1>1, <1>4, Shortened DEF Takes, Typed
  <2>3. Len(Got(s)) \in Nat
    BY <1>1, Lengths DEF Typed
  <2>4. /\ Len(Log(s)) = Len(Got(s)) + Len(Queue(s))
        /\ \A i \in 1 .. Len(Got(s)) : Got(s)[i] = Log(s)[i]
        /\ \A i \in 1 .. Len(Queue(s)) : Queue(s)[i] = Log(s)[Len(Got(s)) + i]
    BY <1>1, <2>1, <2>3 DEF Reads
  <2>5. Head(Queue(s)) = Log(s)[Len(Got(s)) + 1]
    <3>1. 1 \in 1 .. Len(Queue(s))
      BY <2>2
    <3>2. Queue(s)[1] = Log(s)[Len(Got(s)) + 1]
      BY ONLY <3>1, <2>4
    <3> QED
      BY ONLY <3>2, <2>2
  <2>6. /\ Got(t) \in Seq(Events) /\ Len(Got(t)) = Len(Got(s)) + 1
        /\ \A i \in 1 .. Len(Got(t)) : Got(t)[i] = Log(t)[i]
    <3>1. Got(t) = Append(Got(s), Head(Queue(s)))
      BY <1>4 DEF Takes
    <3>2. /\ Typed(s) /\ Log(t) = Log(s) /\ Head(Queue(s)) \in Events
          /\ \A i \in 1 .. Len(Got(s)) : Got(s)[i] = Log(s)[i]
      BY <1>1, <1>2, <2>2, <2>4
    <3> QED
      BY ONLY <3>1, <3>2, <2>5, GotOneMore
  <2>7. \A i \in 1 .. Len(Queue(t)) : Queue(t)[i] = Log(t)[Len(Got(t)) + i]
    BY <1>2, <2>2, <2>3, <2>4, <2>6
  <2>8. Reads(t)
    <3>1. Len(Log(t)) = Len(Got(t)) + Flying(t) + Len(Queue(t))
      BY ONLY <1>2, <2>1, <2>2, <2>3, <2>4, <2>6
    <3>2. Len(Got(t)) + Flying(t) = Len(Got(t)) /\ Flying(t) # 1
      BY ONLY <2>1, <2>3, <2>6
    <3> QED
      BY ONLY <3>1, <3>2, <2>6, <2>7 DEF Reads
  <2>9. Typed(t)
    BY <1>1, <1>2, <2>1, <2>2, <2>6, PlainEvents DEF Typed, Places
  <2>10. Sleeps(t, c)
    BY <2>1 DEF Sleeps
  <2> QED
    BY <1>3, <2>1, <2>8, <2>9, <2>10 DEF Good, Empty
<1>5. CASE Rests(s, t, c)
  <2>1. /\ Queue(t) = Queue(s) /\ Inbox(t) = Inbox(s) /\ Got(t) = Got(s)
        /\ At(s) = "ready" /\ Queue(s) = <<>> /\ Inbox(s) = Nothing /\ Waiters(s) = <<>>
    BY <1>1, <1>5 DEF Rests, Sleeps
  <2>2. \/ Done(s) /\ At(t) = "returned" /\ Waiters(t) = <<>>
        \/ ~Done(s) /\ At(t) = "waiting" /\ Waiters(t) = <<c>>
    <3>1. Append(<<>>, c) = <<c>>
      OBVIOUS
    <3> QED
      BY <1>5, <2>1, <3>1 DEF Rests
  <2>3. Typed(t)
    BY <1>1, <1>2, <2>1, <2>2 DEF Typed, Places
  <2>4. Reads(t)
    BY <1>1, <1>2, <2>1 DEF Reads, Flying
  <2>5. Sleeps(t, c)
    BY <1>2, <2>1, <2>2 DEF Sleeps
  <2>6. Empty(t)
    BY <1>2, <2>1, <2>2 DEF Empty
  <2> QED
    BY <1>3, <2>3, <2>4, <2>5, <2>6 DEF Good
<1>6. CASE Wakes(s, t)
  <2>1. /\ At(s) = "woken" /\ Inbox(t) = Nothing /\ Queue(t) = Queue(s) /\ Waiters(t) = <<>>
        /\ Flying(t) = 0
    BY <1>1, <1>6 DEF Wakes, Sleeps, Flying
  <2>2. CASE Inbox(s) = Nothing
    <3>1. At(t) = "returned" /\ Got(t) = Got(s) /\ Done(s) /\ Queue(s) = <<>>
      BY <1>1, <1>6, <2>1, <2>2 DEF Wakes, Sleeps
    <3>2. Typed(t)
      BY <1>1, <1>2, <2>1, <3>1, PlainEvents DEF Typed, Places
    <3>3. Reads(t)
      BY <1>1, <1>2, <2>1, <2>2, <3>1 DEF Reads, Flying
    <3> QED
      BY <1>2, <1>3, <2>1, <3>1, <3>2, <3>3 DEF Good, Empty, Sleeps
  <2>3. CASE Inbox(s) # Nothing
    <3>1. At(t) = "ready" /\ Got(t) = Append(Got(s), Inbox(s)) /\ Flying(s) = 1
      BY <1>6, <2>3 DEF Wakes, Flying
    <3>2. Inbox(s) \in Events /\ Len(Got(s)) \in Nat /\ Len(Queue(s)) \in Nat
      BY <1>1, Lengths DEF Typed
    <3>3. /\ Len(Log(s)) = Len(Got(s)) + 1 + Len(Queue(s))
          /\ \A i \in 1 .. Len(Got(s)) : Got(s)[i] = Log(s)[i]
          /\ Inbox(s) = Log(s)[Len(Got(s)) + 1]
          /\ \A i \in 1 .. Len(Queue(s)) : Queue(s)[i] = Log(s)[Len(Got(s)) + 1 + i]
      BY <1>1, <3>1 DEF Reads
    <3>4. /\ Got(t) \in Seq(Events) /\ Len(Got(t)) = Len(Got(s)) + 1
          /\ \A i \in 1 .. Len(Got(t)) : Got(t)[i] = Log(t)[i]
      BY ONLY <1>1, <1>2, <3>1, <3>2, <3>3, GotOneMore
    <3>5. Typed(t)
      BY <1>1, <1>2, <2>1, <3>1, <3>4, PlainEvents DEF Typed, Places
    <3>6. Reads(t)
      BY <1>2, <2>1, <3>2, <3>3, <3>4 DEF Reads
    <3> QED
      BY <1>3, <2>1, <3>1, <3>5, <3>6 DEF Good, Empty, Sleeps
  <2> QED
    BY <2>2, <2>3
<1> QED
  BY <1>4, <1>5, <1>6 DEF Steps

\* The iterator leaves its loop.
LEMMA LeaveKeeps ==
  ASSUME NEW c, NEW s, NEW t, Good(s, c), Leaves(s, t)
  PROVE  Good(t, c)
<1>1. Typed(s) /\ Reads(s) /\ Sleeps(s, c) /\ Finals(s)
  BY DEF Good
<1>2. Typed(t)
  BY <1>1 DEF Typed, Leaves, Places
<1>3. Reads(t)
  BY <1>1 DEF Reads, Leaves, Flying
<1>4. Finals(t) /\ Sleeps(t, c)
  BY <1>1, FinalsKept DEF Sleeps, Leaves
<1> QED
  BY <1>2, <1>3, <1>4 DEF Good

-----------------------------------------------------------------------------
(* The invariant of a request.                                             *)

\* What the provider has done so far, and where.
Parties ==
  /\ proxy \in BOOLEAN
  /\ proxy => /\ inLog = <<>> /\ forwarded = 0 /\ inAt["forward"] = "ready" /\ ~inDone
              /\ provider # "setup"
  /\ provider = "setup" => inLog = <<>> /\ outLog = <<>>
  /\ provider \in {"setup", "streaming"} => ~inDone /\ (proxy => ~outDone)
  /\ provider = "final" => Ends(SourceLog)
  /\ provider = "over" /\ ~proxy => Ends(SourceLog)

\* The outer stream has what was forwarded, unless the setup failed.
Copied ==
  /\ forwarded \in Nat /\ forwarded <= Len(inReceived["forward"])
  /\ inLog # <<>> =>
       /\ Len(outLog) = forwarded
       /\ \A i \in 1 .. forwarded : outLog[i] = inReceived["forward"][i]
  /\ ~proxy /\ inLog = <<>> /\ outLog # <<>> => Ends(outLog) /\ provider \in {"final", "over"}
  /\ ~proxy /\ outDone => Ends(outLog)

\* Who iterates no longer has seen everything.
Answer ==
  /\ Empty(In) /\ (loop # "threw" => Empty(Out))
  /\ loop = "result" => outDone /\ Seen = outLog
  /\ loop = "returned" => Ends(outLog) /\ Seen = outLog /\ message = outLog[Len(outLog)]

RequestInv ==
  /\ SingleIn /\ SingleOut /\ Good(In, "forward") /\ Good(Out, "loop")
  /\ Parties /\ Copied /\ Answer

-----------------------------------------------------------------------------
(* The steps of the two streams are those of the records.                  *)

LEMMA InFields ==
  /\ Queue(In) = inQueue /\ Waiters(In) = inWaiting /\ Done(In) = inDone
  /\ Result(In) = inResult /\ Log(In) = inLog /\ At(In) = inAt["forward"]
  /\ Inbox(In) = inInbox["forward"] /\ Got(In) = inReceived["forward"]
  /\ Queue(In') = inQueue' /\ Waiters(In') = inWaiting' /\ Done(In') = inDone'
  /\ Result(In') = inResult' /\ Log(In') = inLog' /\ At(In') = inAt'["forward"]
  /\ Inbox(In') = inInbox'["forward"] /\ Got(In') = inReceived'["forward"]
  BY DEF In, Stream, Queue, Waiters, Done, Result, Log, At, Inbox, Got

LEMMA OutFields ==
  /\ Queue(Out) = outQueue /\ Waiters(Out) = outWaiting /\ Done(Out) = outDone
  /\ Result(Out) = outResult /\ Log(Out) = outLog /\ At(Out) = outAt["loop"]
  /\ Inbox(Out) = outInbox["loop"] /\ Got(Out) = outReceived["loop"]
  /\ Queue(Out') = outQueue' /\ Waiters(Out') = outWaiting' /\ Done(Out') = outDone'
  /\ Result(Out') = outResult' /\ Log(Out') = outLog' /\ At(Out') = outAt'["loop"]
  /\ Inbox(Out') = outInbox'["loop"] /\ Got(Out') = outReceived'["loop"]
  BY DEF Out, Stream, Queue, Waiters, Done, Result, Log, At, Inbox, Got

LEMMA OneWaiter ==
  ASSUME NEW c
  PROVE  <<c>> # <<>> /\ Head(<<c>>) = c /\ Tail(<<c>>) = <<>> /\ Len(<<c>>) = 1 /\ <<c>>[1] = c
         /\ Len(<<>>) = 0
  OBVIOUS

LEMMA InPushes ==
  ASSUME SingleIn, Good(In, "forward"), NEW e \in Events, Inner!Push(e)
  PROVE  Pushes(In, In', e) /\ SingleIn'
<1>1. inWaiting = <<>> \/ inWaiting = <<"forward">>
  BY InFields DEF Good, Sleeps
<1>2. /\ ~inDone /\ inDone' = e.final /\ inLog' = Append(inLog, e) /\ inReceived' = inReceived
      /\ inResult' = IF e.final /\ inResult = Nothing THEN e ELSE inResult
  BY DEF Inner!Push, Inner!Resolve, Inner!Pending, Nothing
<1>3. CASE inWaiting = <<>>
  <2>1. inQueue' = Append(inQueue, e) /\ inWaiting' = <<>> /\ inAt' = inAt /\ inInbox' = inInbox
    BY <1>3 DEF Inner!Push
  <2> QED
    BY <1>2, <1>3, <2>1, InFields DEF Pushes, SingleIn
<1>4. CASE inWaiting = <<"forward">>
  <2>1. /\ inQueue' = inQueue /\ inWaiting' = <<>>
        /\ inAt' = [inAt EXCEPT !["forward"] = "woken"]
        /\ inInbox' = [inInbox EXCEPT !["forward"] = e]
    BY <1>4, OneWaiter DEF Inner!Push
  <2>2. inAt'["forward"] = "woken" /\ inInbox'["forward"] = e /\ SingleIn'
    BY <1>2, <2>1 DEF SingleIn, Places
  <2> QED
    BY <1>2, <1>4, <2>1, <2>2, OneWaiter, InFields DEF Pushes
<1> QED
  BY <1>1, <1>3, <1>4

LEMMA OutPushes ==
  ASSUME SingleOut, Good(Out, "loop"), NEW e \in Events, Outer!Push(e)
  PROVE  Pushes(Out, Out', e) /\ SingleOut'
<1>1. outWaiting = <<>> \/ outWaiting = <<"loop">>
  BY OutFields DEF Good, Sleeps
<1>2. /\ ~outDone /\ outDone' = e.final /\ outLog' = Append(outLog, e)
      /\ outReceived' = outReceived
      /\ outResult' = IF e.final /\ outResult = Nothing THEN e ELSE outResult
  BY DEF Outer!Push, Outer!Resolve, Outer!Pending, Nothing
<1>3. CASE outWaiting = <<>>
  <2>1. /\ outQueue' = Append(outQueue, e) /\ outWaiting' = <<>> /\ outAt' = outAt
        /\ outInbox' = outInbox
    BY <1>3 DEF Outer!Push
  <2> QED
    BY <1>2, <1>3, <2>1, OutFields DEF Pushes, SingleOut
<1>4. CASE outWaiting = <<"loop">>
  <2>1. /\ outQueue' = outQueue /\ outWaiting' = <<>>
        /\ outAt' = [outAt EXCEPT !["loop"] = "woken"]
        /\ outInbox' = [outInbox EXCEPT !["loop"] = e]
    BY <1>4, OneWaiter DEF Outer!Push
  <2>2. outAt'["loop"] = "woken" /\ outInbox'["loop"] = e /\ SingleOut'
    BY <1>2, <2>1 DEF SingleOut, Places
  <2> QED
    BY <1>2, <1>4, <2>1, <2>2, OneWaiter, OutFields DEF Pushes
<1> QED
  BY <1>1, <1>3, <1>4

LEMMA InStops ==
  ASSUME SingleIn, Good(In, "forward"), Inner!End(Inner!Pending)
  PROVE  Stops(In, In') /\ SingleIn'
<1>1. inWaiting = <<>> \/ inWaiting = <<"forward">>
  BY InFields DEF Good, Sleeps
<1>2. /\ inDone' = TRUE /\ inResult' = inResult /\ inLog' = inLog /\ inReceived' = inReceived
      /\ inWaiting' = <<>> /\ inQueue' = inQueue /\ inInbox' = inInbox
      /\ inAt' = [c \in {"forward"} |->
                    IF \E i \in 1 .. Len(inWaiting) : inWaiting[i] = c THEN "woken" ELSE inAt[c]]
  BY DEF Inner!End
<1>3. inAt'["forward"] = IF inWaiting = <<>> THEN inAt["forward"] ELSE "woken"
  BY <1>1, <1>2, OneWaiter
<1>4. SingleIn'
  BY <1>2, <1>3 DEF SingleIn, Places
<1> QED
  BY <1>2, <1>3, <1>4, InFields DEF Stops

LEMMA OutStops ==
  ASSUME SingleOut, Good(Out, "loop"), NEW r, Outer!End(r), r = Nothing \/ outResult # Nothing
  PROVE  Stops(Out, Out') /\ SingleOut'
<1>1. outWaiting = <<>> \/ outWaiting = <<"loop">>
  BY OutFields DEF Good, Sleeps
<1>2. /\ outDone' = TRUE /\ outResult' = outResult /\ outLog' = outLog
      /\ outReceived' = outReceived
      /\ outWaiting' = <<>> /\ outQueue' = outQueue /\ outInbox' = outInbox
      /\ outAt' = [c \in {"loop"} |->
                    IF \E i \in 1 .. Len(outWaiting) : outWaiting[i] = c THEN "woken" ELSE outAt[c]]
  BY DEF Outer!End, Outer!Resolve, Outer!Pending, Nothing
<1>3. outAt'["loop"] = IF outWaiting = <<>> THEN outAt["loop"] ELSE "woken"
  BY <1>1, <1>2, OneWaiter
<1>4. SingleOut'
  BY <1>2, <1>3 DEF SingleOut, Places
<1> QED
  BY <1>2, <1>3, <1>4, OutFields DEF Stops

LEMMA InSteps ==
  ASSUME SingleIn, Good(In, "forward"), Inner!ConsumerStep("forward")
  PROVE  Steps(In, In', "forward") /\ SingleIn'
<1>0. inQueue \in Seq(Events)
  BY InFields DEF Good, Typed
<1>1. CASE Inner!Take("forward")
  <2>1. SingleIn'
    <3>1. Head(inQueue) \in Events
      BY <1>0, <1>1, Shortened DEF Inner!Take
    <3>2. Append(inReceived["forward"], Head(inQueue)) \in Seq(Events)
      BY <3>1, Lengthened DEF SingleIn
    <3> QED
      BY <1>1, <3>2 DEF Inner!Take, SingleIn
  <2> QED
    BY <1>1, <2>1, InFields DEF Inner!Take, Steps, Takes, SingleIn
<1>2. CASE Inner!Finish("forward")
  BY <1>2, InFields DEF Inner!Finish, Inner!streamVars, Steps, Rests, SingleIn, Places
<1>3. CASE Inner!Sleep("forward")
  BY <1>3, InFields DEF Inner!Sleep, Steps, Rests, SingleIn, Places
<1>4. CASE Inner!Wake("forward")
  <2>1. /\ inAt["forward"] = "woken" /\ inInbox' = [inInbox EXCEPT !["forward"] = Nothing]
        /\ IF inInbox["forward"] = Nothing
           THEN inAt' = [inAt EXCEPT !["forward"] = "returned"] /\ inReceived' = inReceived
           ELSE /\ inAt' = [inAt EXCEPT !["forward"] = "ready"]
                /\ inReceived' = [inReceived EXCEPT !["forward"] = Append(@, inInbox["forward"])]
        /\ inQueue' = inQueue /\ inWaiting' = inWaiting /\ inDone' = inDone
        /\ inResult' = inResult /\ inLog' = inLog
    BY <1>4 DEF Inner!Wake, Inner!Pending, Nothing, Inner!streamVars
  <2>2. inInbox["forward"] \in Events
           /\ Append(inReceived["forward"], inInbox["forward"]) \in Seq(Events)
    BY Lengthened DEF SingleIn
  <2>3. SingleIn'
    BY <2>1, <2>2, PlainEvents DEF SingleIn, Places
  <2> QED
    BY <2>1, <2>3, InFields DEF Steps, Wakes, SingleIn
<1> QED
  BY <1>1, <1>2, <1>3, <1>4 DEF Inner!ConsumerStep

LEMMA OutSteps ==
  ASSUME SingleOut, Good(Out, "loop"), Outer!ConsumerStep("loop")
  PROVE  Steps(Out, Out', "loop") /\ SingleOut'
<1>0. outQueue \in Seq(Events)
  BY OutFields DEF Good, Typed
<1>1. CASE Outer!Take("loop")
  <2>1. SingleOut'
    <3>1. Head(outQueue) \in Events
      BY <1>0, <1>1, Shortened DEF Outer!Take
    <3>2. Append(outReceived["loop"], Head(outQueue)) \in Seq(Events)
      BY <3>1, Lengthened DEF SingleOut
    <3> QED
      BY <1>1, <3>2 DEF Outer!Take, SingleOut
  <2> QED
    BY <1>1, <2>1, OutFields DEF Outer!Take, Steps, Takes, SingleOut
<1>2. CASE Outer!Finish("loop")
  BY <1>2, OutFields DEF Outer!Finish, Outer!streamVars, Steps, Rests, SingleOut, Places
<1>3. CASE Outer!Sleep("loop")
  BY <1>3, OutFields DEF Outer!Sleep, Steps, Rests, SingleOut, Places
<1>4. CASE Outer!Wake("loop")
  <2>1. /\ outAt["loop"] = "woken" /\ outInbox' = [outInbox EXCEPT !["loop"] = Nothing]
        /\ IF outInbox["loop"] = Nothing
           THEN outAt' = [outAt EXCEPT !["loop"] = "returned"] /\ outReceived' = outReceived
           ELSE /\ outAt' = [outAt EXCEPT !["loop"] = "ready"]
                /\ outReceived' = [outReceived EXCEPT !["loop"] = Append(@, outInbox["loop"])]
        /\ outQueue' = outQueue /\ outWaiting' = outWaiting /\ outDone' = outDone
        /\ outResult' = outResult /\ outLog' = outLog
    BY <1>4 DEF Outer!Wake, Outer!Pending, Nothing, Outer!streamVars
  <2>2. outInbox["loop"] \in Events
           /\ Append(outReceived["loop"], outInbox["loop"]) \in Seq(Events)
    BY Lengthened DEF SingleOut
  <2>3. SingleOut'
    BY <2>1, <2>2, PlainEvents DEF SingleOut, Places
  <2> QED
    BY <2>1, <2>3, OutFields DEF Steps, Wakes, SingleOut
<1> QED
  BY <1>1, <1>2, <1>3, <1>4 DEF Outer!ConsumerStep

LEMMA OutLeaves ==
  ASSUME SingleOut, Outer!Leave("loop")
  PROVE  Leaves(Out, Out') /\ SingleOut'
  BY OutFields DEF Outer!Leave, Outer!streamVars, Leaves, SingleOut, Places

LEMMA InRests ==
  ASSUME UNCHANGED innerVars
  PROVE  In' = In /\ SingleIn' = SingleIn
  BY DEF innerVars, In, Stream, SingleIn

LEMMA OutRests ==
  ASSUME UNCHANGED outerVars
  PROVE  Out' = Out /\ SingleOut' = SingleOut
  BY DEF outerVars, Out, Stream, SingleOut

LEMMA Primed ==
  /\ Good(In', "forward") => Good(In, "forward")'
  /\ Good(Out', "loop") => Good(Out, "loop")'
  /\ Empty(In') => Empty(In)'
  /\ Empty(Out') => Empty(Out)'
  OBVIOUS

-----------------------------------------------------------------------------
(* What the invariants of the streams say of the variables.                *)

LEMMA Facts ==
  ASSUME NEW c, NEW s, Good(s, c)
  PROVE  /\ Log(s) \in Seq(Events) /\ Len(Log(s)) \in Nat /\ Done(s) \in BOOLEAN
         /\ Got(s) \in Seq(Events) /\ Len(Got(s)) \in Nat
         /\ Len(Got(s)) <= Len(Log(s))
         /\ \A i \in 1 .. Len(Got(s)) : Got(s)[i] = Log(s)[i]
         /\ \A i \in 1 .. Len(Log(s)) :
              /\ Log(s)[i] \in Events /\ Log(s)[i] # Nothing
              /\ Log(s)[i].final => i = Len(Log(s))
         /\ Log(s) # <<>> <=> Len(Log(s)) > 0
         /\ Ends(Log(s)) => Done(s) /\ Result(s) = Log(s)[Len(Log(s))] /\ Result(s) # Nothing
         /\ ~Ends(Log(s)) => Result(s) = Nothing
         /\ At(s) # "woken" /\ Queue(s) = <<>> => Got(s) = Log(s)
<1>1. Typed(s) /\ Reads(s) /\ Sleeps(s, c) /\ Finals(s)
  BY DEF Good
<1>2. /\ Log(s) \in Seq(Events) /\ Len(Log(s)) \in Nat /\ Done(s) \in BOOLEAN
      /\ Got(s) \in Seq(Events) /\ Len(Got(s)) \in Nat /\ Len(Queue(s)) \in Nat
      /\ Log(s) # <<>> <=> Len(Log(s)) > 0
      /\ \A i \in 1 .. Len(Log(s)) : Log(s)[i] \in Events
      /\ Queue(s) = <<>> => Len(Queue(s)) = 0
  BY <1>1, Lengths DEF Typed
<1>3. Flying(s) \in {0, 1}
  BY DEF Flying
<1>4. /\ Len(Log(s)) = Len(Got(s)) + Flying(s) + Len(Queue(s))
      /\ \A i \in 1 .. Len(Got(s)) : Got(s)[i] = Log(s)[i]
  BY <1>1 DEF Reads
<1>5. Len(Got(s)) <= Len(Log(s))
  BY ONLY <1>2, <1>3, <1>4
<1>6. /\ \A i \in 1 .. Len(Log(s)) :
           Log(s)[i] # Nothing /\ (Log(s)[i].final => i = Len(Log(s)))
      /\ Result(s) = IF Ends(Log(s)) THEN Log(s)[Len(Log(s))] ELSE Nothing
      /\ Ends(Log(s)) => Done(s)
  BY <1>1 DEF Finals
<1>7. Ends(Log(s)) => Log(s)[Len(Log(s))] # Nothing
  BY <1>2, PlainEvents DEF Ends
<1>8. ASSUME At(s) # "woken", Queue(s) = <<>> PROVE Got(s) = Log(s)
  <2>1. Flying(s) = 0
    BY <1>1, <1>8 DEF Sleeps, Flying
  <2>2. Len(Got(s)) = Len(Log(s))
    BY ONLY <1>2, <1>4, <1>8, <2>1
  <2> QED
    BY ONLY <1>2, <1>4, <2>2, SeqEqual
<1> QED
  BY <1>2, <1>4, <1>5, <1>6, <1>7, <1>8

LEMMA InFacts ==
  ASSUME Good(In, "forward"), Empty(In)
  PROVE  /\ inLog \in Seq(Events) /\ Len(inLog) \in Nat /\ inDone \in BOOLEAN
         /\ inReceived["forward"] \in Seq(Events) /\ Len(inReceived["forward"]) \in Nat
         /\ Len(inReceived["forward"]) <= Len(inLog)
         /\ \A i \in 1 .. Len(inReceived["forward"]) : inReceived["forward"][i] = inLog[i]
         /\ \A i \in 1 .. Len(inLog) :
              /\ inLog[i] \in Events /\ inLog[i] # Nothing
              /\ inLog[i].final => i = Len(inLog)
         /\ inLog # <<>> <=> Len(inLog) > 0
         /\ Ends(inLog) => inDone /\ inResult = inLog[Len(inLog)] /\ inResult # Nothing
         /\ ~Ends(inLog) => inResult = Nothing
         /\ inAt["forward"] = "returned" => inDone /\ inReceived["forward"] = inLog
  BY Facts, InFields DEF Empty

LEMMA OutFacts ==
  ASSUME Good(Out, "loop")
  PROVE  /\ outLog \in Seq(Events) /\ Len(outLog) \in Nat /\ outDone \in BOOLEAN
         /\ Seen \in Seq(Events) /\ Len(Seen) \in Nat /\ Len(Seen) <= Len(outLog)
         /\ \A i \in 1 .. Len(Seen) : Seen[i] = outLog[i]
         /\ \A i \in 1 .. Len(outLog) :
              /\ outLog[i] \in Events /\ outLog[i] # Nothing
              /\ outLog[i].final => i = Len(outLog)
         /\ outLog # <<>> <=> Len(outLog) > 0
         /\ Ends(outLog) => outDone /\ outResult = outLog[Len(outLog)] /\ outResult # Nothing
         /\ ~Ends(outLog) => outResult = Nothing
         /\ outAt["loop"] = "returned" /\ Empty(Out) => outDone /\ Seen = outLog
  BY Facts, OutFields DEF Empty, Seen

\* As long as the outer stream takes events the loop has no answer.
LEMMA PushLeavesAnswer ==
  ASSUME Good(Out, "loop"), Answer, ~outDone, loop' = loop, message' = message,
         Empty(In'), Empty(Out) => Empty(Out')
  PROVE  Answer'
<1>1. loop # "result" /\ loop # "returned"
  BY OutFacts DEF Answer
<1>2. Empty(In)' /\ (loop # "threw" => Empty(Out)')
  BY Primed DEF Answer
<1> QED
  BY <1>1, <1>2 DEF Answer

LEMMA RestLeavesAnswer ==
  ASSUME Answer, loop' = loop, message' = message, Empty(In'), Empty(Out) => Empty(Out'),
         outLog' = outLog, outReceived' = outReceived, outDone => outDone'
  PROVE  Answer'
<1>1. Empty(In)' /\ (loop # "threw" => Empty(Out)')
  BY Primed DEF Answer
<1> QED
  BY <1>1 DEF Answer, Seen

\* What an iterator of the inner stream is given does not disturb what was
\* forwarded.
LEMMA ReceivedGrows ==
  ASSUME Good(In, "forward"), NEW t, Steps(In, t, "forward")
  PROVE  /\ Len(Got(In)) <= Len(Got(t)) /\ Len(Got(t)) \in Nat
         /\ \A i \in 1 .. Len(Got(In)) : Got(t)[i] = Got(In)[i]
<1>1. Typed(In)
  BY DEF Good
<1>2. Got(In) \in Seq(Events) /\ Queue(In) \in Seq(Events) /\ Inbox(In) \in Events
  BY <1>1 DEF Typed
<1>3. \/ Got(t) = Got(In)
      \/ \E e \in Events : Got(t) = Append(Got(In), e)
  <2>1. Takes(In, t) => Head(Queue(In)) \in Events
    BY <1>2, Shortened DEF Takes
  <2> QED
    BY <1>2, <2>1 DEF Steps, Takes, Rests, Wakes
<1> QED
  BY <1>2, <1>3, Lengthened, Lengths

-----------------------------------------------------------------------------
LEMMA RequestInit == ResponseInit => RequestInv
<1> SUFFICES ASSUME ResponseInit PROVE RequestInv
  OBVIOUS
<1>1. /\ inQueue = <<>> /\ inWaiting = <<>> /\ inDone = FALSE /\ inResult = Nothing
      /\ inLog = <<>> /\ inAt = [c \in {"forward"} |-> "ready"]
      /\ inInbox = [c \in {"forward"} |-> Nothing]
      /\ inReceived = [c \in {"forward"} |-> <<>>]
  BY DEF ResponseInit, Inner!Init, Inner!StreamInit, Inner!Pending, Nothing
<1>2. /\ outQueue = <<>> /\ outWaiting = <<>> /\ outDone = FALSE /\ outResult = Nothing
      /\ outLog = <<>> /\ outAt = [c \in {"loop"} |-> "ready"]
      /\ outInbox = [c \in {"loop"} |-> Nothing]
      /\ outReceived = [c \in {"loop"} |-> <<>>]
  BY DEF ResponseInit, Outer!Init, Outer!StreamInit, Outer!Pending, Nothing
<1>3. <<>> \in Seq(Events) /\ Len(<<>>) = 0 /\ 1 .. 0 = {}
  BY EmptySeq
<1>4. SingleIn /\ SingleOut
  BY <1>1, <1>2, <1>3, PlainEvents DEF SingleIn, SingleOut, Places
<1>5. ASSUME NEW c, NEW s, Queue(s) = <<>>, Waiters(s) = <<>>, Done(s) = FALSE,
             Result(s) = Nothing, Log(s) = <<>>, At(s) = "ready", Inbox(s) = Nothing,
             Got(s) = <<>>
      PROVE  Good(s, c) /\ Empty(s)
  <2>1. Typed(s)
    BY <1>3, <1>5, PlainEvents DEF Typed, Places
  <2>2. Reads(s)
    BY <1>3, <1>5 DEF Reads, Flying
  <2>3. Finals(s) /\ Sleeps(s, c) /\ Empty(s)
    BY <1>3, <1>5 DEF Finals, Sleeps, Empty, Ends
  <2> QED
    BY <2>1, <2>2, <2>3 DEF Good
<1>6. Good(In, "forward") /\ Empty(In)
  BY <1>1, <1>5, InFields
<1>7. Good(Out, "loop") /\ Empty(Out)
  BY <1>2, <1>5, OutFields
<1>8. /\ proxy \in BOOLEAN /\ provider = (IF proxy THEN "streaming" ELSE "setup")
      /\ forwarded = 0 /\ loop = "iterating"
  BY DEF ResponseInit
<1>9. Parties
  BY <1>1, <1>2, <1>8 DEF Parties
<1>10. Copied
  BY <1>1, <1>2, <1>3, <1>8 DEF Copied
<1>11. Answer
  BY <1>6, <1>7, <1>8 DEF Answer
<1> QED
  BY <1>4, <1>6, <1>7, <1>9, <1>10, <1>11 DEF RequestInv

LEMMA SetupKeeps ==
  ASSUME RequestInv, Setup
  PROVE  RequestInv'
<1>1. In' = In /\ Out' = Out /\ SingleIn' = SingleIn /\ SingleOut' = SingleOut
  BY InRests, OutRests DEF Setup
<1>2. Good(In, "forward")' /\ Good(Out, "loop")'
  BY <1>1, Primed DEF RequestInv
<1>3. UNCHANGED <<innerVars, outerVars, forwarded, loop, message, proxy>>
        /\ provider = "setup" /\ provider' = "streaming"
  BY DEF Setup
<1>4. Parties'
  BY <1>3 DEF RequestInv, Parties, innerVars, outerVars
<1>5. Copied'
  BY <1>3 DEF RequestInv, Parties, Copied, innerVars, outerVars
<1>6. Answer'
  BY <1>1, <1>3, RestLeavesAnswer DEF RequestInv, Answer, outerVars
<1> QED
  BY <1>1, <1>2, <1>4, <1>5, <1>6 DEF RequestInv

LEMMA SetupFailsKeeps ==
  ASSUME RequestInv, SetupFails
  PROVE  RequestInv'
<1> DEFINE e == [n |-> 1, final |-> TRUE]
<1>1. e \in Events /\ e # Nothing /\ e.final
  BY DEF Events, Nothing
<1>2. /\ Good(In, "forward") /\ Good(Out, "loop") /\ SingleIn /\ SingleOut
      /\ Parties /\ Copied /\ Answer
  BY DEF RequestInv
<1>3. /\ UNCHANGED <<innerVars, forwarded, loop, message, proxy>>
      /\ provider = "setup" /\ provider' = "final" /\ Outer!Push(e)
  BY DEF SetupFails
<1>4. In' = In /\ SingleIn' = SingleIn
  BY <1>3, InRests
<1>5. Pushes(Out, Out', e) /\ SingleOut'
  BY <1>1, <1>2, <1>3, OutPushes
<1>6. Good(Out', "loop") /\ (Empty(Out) => Empty(Out')) /\ Ends(outLog')
  <2>1. Good(Out', "loop") /\ (Empty(Out) => Empty(Out')) /\ (Ends(Log(Out')) <=> e.final)
    BY ONLY <1>1, <1>2, <1>5, PushKeeps
  <2> QED
    BY <1>1, <2>1, OutFields
<1>7. ~proxy /\ inLog = <<>> /\ inLog' = <<>> /\ proxy' = proxy /\ ~outDone
  BY <1>2, <1>3, <1>5, OutFields DEF Parties, innerVars, Pushes
<1>8. Parties'
  BY <1>2, <1>3, <1>6, <1>7 DEF Parties, SourceLog
<1>9. Copied'
  BY <1>2, <1>3, <1>6, <1>7 DEF Copied, innerVars
<1>10. Answer'
  <2>1. Empty(In')
    BY <1>2, <1>4 DEF Answer
  <2> QED
    BY <1>2, <1>3, <1>6, <1>7, <2>1, PushLeavesAnswer
<1> QED
  BY <1>2, <1>4, <1>5, <1>6, <1>8, <1>9, <1>10, Primed DEF RequestInv

\* An event of the provider, to the inner stream or, of a proxy, the outer one.
LEMMA ProviderKeeps ==
  ASSUME RequestInv, provider = "streaming", NEW final \in BOOLEAN, ProviderPush(final),
         provider' = IF final THEN "final" ELSE provider,
         UNCHANGED <<forwarded, loop, message, proxy>>
  PROVE  RequestInv'
<1> DEFINE e == [n |-> Len(SourceLog) + 1, final |-> final]
<1>1. /\ Good(In, "forward") /\ Good(Out, "loop") /\ SingleIn /\ SingleOut
      /\ Parties /\ Copied /\ Answer
  BY DEF RequestInv
<1>2. e \in Events /\ e # Nothing /\ e.final = final
  <2>1. Len(SourceLog) \in Nat
    BY <1>1, InFacts, OutFacts DEF SourceLog, Answer
  <2> QED
    BY <2>1 DEF Events, Nothing
<1>3. CASE proxy
  <2>1. UNCHANGED innerVars /\ Outer!Push(e)
    BY <1>3 DEF ProviderPush
  <2>2. In' = In /\ SingleIn' = SingleIn
    BY <2>1, InRests
  <2>3. Pushes(Out, Out', e) /\ SingleOut'
    BY <1>1, <1>2, <2>1, OutPushes
  <2>4. /\ Good(Out', "loop") /\ (Empty(Out) => Empty(Out')) /\ (Ends(outLog') <=> final)
        /\ outDone' = final /\ ~outDone
    <3>1. Good(Out', "loop") /\ (Empty(Out) => Empty(Out')) /\ (Ends(Log(Out')) <=> e.final)
      BY ONLY <1>1, <1>2, <2>3, PushKeeps
    <3> QED
      BY <1>2, <2>3, <3>1, OutFields DEF Pushes
  <2>5. inLog = <<>> /\ inLog' = <<>>
    BY <1>1, <1>3, <2>1 DEF Parties, innerVars
  <2>6. Parties'
    BY <1>1, <1>3, <2>1, <2>4, <2>5 DEF Parties, SourceLog, innerVars
  <2>7. Copied'
    BY <1>1, <1>3, <2>1, <2>5 DEF Copied, innerVars
  <2>8. Answer'
    <3>1. Empty(In')
      BY <1>1, <2>2 DEF Answer
    <3> QED
      BY <1>1, <2>4, <3>1, PushLeavesAnswer
  <2> QED
    BY <1>1, <2>2, <2>3, <2>4, <2>6, <2>7, <2>8, Primed DEF RequestInv
<1>4. CASE ~proxy
  <2>1. UNCHANGED outerVars /\ Inner!Push(e)
    BY <1>4 DEF ProviderPush
  <2>2. Out' = Out /\ SingleOut' = SingleOut
    BY <2>1, OutRests
  <2>3. Pushes(In, In', e) /\ SingleIn'
    BY <1>1, <1>2, <2>1, InPushes
  <2>4. /\ Good(In', "forward") /\ (Empty(In) => Empty(In')) /\ (Ends(inLog') <=> final)
        /\ inDone' = final /\ inReceived'["forward"] = inReceived["forward"] /\ inLog' # <<>>
    <3>1. Good(In', "forward") /\ (Empty(In) => Empty(In')) /\ (Ends(Log(In')) <=> e.final)
      BY ONLY <1>1, <1>2, <2>3, PushKeeps
    <3>2. Append(inLog, e) # <<>>
      BY <1>1, <1>2, InFacts, Lengthened DEF Answer
    <3> QED
      BY <1>2, <2>3, <3>1, <3>2, InFields DEF Pushes
  <2>5. /\ outLog' = outLog /\ outDone' = outDone
        /\ Len(outLog) = forwarded
        /\ \A i \in 1 .. forwarded : outLog[i] = inReceived["forward"][i]
    <3>1. CASE inLog # <<>>
      BY <1>1, <2>1, <3>1 DEF Copied, outerVars
    <3>2. CASE inLog = <<>>
      <4>1. outLog = <<>>
        BY <1>1, <1>4, <3>2 DEF Copied
      <4>2. forwarded = 0
        BY <1>1, <3>2, InFacts DEF Copied, Answer
      <4> QED
        BY <2>1, <4>1, <4>2 DEF outerVars
    <3> QED
      BY <3>1, <3>2
  <2>6. Parties'
    BY <1>1, <1>4, <2>4 DEF Parties, SourceLog
  <2>7. Copied'
    BY <1>1, <1>4, <2>4, <2>5 DEF Copied
  <2>8. Answer'
    <3>1. Empty(In')
      BY <1>1, <2>4 DEF Answer
    <3> QED
      BY <1>1, <2>1, <2>2, <3>1, RestLeavesAnswer DEF outerVars
  <2> QED
    BY <1>1, <2>2, <2>3, <2>4, <2>6, <2>7, <2>8, Primed DEF RequestInv
<1> QED
  BY <1>3, <1>4

LEMMA EndAfterFinalKeeps ==
  ASSUME RequestInv, EndAfterFinal
  PROVE  RequestInv'
<1>1. /\ Good(In, "forward") /\ Good(Out, "loop") /\ SingleIn /\ SingleOut
      /\ Parties /\ Copied /\ Answer
  BY DEF RequestInv
<1>2. /\ provider = "final" /\ provider' = "over"
      /\ UNCHANGED <<forwarded, loop, message, proxy>>
  BY DEF EndAfterFinal
<1>3. CASE inLog = <<>>
  <2>1. UNCHANGED innerVars /\ Outer!End(Nothing)
    BY <1>3 DEF EndAfterFinal, Outer!Pending, Nothing
  <2>2. In' = In /\ SingleIn' = SingleIn
    BY <2>1, InRests
  <2>3. Stops(Out, Out') /\ SingleOut'
    BY <1>1, <2>1, OutStops
  <2>4. Good(Out', "loop") /\ (Empty(Out) => Empty(Out'))
    BY <1>1, <2>3, StopKeeps
  <2>5. outLog' = outLog /\ outReceived' = outReceived /\ outDone' /\ Ends(outLog)
    BY <1>1, <1>2, <1>3, <2>1 DEF Parties, SourceLog, Outer!End
  <2>6. Parties'
    BY <1>1, <1>2, <1>3, <2>1, <2>5 DEF Parties, SourceLog, innerVars
  <2>7. Copied'
    BY <1>1, <1>2, <1>3, <2>1, <2>5 DEF Copied, innerVars
  <2>8. Answer'
    <3>1. Empty(In')
      BY <1>1, <2>2 DEF Answer
    <3> QED
      BY <1>1, <1>2, <2>4, <2>5, <3>1, RestLeavesAnswer
  <2> QED
    BY <1>1, <2>2, <2>3, <2>4, <2>6, <2>7, <2>8, Primed DEF RequestInv
<1>4. CASE inLog # <<>>
  <2>1. UNCHANGED outerVars /\ Inner!End(Inner!Pending)
    BY <1>4 DEF EndAfterFinal
  <2>2. Out' = Out /\ SingleOut' = SingleOut
    BY <2>1, OutRests
  <2>3. Stops(In, In') /\ SingleIn'
    BY <1>1, <2>1, InStops
  <2>4. Good(In', "forward") /\ (Empty(In) => Empty(In'))
    BY <1>1, <2>3, StopKeeps
  <2>5. inLog' = inLog /\ inReceived' = inReceived
    BY <2>1 DEF Inner!End
  <2>6. Parties'
    BY <1>1, <1>2, <1>4, <2>1, <2>5 DEF Parties, SourceLog, outerVars
  <2>7. Copied'
    BY <1>1, <1>2, <1>4, <2>1, <2>5 DEF Copied, outerVars
  <2>8. Answer'
    <3>1. Empty(In')
      BY <1>1, <2>4 DEF Answer
    <3> QED
      BY <1>1, <1>2, <2>1, <2>2, <3>1, RestLeavesAnswer DEF outerVars
  <2> QED
    BY <1>1, <2>2, <2>3, <2>4, <2>6, <2>7, <2>8, Primed DEF RequestInv
<1> QED
  BY <1>3, <1>4

LEMMA HangUpKeeps ==
  ASSUME RequestInv, HangUp
  PROVE  RequestInv'
<1>1. /\ Good(In, "forward") /\ Good(Out, "loop") /\ SingleIn /\ SingleOut
      /\ Parties /\ Copied /\ Answer
  BY DEF RequestInv
<1>2. /\ proxy /\ provider = "streaming" /\ provider' = "over"
      /\ UNCHANGED <<innerVars, forwarded, loop, message, proxy>> /\ Outer!End(Nothing)
  BY DEF HangUp, Outer!Pending, Nothing
<1>3. In' = In /\ SingleIn' = SingleIn
  BY <1>2, InRests
<1>4. Stops(Out, Out') /\ SingleOut'
  BY <1>1, <1>2, OutStops
<1>5. Good(Out', "loop") /\ (Empty(Out) => Empty(Out'))
  BY <1>1, <1>4, StopKeeps
<1>6. outLog' = outLog /\ outReceived' = outReceived /\ outDone'
  BY <1>2 DEF Outer!End
<1>7. Parties'
  BY <1>1, <1>2 DEF Parties, innerVars
<1>8. Copied'
  BY <1>1, <1>2, <1>6 DEF Parties, Copied, innerVars
<1>9. Answer'
  <2>1. Empty(In')
    BY <1>1, <1>3 DEF Answer
  <2> QED
    BY <1>1, <1>2, <1>5, <1>6, <2>1, RestLeavesAnswer
<1> QED
  BY <1>1, <1>3, <1>4, <1>5, <1>7, <1>8, <1>9, Primed DEF RequestInv

LEMMA PullKeeps ==
  ASSUME RequestInv, Pull
  PROVE  RequestInv'
<1>1. /\ Good(In, "forward") /\ Good(Out, "loop") /\ SingleIn /\ SingleOut
      /\ Parties /\ Copied /\ Answer
  BY DEF RequestInv
<1>2. /\ ~proxy /\ UNCHANGED <<outerVars, proxy, provider, forwarded, loop, message>>
      /\ Inner!ConsumerStep("forward")
  BY DEF Pull, partyVars
<1>3. Out' = Out /\ SingleOut' = SingleOut
  BY <1>2, OutRests
<1>4. Steps(In, In', "forward") /\ SingleIn'
  BY <1>1, <1>2, InSteps
<1>5. Good(In', "forward") /\ (Empty(In) => Empty(In'))
  BY <1>1, <1>4, StepKeeps
<1>6. inLog' = inLog /\ inDone' = inDone
  BY <1>4, InFields DEF Steps
<1>7. /\ Len(inReceived["forward"]) <= Len(inReceived'["forward"])
      /\ Len(inReceived'["forward"]) \in Nat /\ Len(inReceived["forward"]) \in Nat
      /\ \A i \in 1 .. Len(inReceived["forward"]) :
           inReceived'["forward"][i] = inReceived["forward"][i]
  BY <1>1, <1>4, ReceivedGrows, InFields, InFacts DEF Answer
<1>8. Parties'
  BY <1>1, <1>2, <1>6 DEF Parties, SourceLog, outerVars
<1>9. Copied'
  BY <1>1, <1>2, <1>6, <1>7 DEF Copied, outerVars
<1>10. Answer'
  <2>1. Empty(In')
    BY <1>1, <1>5 DEF Answer
  <2> QED
    BY <1>1, <1>2, <1>3, <2>1, RestLeavesAnswer DEF outerVars
<1> QED
  BY <1>1, <1>3, <1>4, <1>5, <1>8, <1>9, <1>10, Primed DEF RequestInv

LEMMA ForwardKeeps ==
  ASSUME RequestInv, Forward
  PROVE  RequestInv'
<1> DEFINE e == inReceived["forward"][forwarded + 1]
<1>1. /\ Good(In, "forward") /\ Good(Out, "loop") /\ SingleIn /\ SingleOut
      /\ Parties /\ Copied /\ Answer
  BY DEF RequestInv
<1>2. /\ forwarded < Len(inReceived["forward"]) /\ Outer!Push(e) /\ forwarded' = forwarded + 1
      /\ UNCHANGED <<innerVars, provider, loop, message, proxy>>
  BY DEF Forward, Forwarding
<1>3. /\ forwarded \in Nat /\ forwarded + 1 \in 1 .. Len(inReceived["forward"])
      /\ forwarded + 1 \in 1 .. Len(inLog) /\ inLog # <<>>
  BY <1>1, <1>2, InFacts DEF Copied, Answer
<1>4. e \in Events /\ e # Nothing
  BY <1>1, <1>3, InFacts DEF Answer
<1>5. In' = In /\ SingleIn' = SingleIn
  BY <1>2, InRests
<1>6. Pushes(Out, Out', e) /\ SingleOut'
  BY <1>1, <1>2, <1>4, OutPushes
<1>7. /\ Good(Out', "loop") /\ (Empty(Out) => Empty(Out')) /\ (Ends(outLog') <=> e.final)
      /\ outDone' = e.final /\ ~outDone /\ outLog' = Append(outLog, e)
  <2>1. Good(Out', "loop") /\ (Empty(Out) => Empty(Out')) /\ (Ends(Log(Out')) <=> e.final)
    BY ONLY <1>1, <1>4, <1>6, PushKeeps
  <2> QED
    BY <1>6, <2>1, OutFields DEF Pushes
<1>8. ~proxy /\ inLog' = inLog /\ inReceived' = inReceived /\ inDone' = inDone
  BY <1>1, <1>2, <1>3 DEF Parties, innerVars
<1>9. Parties'
  BY <1>1, <1>2, <1>3, <1>8 DEF Parties, SourceLog
<1>10. /\ Len(outLog) = forwarded
       /\ \A i \in 1 .. forwarded : outLog[i] = inReceived["forward"][i]
  BY <1>1, <1>3 DEF Copied
<1>11. /\ Len(outLog') = forwarded'
       /\ \A i \in 1 .. forwarded' : outLog'[i] = inReceived["forward"][i]
  <2>1. /\ Len(outLog') = forwarded + 1 /\ outLog'[forwarded + 1] = e
        /\ \A i \in 1 .. forwarded : outLog'[i] = outLog[i]
    BY <1>1, <1>4, <1>7, <1>10, Lengthened, OutFacts
  <2> QED
    BY <1>2, <1>3, <1>10, <2>1
<1>12. Copied'
  BY <1>1, <1>2, <1>3, <1>7, <1>8, <1>11 DEF Copied
<1>13. Answer'
  <2>1. Empty(In')
    BY <1>1, <1>5 DEF Answer
  <2> QED
    BY <1>1, <1>2, <1>7, <2>1, PushLeavesAnswer
<1> QED
  BY <1>1, <1>5, <1>6, <1>7, <1>9, <1>12, <1>13, Primed DEF RequestInv

LEMMA EndOuterKeeps ==
  ASSUME RequestInv, EndOuter
  PROVE  RequestInv'
<1>1. /\ Good(In, "forward") /\ Good(Out, "loop") /\ SingleIn /\ SingleOut
      /\ Parties /\ Copied /\ Answer
  BY DEF RequestInv
<1>2. /\ inAt["forward"] = "returned" /\ ~(forwarded < Len(inReceived["forward"]))
      /\ inResult # Nothing /\ Outer!End(inResult)
      /\ UNCHANGED <<innerVars, proxy, provider, forwarded, loop, message>>
  BY DEF EndOuter, Forwarding, Inner!Pending, Nothing, partyVars
<1>3. inReceived["forward"] = inLog /\ Ends(inLog) /\ ~proxy /\ inLog # <<>>
  BY <1>1, <1>2, InFacts DEF Answer, Parties, Ends
<1>4. forwarded = Len(inLog) /\ Len(outLog) = Len(inLog) /\ Len(inLog) \in Nat \ {0}
      /\ \A i \in 1 .. Len(inLog) : outLog[i] = inLog[i]
  BY <1>1, <1>2, <1>3, InFacts DEF Copied, Answer
<1>5. Ends(outLog) /\ outResult # Nothing
  BY <1>1, <1>3, <1>4, OutFacts DEF Ends
<1>6. In' = In /\ SingleIn' = SingleIn
  BY <1>2, InRests
<1>7. Stops(Out, Out') /\ SingleOut'
  BY <1>1, <1>2, <1>5, OutStops
<1>8. Good(Out', "loop") /\ (Empty(Out) => Empty(Out'))
  BY <1>1, <1>7, StopKeeps
<1>9. outLog' = outLog /\ outReceived' = outReceived /\ outDone'
  BY <1>2 DEF Outer!End
<1>10. Parties'
  BY <1>1, <1>2, <1>3, <1>9 DEF Parties, SourceLog, innerVars
<1>11. Copied'
  BY <1>1, <1>2, <1>3, <1>5, <1>9 DEF Copied, innerVars
<1>12. Answer'
  <2>1. Empty(In')
    BY <1>1, <1>6 DEF Answer
  <2> QED
    BY <1>1, <1>2, <1>8, <1>9, <2>1, RestLeavesAnswer
<1> QED
  BY <1>1, <1>6, <1>7, <1>8, <1>10, <1>11, <1>12, Primed DEF RequestInv

LEMMA LoopPullKeeps ==
  ASSUME RequestInv, LoopPull
  PROVE  RequestInv'
<1>1. /\ Good(In, "forward") /\ Good(Out, "loop") /\ SingleIn /\ SingleOut
      /\ Parties /\ Copied /\ Answer
  BY DEF RequestInv
<1>2. /\ loop = "iterating" /\ Outer!ConsumerStep("loop")
      /\ UNCHANGED <<innerVars, proxy, provider, forwarded, loop, message>>
  BY DEF LoopPull, partyVars
<1>3. In' = In /\ SingleIn' = SingleIn
  BY <1>2, InRests
<1>4. Steps(Out, Out', "loop") /\ SingleOut'
  BY <1>1, <1>2, OutSteps
<1>5. Good(Out', "loop") /\ (Empty(Out) => Empty(Out'))
  BY <1>1, <1>4, StepKeeps
<1>6. outLog' = outLog /\ outDone' = outDone
  BY <1>4, OutFields DEF Steps
<1>7. Parties'
  BY <1>1, <1>2, <1>6 DEF Parties, SourceLog, innerVars
<1>8. Copied'
  BY <1>1, <1>2, <1>6 DEF Copied, innerVars
<1>9. Answer'
  <2>1. Empty(In)' /\ Empty(Out)'
    BY <1>1, <1>2, <1>3, <1>5, Primed DEF Answer
  <2> QED
    BY <1>2, <2>1 DEF Answer
<1> QED
  BY <1>1, <1>3, <1>4, <1>5, <1>7, <1>8, <1>9, Primed DEF RequestInv

\* The loop asks for the result, gets it, or leaves.
LEMMA LoopKeeps ==
  ASSUME RequestInv, AwaitResult \/ TakeResult
  PROVE  RequestInv'
<1>1. /\ Good(In, "forward") /\ Good(Out, "loop") /\ SingleIn /\ SingleOut
      /\ Parties /\ Copied /\ Answer
  BY DEF RequestInv
<1>2. UNCHANGED <<innerVars, outerVars, provider, forwarded, proxy>>
  BY DEF AwaitResult, TakeResult
<1>3. In' = In /\ SingleIn' = SingleIn /\ Out' = Out /\ SingleOut' = SingleOut
  BY <1>2, InRests, OutRests
<1>4. outLog' = outLog /\ outDone' = outDone /\ Seen' = Seen
  BY <1>2 DEF outerVars, Seen
<1>5. Parties'
  BY <1>1, <1>2 DEF Parties, SourceLog, innerVars, outerVars
<1>6. Copied'
  BY <1>1, <1>2 DEF Copied, innerVars, outerVars
<1>7. Empty(In)' /\ (loop # "threw" => Empty(Out)')
  BY <1>1, <1>3, Primed DEF Answer
<1>8. CASE AwaitResult
  <2>1. loop = "iterating" /\ loop' = "result" /\ (SeesFinal \/ outAt["loop"] = "returned")
    BY <1>8 DEF AwaitResult
  <2>2. outDone /\ Seen = outLog
    <3>1. CASE outAt["loop"] = "returned"
      BY <1>1, <2>1, <3>1, OutFacts DEF Answer
    <3>2. CASE SeesFinal
      <4>1. Len(Seen) \in 1 .. Len(outLog) /\ Seen[Len(Seen)].final
        <5>1. Seen # <<>> /\ Seen[Len(Seen)].final
          BY <3>2 DEF SeesFinal
        <5> QED
          BY <1>1, <5>1, OutFacts, Lengths
      <4>2. outLog[Len(Seen)].final
        BY <1>1, <4>1, OutFacts
      <4>3. Len(Seen) = Len(outLog)
        BY <1>1, <4>1, <4>2, OutFacts
      <4>4. Seen = outLog
        BY <1>1, <4>3, OutFacts, SeqEqual
      <4> QED
        BY <1>1, <4>1, <4>4, OutFacts DEF Ends
    <3> QED
      BY <2>1, <3>1, <3>2
  <2>3. Answer'
    BY <1>4, <1>7, <2>1, <2>2 DEF Answer
  <2> QED
    BY <1>1, <1>3, <1>5, <1>6, <2>3, Primed DEF RequestInv
<1>9. CASE TakeResult
  <2>1. /\ loop = "result" /\ loop' = "returned" /\ outResult # Nothing
        /\ message' = outResult
    BY <1>9 DEF TakeResult, Outer!Pending, Nothing
  <2>2. Ends(outLog) /\ message' = outLog[Len(outLog)] /\ Seen = outLog
    BY <1>1, <2>1, OutFacts DEF Answer
  <2>3. Answer'
    BY <1>4, <1>7, <2>1, <2>2 DEF Answer
  <2> QED
    BY <1>1, <1>3, <1>5, <1>6, <2>3, Primed DEF RequestInv
<1> QED
  BY <1>8, <1>9

LEMMA SinkThrowsKeeps ==
  ASSUME RequestInv, SinkThrows
  PROVE  RequestInv'
<1>1. /\ Good(In, "forward") /\ Good(Out, "loop") /\ SingleIn /\ SingleOut
      /\ Parties /\ Copied /\ Answer
  BY DEF RequestInv
<1>2. /\ Outer!Leave("loop") /\ loop' = "threw"
      /\ UNCHANGED <<innerVars, provider, forwarded, message, proxy>>
  BY DEF SinkThrows
<1>3. In' = In /\ SingleIn' = SingleIn
  BY <1>2, InRests
<1>4. Leaves(Out, Out') /\ SingleOut'
  BY <1>1, <1>2, OutLeaves
<1>5. Good(Out', "loop")
  BY <1>1, <1>4, LeaveKeeps
<1>6. outLog' = outLog /\ outDone' = outDone
  BY <1>4, OutFields DEF Leaves
<1>7. Parties'
  BY <1>1, <1>2, <1>6 DEF Parties, SourceLog, innerVars
<1>8. Copied'
  BY <1>1, <1>2, <1>6 DEF Copied, innerVars
<1>9. Answer'
  <2>1. Empty(In)'
    BY <1>1, <1>3, Primed DEF Answer
  <2> QED
    BY <1>2, <2>1 DEF Answer
<1> QED
  BY <1>1, <1>3, <1>4, <1>5, <1>7, <1>8, <1>9, Primed DEF RequestInv

LEMMA RequestStep == RequestInv /\ [ResponseNext]_responseVars => RequestInv'
<1> SUFFICES ASSUME RequestInv, [ResponseNext]_responseVars PROVE RequestInv'
  OBVIOUS
<1>1. CASE Delta
  BY <1>1, ProviderKeeps DEF Delta, partyVars
<1>2. CASE Final
  BY <1>2, ProviderKeeps DEF Final
<1>3. CASE UNCHANGED responseVars
  <2>1. /\ In' = In /\ SingleIn' = SingleIn /\ Out' = Out /\ SingleOut' = SingleOut
        /\ UNCHANGED <<innerVars, outerVars, partyVars>>
    BY <1>3, InRests, OutRests DEF responseVars
  <2>2. Parties' /\ Copied' /\ Answer'
    BY <2>1, Primed
    DEF RequestInv, Parties, Copied, Answer, SourceLog, Seen, innerVars, outerVars, partyVars
  <2> QED
    BY <2>1, <2>2, Primed DEF RequestInv
<1> QED
  BY <1>1, <1>2, <1>3, SetupKeeps, SetupFailsKeeps, EndAfterFinalKeeps, HangUpKeeps,
     PullKeeps, ForwardKeeps, EndOuterKeeps, LoopPullKeeps, LoopKeeps, SinkThrowsKeeps
  DEF ResponseNext, Request, Copy, Consume

\* The message of a turn is that of the last event the provider pushed, and the
\* loop has seen every event before it, in order: through one stream or two,
\* however long the response, whoever waits for whom.
THEOREM TheMessageIsFinal == ResponseSpec => []MessageIsTheFinalOne
<1>1. RequestInv => MessageIsTheFinalOne
  <2> SUFFICES ASSUME RequestInv PROVE MessageIsTheFinalOne
    OBVIOUS
  <2>1. /\ Good(In, "forward") /\ Good(Out, "loop") /\ Parties /\ Copied /\ Answer
    BY DEF RequestInv
  <2>2. /\ Len(outLog) <= Len(SourceLog) /\ Len(SourceLog) \in Nat
        /\ \A i \in 1 .. Len(outLog) : outLog[i] = SourceLog[i]
    <3>1. CASE proxy \/ inLog = <<>>
      BY <2>1, <3>1, OutFacts DEF SourceLog
    <3>2. CASE ~proxy /\ inLog # <<>>
      BY <2>1, <3>2, InFacts DEF SourceLog, Copied, Answer
    <3> QED
      BY <3>1, <3>2
  <2>3. LoopSeesAPrefix
    BY <2>1, <2>2, OutFacts DEF LoopSeesAPrefix
  <2>4. ASSUME loop = "returned"
        PROVE  message = SourceLog[Len(SourceLog)] /\ message.final /\ Seen = SourceLog
    <3>1. Ends(outLog) /\ Seen = outLog /\ message = outLog[Len(outLog)]
      BY <2>1, <2>4 DEF Answer
    <3>2. outLog = SourceLog
      <4>1. CASE proxy \/ inLog = <<>>
        BY <4>1 DEF SourceLog
      <4>2. CASE ~proxy /\ inLog # <<>>
        <5>1. SourceLog = inLog /\ inLog \in Seq(Events) /\ outLog \in Seq(Events)
          BY <2>1, <4>2, InFacts, OutFacts DEF SourceLog, Answer
        <5>2. Len(outLog) \in 1 .. Len(inLog) /\ inLog[Len(outLog)].final
          BY <2>1, <2>2, <3>1, <5>1, OutFacts DEF Ends
        <5>3. Len(outLog) = Len(inLog)
          BY <2>1, <5>2, InFacts DEF Answer
        <5> QED
          BY <2>2, <5>1, <5>3, SeqEqual
      <4> QED
        BY <4>1, <4>2
    <3> QED
      BY <3>1, <3>2 DEF Ends
  <2> QED
    BY <2>3, <2>4 DEF MessageIsTheFinalOne
<1> QED
  BY <1>1, RequestInit, RequestStep, PTL DEF ResponseSpec
=============================================================================
