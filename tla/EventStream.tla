---------------------------- MODULE EventStream -----------------------------
(***************************************************************************)
(* EventStream of ai/src/utils/event-stream.ts: the push/pull queue between *)
(* a provider (or the agent loop) and whoever iterates over its events.    *)
(* Every iterator is a consumer: it takes from the queue, or leaves a      *)
(* resolver in "waiting" and sleeps.  A resolver that is called wakes the  *)
(* consumer later, so an event can be in flight, neither queued nor seen.  *)
(***************************************************************************)
EXTENDS Naturals, Sequences

CONSTANTS
  Consumers,      \* the iterators
  MaxEvents       \* bound: events that are pushed

VARIABLES
  queue, waiting, done,
  result,         \* what the promise of result() was resolved with
  \* --- the iterators
  at,             \* "ready", "waiting", "woken", "returned"
  inbox,          \* the event a woken consumer's resolver was called with
  received,       \* history: the events each consumer was given
  \* --- the producer
  log,            \* history: the events that were accepted
  ended           \* history: end() was called

streamVars == <<queue, waiting, done, result, log, ended>>
consumerVars == <<at, inbox, received>>
vars == <<streamVars, consumerVars>>

\* An event: its number, and isComplete() of it ("done", "error", "agent_end").
Event == [n : Nat, final : BOOLEAN]

\* result() is pending, was resolved by a final event, or by end(result).
Pending   == [n |-> 0, final |-> FALSE]
Given     == [n |-> 0, final |-> TRUE]

StreamInit ==
  /\ queue = <<>> /\ waiting = <<>> /\ done = FALSE /\ result = Pending
  /\ log = <<>> /\ ended = FALSE

Init ==
  /\ StreamInit
  /\ at = [c \in Consumers |-> "ready"]
  /\ inbox = [c \in Consumers |-> Pending]
  /\ received = [c \in Consumers |-> <<>>]

-----------------------------------------------------------------------------
\* A promise that is resolved keeps its value.
Resolve(r) == result' = IF result = Pending THEN r ELSE result

\* push(): the first waiter gets the event; without one it is queued.  After
\* the stream is done the event is dropped, which is no step.
Push(e) ==
  /\ ~done
  /\ done' = e.final
  /\ IF e.final THEN Resolve(e) ELSE UNCHANGED result
  /\ log' = Append(log, e)
  /\ IF waiting # <<>>
     THEN /\ waiting' = Tail(waiting)
          /\ at' = [at EXCEPT ![Head(waiting)] = "woken"]
          /\ inbox' = [inbox EXCEPT ![Head(waiting)] = e]
          /\ UNCHANGED queue
     ELSE /\ queue' = Append(queue, e)
          /\ UNCHANGED <<waiting, at, inbox>>
  /\ UNCHANGED <<received, ended>>

\* Mutant: only the first waiter is told.
EndOne(r) ==
  /\ done' = TRUE
  /\ ended' = TRUE
  /\ IF r # Pending THEN Resolve(r) ELSE UNCHANGED result
  /\ waiting' = IF waiting = <<>> THEN <<>> ELSE Tail(waiting)
  /\ at' = [c \in Consumers |-> IF waiting # <<>> /\ Head(waiting) = c THEN "woken" ELSE at[c]]
  /\ UNCHANGED <<queue, inbox, received, log>>

\* end(): every waiter is woken without a value.
End(r) ==
  /\ done' = TRUE
  /\ ended' = TRUE
  /\ IF r # Pending THEN Resolve(r) ELSE UNCHANGED result
  /\ waiting' = <<>>
  /\ at' = [c \in Consumers |->
              IF \E i \in 1 .. Len(waiting) : waiting[i] = c THEN "woken" ELSE at[c]]
  /\ UNCHANGED <<queue, inbox, received, log>>

-----------------------------------------------------------------------------
\* Mutant: pop() instead of shift().
TakeNewest(c) ==
  /\ at[c] = "ready"
  /\ queue # <<>>
  /\ received' = [received EXCEPT ![c] = Append(@, queue[Len(queue)])]
  /\ queue' = SubSeq(queue, 1, Len(queue) - 1)
  /\ UNCHANGED <<waiting, done, result, at, inbox, log, ended>>

\* The loop of [Symbol.asyncIterator]().
Take(c) ==
  /\ at[c] = "ready"
  /\ queue # <<>>
  /\ received' = [received EXCEPT ![c] = Append(@, Head(queue))]
  /\ queue' = Tail(queue)
  /\ UNCHANGED <<waiting, done, result, at, inbox, log, ended>>

Finish(c) ==
  /\ at[c] = "ready"
  /\ queue = <<>> /\ done
  /\ at' = [at EXCEPT ![c] = "returned"]
  /\ UNCHANGED <<streamVars, inbox, received>>

Sleep(c) ==
  /\ at[c] = "ready"
  /\ queue = <<>> /\ ~done
  /\ waiting' = Append(waiting, c)
  /\ at' = [at EXCEPT ![c] = "waiting"]
  /\ UNCHANGED <<queue, done, result, inbox, received, log, ended>>

\* The awaited resolver was called: with an event, or by end().
Wake(c) ==
  /\ at[c] = "woken"
  /\ IF inbox[c] = Pending
     THEN /\ at' = [at EXCEPT ![c] = "returned"]
          /\ UNCHANGED received
     ELSE /\ at' = [at EXCEPT ![c] = "ready"]
          /\ received' = [received EXCEPT ![c] = Append(@, inbox[c])]
  /\ inbox' = [inbox EXCEPT ![c] = Pending]
  /\ UNCHANGED streamVars

\* The consumer leaves its for-await loop at an event (break, return, throw).
Leave(c) ==
  /\ at[c] = "ready"
  /\ received[c] # <<>>
  /\ at' = [at EXCEPT ![c] = "returned"]
  /\ UNCHANGED <<streamVars, inbox, received>>

ConsumerStep(c) == Take(c) \/ Finish(c) \/ Sleep(c) \/ Wake(c)

Produce ==
  \/ /\ Len(log) < MaxEvents
     /\ \E final \in BOOLEAN : Push([n |-> Len(log) + 1, final |-> final])
  \/ \E r \in {Pending, Given} : End(r)

Next == Produce \/ \E c \in Consumers : ConsumerStep(c) \/ Leave(c)

Spec == Init /\ [][Next]_vars

\* The continuation of an await that was resolved runs; producers may stop.
FairSpec == Spec /\ \A c \in Consumers : WF_vars(ConsumerStep(c))

-----------------------------------------------------------------------------
(* Properties.                                                             *)

States == {"ready", "waiting", "woken", "returned"}

\* Every variable of the stream has a value of its type.
TypeOK ==
  /\ queue \in Seq(Event) /\ waiting \in Seq(Consumers) /\ done \in BOOLEAN
  /\ result \in Event /\ log \in Seq(Event) /\ ended \in BOOLEAN
  /\ at \in [Consumers -> States]
  /\ inbox \in [Consumers -> Event] /\ received \in [Consumers -> Seq(Event)]

\* No consumer sleeps beside an event it could have: the test of the queue
\* and the registration of the resolver cannot be separated by a push.
NobodySleepsBesideAnEvent == waiting # <<>> => queue = <<>>

\* The queue is what is left of the accepted events, in their order, and
\* everything before it has been handed to a consumer.
QueueIsTheRest ==
  \A i \in 1 .. Len(queue) : queue[i] = log[Len(log) - Len(queue) + i]

\* Events that have left the queue, or never went through it.
Handed == Len(log) - Len(queue)

\* The numbers of the events a consumer was given or has been woken with.
GivenTo == [c \in Consumers |-> {received[c][i].n : i \in 1 .. Len(received[c])}
                                  \union ({inbox[c].n} \ {0})]

\* Every event that left the queue was given to exactly one consumer: none is
\* lost between the resolver and the await, none is yielded to two.
EachEventOnce ==
  /\ \A n \in 1 .. Handed : \E c \in Consumers : n \in GivenTo[c]
  /\ \A c \in Consumers : GivenTo[c] \subseteq 1 .. Handed
  /\ \A c, d \in Consumers : c # d => GivenTo[c] \intersect GivenTo[d] = {}

\* A consumer is given events in the order in which they were pushed, with
\* the one in flight before those it takes from the queue later.
GivenInOrder ==
  \A c \in Consumers :
    /\ \A i, j \in 1 .. Len(received[c]) : i < j => received[c][i].n < received[c][j].n
    /\ inbox[c] # Pending =>
         \A i \in 1 .. Len(received[c]) : received[c][i].n < inbox[c].n

\* Nothing is accepted after a final event, which is what result() yields.
FinalEventIsTheResult ==
  \A i \in 1 .. Len(log) : log[i].final => i = Len(log) /\ result = log[i]

\* The resolvers in "waiting" are those of the sleeping consumers, one each;
\* only a woken consumer has an event in flight.
WaitersSleep ==
  /\ \A i \in 1 .. Len(waiting) : at[waiting[i]] = "waiting"
  /\ \A i, j \in 1 .. Len(waiting) : waiting[i] = waiting[j] => i = j
  /\ \A c \in Consumers : inbox[c] # Pending => at[c] = "woken"

\* The events are numbered in the order of the log, also those c was given,
\* and a stream that is not done has accepted no final one.
Numbered ==
  /\ Len(queue) <= Len(log)
  /\ \A i \in 1 .. Len(log) : log[i].n = i
  /\ \A c \in Consumers : inbox[c] # Pending => inbox[c].n \in 1 .. Handed
  /\ \A c \in Consumers : \A i \in 1 .. Len(received[c]) :
       received[c][i].n \in 1 .. Handed
  /\ ~done => result = Pending /\ \A i \in 1 .. Len(log) : ~log[i].final

\* The inductive invariant.
StreamInv == /\ TypeOK
        /\ WaitersSleep
        /\ NobodySleepsBesideAnEvent
        /\ QueueIsTheRest
        /\ Numbered
        /\ EachEventOnce
        /\ GivenInOrder
        /\ FinalEventIsTheResult

\* Once end() was called every iterator comes to its end.
IteratorsReturn == \A c \in Consumers : ended ~> at[c] = "returned"
=============================================================================
