------------------------------ MODULE Mailbox -------------------------------
(***************************************************************************)
(* What an agent promises about the messages submitted to it, whatever its *)
(* loop, its queues and its tools do: messages of one lane (prompts,       *)
(* steering messages, follow-ups) enter the transcript in the order they   *)
(* were accepted, each at most once, and one that is not delivered is      *)
(* waiting or was dropped: by the application, which cleared its queue or  *)
(* reset the agent, or by the failure of the run that had taken it.        *)
(***************************************************************************)
EXTENDS Naturals, Sequences

CONSTANTS
  Lanes,
  Direct      \* the lanes without a queue: a run takes their messages at once

VARIABLES
  given,      \* messages accepted so far; they are numbered in that order
  queued,     \* per lane, the messages no run has taken
  taken,      \* per lane, those a run has taken and not delivered
  delivered,  \* user messages of the transcript
  dropped,    \* messages that will not be delivered
  failing     \* the run has failed, and reports it

Content(s) == {s[i] : i \in 1 .. Len(s)}
Nothing == [lane \in Lanes |-> <<>>]

Init ==
  /\ given = 0
  /\ queued = Nothing /\ taken = Nothing
  /\ delivered = <<>> /\ dropped = {}
  /\ failing = FALSE

Accept(lane) ==
  /\ given' = given + 1
  /\ IF lane \in Direct
     THEN /\ taken' = [taken EXCEPT ![lane] = Append(@, given + 1)]
          /\ UNCHANGED queued
     ELSE /\ queued' = [queued EXCEPT ![lane] = Append(@, given + 1)]
          /\ UNCHANGED taken
  /\ UNCHANGED <<delivered, dropped, failing>>

\* A run takes the oldest of a queue, one or more of them.
Take(lane) ==
  \E n \in 1 .. Len(queued[lane]) :
    /\ taken' = [taken EXCEPT ![lane] = @ \o SubSeq(queued[lane], 1, n)]
    /\ queued' = [queued EXCEPT ![lane] = SubSeq(@, n + 1, Len(@))]
    /\ UNCHANGED <<given, delivered, dropped, failing>>

Deliver(lane) ==
  /\ taken[lane] # <<>>
  /\ delivered' = Append(delivered, [lane |-> lane, id |-> Head(taken[lane])])
  /\ taken' = [taken EXCEPT ![lane] = Tail(@)]
  /\ UNCHANGED <<given, queued, dropped, failing>>

\* The application clears a queue.
Clear(lane) ==
  /\ queued' = [queued EXCEPT ![lane] = <<>>]
  /\ dropped' = dropped \union Content(queued[lane])
  /\ UNCHANGED <<given, taken, delivered, failing>>

\* It resets the agent: what a run has taken stays.
Reset ==
  /\ queued' = Nothing
  /\ dropped' = dropped \union UNION {Content(queued[lane]) : lane \in Lanes}
  /\ delivered' = <<>>
  /\ UNCHANGED <<given, taken, failing>>

\* The run fails, once, and with it goes what it had taken.
Fail ==
  /\ ~failing /\ failing' = TRUE
  /\ taken' = Nothing
  /\ dropped' = dropped \union UNION {Content(taken[lane]) : lane \in Lanes}
  /\ UNCHANGED <<given, queued, delivered>>

Reported ==
  /\ failing /\ failing' = FALSE
  /\ UNCHANGED <<given, queued, taken, delivered, dropped>>

Next ==
  \/ \E lane \in Lanes : Accept(lane) \/ Take(lane) \/ Deliver(lane) \/ Clear(lane)
  \/ Reset \/ Fail \/ Reported

vars == <<given, queued, taken, delivered, dropped, failing>>

Spec == Init /\ [][Next]_vars
=============================================================================
