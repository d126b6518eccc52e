------------------------- MODULE FileMutationQueue --------------------------
(***************************************************************************)
(* withFileMutationQueue of packages/coding-agent/src/core/tools: the edit *)
(* and write tools of a parallel batch take turns on each file.  Calls     *)
(* register one after the other (registrationQueue); a registration asks   *)
(* the file system for the real path of the file, which is its key, and    *)
(* chains the call behind the last one of that key.                        *)
(***************************************************************************)
EXTENDS Naturals

CONSTANTS
  Ops,          \* the calls of withFileMutationQueue
  Paths,        \* the absolute paths tools are called with
  RealPath,     \* RealPath[p]: p with its symbolic links resolved
  NoOp

ASSUME QueueAssumption ==
  /\ NoOp \notin Ops
  /\ RealPath \in [Paths -> Paths]

VARIABLES
  pc,            \* where each call is
  path,          \* the path it was called with
  number,        \* its place in registrationQueue
  key,           \* the key of each registered call
  ahead,         \* the call whose end it waits for (currentQueue)
  queues,        \* fileMutationQueues: the last call of each key
  present,       \* the files that exist, named by their real paths
  count          \* the next place in registrationQueue

queueVars == <<pc, path, number, key, ahead, queues, present, count>>

Registering == {o \in Ops : pc[o] \in {"calling", "found"}}
Active      == {o \in Ops : pc[o] \in {"waiting", "running"}}
Over        == {o \in Ops : pc[o] \in {"returned", "threw"}}

-----------------------------------------------------------------------------
Goto(o, l) == pc' = [pc EXCEPT ![o] = l]

\* withFileMutationQueue(path, fn) takes its place in registrationQueue.
Call(o, p) ==
  /\ pc[o] = "new"
  /\ Goto(o, "calling")
  /\ path' = [path EXCEPT ![o] = p]
  /\ number' = [number EXCEPT ![o] = count]
  /\ count' = count + 1
  /\ UNCHANGED <<key, ahead, queues, present>>

\* Every registration before o's has settled, one way or the other.
Turn(o) == pc[o] = "calling" /\ \A r \in Registering : number[o] <= number[r]

\* getMutationQueueKey: the file system resolves the path, or does not know
\* the file and the path itself is the key.
Lookup(o) ==
  /\ Turn(o)
  /\ key' = [key EXCEPT ![o] = IF RealPath[path[o]] \in present
                               THEN RealPath[path[o]] ELSE path[o]]
  /\ Goto(o, "found")
  /\ UNCHANGED <<path, number, ahead, queues, present, count>>

\* realpath fails otherwise: the call throws, the next registration goes on.
LookupFails(o) ==
  /\ Turn(o)
  /\ Goto(o, "threw")
  /\ UNCHANGED <<path, number, key, ahead, queues, present, count>>

\* The rest of the registration: the call is chained behind its key's last.
Register(o) ==
  /\ pc[o] = "found"
  /\ ahead' = [ahead EXCEPT ![o] = queues[key[o]]]
  /\ queues' = [queues EXCEPT ![key[o]] = o]
  /\ Goto(o, "waiting")
  /\ UNCHANGED <<path, number, key, present, count>>

\* Mutant: releaseNext is not called when fn() throws.
ReleasedByReturn(o) == ahead[o] \in {NoOp} \union {r \in Ops : pc[r] = "returned"}

\* currentQueue has resolved.
Released(o) == ahead[o] \in {NoOp} \union Over

\* fn() is called.
Run(o) ==
  /\ pc[o] = "waiting"
  /\ Released(o)
  /\ Goto(o, "running")
  /\ UNCHANGED <<path, number, key, ahead, queues, present, count>>

\* fn() creates the file; edits of a file that exists change nothing here.
Create(o) ==
  /\ pc[o] = "running"
  /\ present' = present \union {RealPath[path[o]]}
  /\ UNCHANGED <<pc, path, number, key, ahead, queues, count>>

\* Mutant: the entry of the key is deleted whoever is last in its queue.
Deleted(o) == [queues EXCEPT ![key[o]] = NoOp]

\* The last call of a key deletes its entry.
Without(o) == IF queues[key[o]] = o THEN [queues EXCEPT ![key[o]] = NoOp] ELSE queues

\* fn() returns or throws, and the finally block calls releaseNext.
FinishCall(o) ==
  /\ pc[o] = "running"
  /\ \E outcome \in {"returned", "threw"} : Goto(o, outcome)
  /\ queues' = Without(o)
  /\ UNCHANGED <<path, number, key, ahead, present, count>>

\* Something else, the bash tool say, removes a file.
Remove(f) ==
  /\ f \in present
  /\ present' = present \ {f}
  /\ UNCHANGED <<pc, path, number, key, ahead, queues, count>>

-----------------------------------------------------------------------------
FileInit ==
  /\ pc = [o \in Ops |-> "new"]
  /\ path \in [Ops -> Paths]
  /\ number = [o \in Ops |-> 0]
  /\ key = path
  /\ ahead = [o \in Ops |-> NoOp]
  /\ queues = [p \in Paths |-> NoOp]
  /\ present \in SUBSET {RealPath[p] : p \in Paths}
  /\ count = 1

Progress(o) == Lookup(o) \/ LookupFails(o) \/ Register(o) \/ Run(o) \/ FinishCall(o)

FileNext ==
  \/ \E o \in Ops : Progress(o) \/ Create(o) \/ \E p \in Paths : Call(o, p)
  \/ \E f \in Paths : Remove(f)

FileSpec == FileInit /\ [][FileNext]_queueVars

\* The event loop runs what is ready, the file system answers, tools return.
FairFileSpec == FileSpec /\ \A o \in Ops : WF_queueVars(Progress(o))

-----------------------------------------------------------------------------
(* Properties.                                                             *)

\* Every variable has a value of its type.
FileTypeOK ==
  /\ pc \in [Ops -> {"new", "calling", "found", "waiting", "running", "returned", "threw"}]
  /\ path \in [Ops -> Paths]
  /\ number \in [Ops -> Nat]
  /\ key \in [Ops -> Paths]
  /\ ahead \in [Ops -> Ops \union {NoOp}]
  /\ queues \in [Paths -> Ops \union {NoOp}]
  /\ present \subseteq Paths
  /\ count \in Nat

\* A call runs only when every call made before it that has its key is over:
\* they never overlap, and they are applied in the order the tools made them.
InOrder ==
  \A o, r \in Ops :
    pc[o] = "running" /\ pc[r] # "new" /\ key[r] = key[o] /\ number[r] < number[o]
    => r \in Over

\* The map holds the last call of every key that has one and nothing else:
\* the queue of a key is never forgotten while calls wait in it, and no entry
\* outlives its last call.
MapIsTheTails ==
  \A p \in Paths :
    /\ queues[p] = NoOp <=> \A o \in Active : key[o] # p
    /\ queues[p] # NoOp =>
         /\ queues[p] \in Active /\ key[queues[p]] = p
         /\ \A o \in Active : key[o] = p => number[o] <= number[queues[p]]

\* No two calls change one file at the same time (it holds when no path goes
\* through a symbolic link): withFileMutationQueue is to "serialize file mutation operations targeting the same file".
OneRunsPerFile ==
  \A o, r \in Ops :
    pc[o] = "running" /\ pc[r] = "running" /\ RealPath[path[o]] = RealPath[path[r]]
    => o = r

\* Every call of withFileMutationQueue settles, whatever the calls before it
\* threw.
CallsReturn == \A o \in Ops : pc[o] = "calling" ~> o \in Over

-----------------------------------------------------------------------------
(* The inductive invariant.                                                *)

\* Places are taken in order and registrations settle in that order.
Chain ==
  /\ \A o \in Ops : number[o] < count
  /\ \A o, r \in Ops : pc[o] # "new" /\ pc[r] # "new" /\ number[o] = number[r] => o = r
  /\ \A o, r \in Registering : pc[o] = "found" => number[o] <= number[r]
  /\ \A o \in Active, r \in Registering : number[o] < number[r]

\* A call that has an active one before it in its key's queue waits for such
\* a call, the last of them; a call that runs waits for none.
Links ==
  /\ \A o \in Ops : pc[o] = "running" => Released(o)
  /\ \A o, r \in Active :
       key[o] = key[r] /\ number[r] < number[o] =>
         ahead[o] \in Active /\ key[ahead[o]] = key[o] /\ number[r] <= number[ahead[o]]

IInv == FileTypeOK /\ Chain /\ MapIsTheTails /\ Links
=============================================================================
