------------------------- MODULE FileLocks_proofs ---------------------------
(***************************************************************************)
(* Of the two parts that keep writers of one file apart: the queue of the  *)
(* file tools (FileMutationQueue.tla), for every set of calls and paths    *)
(* and every layout of symbolic links, and the lock around auth.json       *)
(* (Credentials.tla), for any number of processes, calls, providers,       *)
(* logins, rotations and faults.  The two share nothing.                   *)
(***************************************************************************)
EXTENDS FileMutationQueue, Credentials, TLAPS

-----------------------------------------------------------------------------
(* withFileMutationQueue.                                                  *)

LEMMA FileTypeStep == FileTypeOK /\ [FileNext]_queueVars => FileTypeOK'
<1> SUFFICES ASSUME FileTypeOK, [FileNext]_queueVars PROVE FileTypeOK'
  OBVIOUS
<1> USE QueueAssumption DEF FileTypeOK
<1>1. ASSUME NEW o \in Ops, NEW p \in Paths, Call(o, p) PROVE FileTypeOK'
  BY <1>1 DEF Call, Goto
<1>2. ASSUME NEW o \in Ops, Lookup(o) PROVE FileTypeOK'
  BY <1>2 DEF Lookup, Goto
<1>3. ASSUME NEW o \in Ops, LookupFails(o) PROVE FileTypeOK'
  BY <1>3 DEF LookupFails, Goto
<1>4. ASSUME NEW o \in Ops, Register(o) PROVE FileTypeOK'
  BY <1>4 DEF Register, Goto
<1>5. ASSUME NEW o \in Ops, Run(o) PROVE FileTypeOK'
  BY <1>5 DEF Run, Goto
<1>6. ASSUME NEW o \in Ops, Create(o) PROVE FileTypeOK'
  BY <1>6 DEF Create
<1>7. ASSUME NEW o \in Ops, FinishCall(o) PROVE FileTypeOK'
  BY <1>7 DEF FinishCall, Goto, Without
<1>8. ASSUME NEW f \in Paths, Remove(f) PROVE FileTypeOK'
  BY <1>8 DEF Remove
<1>9. CASE UNCHANGED queueVars
  BY <1>9 DEF queueVars
<1> QED
  BY <1>1, <1>2, <1>3, <1>4, <1>5, <1>6, <1>7, <1>8, <1>9 DEF FileNext, Progress

\* A call that runs is the first of its key: the one before it is over, so
\* the calls before that one are.
LEMMA RunningIsFirst ==
  ASSUME IInv, NEW o \in Ops, pc[o] = "running", NEW r \in Active, key[r] = key[o]
  PROVE  number[o] <= number[r]
<1>1. o \in Active /\ r \in Ops
  BY DEF Active
<1>2. ahead[o] \notin Active
  BY QueueAssumption DEF IInv, Links, Released, Over, Active
<1>3. ~(number[r] < number[o])
  BY <1>1, <1>2 DEF IInv, Links
<1> QED
  BY <1>1, <1>3 DEF IInv, FileTypeOK

\* Steps that move a call among its stages before and after the queue.
LEMMA ChainStep == IInv /\ [FileNext]_queueVars => Chain'
<1> SUFFICES ASSUME IInv, [FileNext]_queueVars PROVE Chain'
  OBVIOUS
<1> USE QueueAssumption DEF IInv, FileTypeOK, Chain, Active, Registering, Goto
<1>1. ASSUME NEW o \in Ops, NEW p \in Paths, Call(o, p) PROVE Chain'
  BY <1>1 DEF Call
<1>2. ASSUME NEW o \in Ops, Lookup(o) PROVE Chain'
  BY <1>2 DEF Lookup, Turn
<1>3. ASSUME NEW o \in Ops, LookupFails(o) PROVE Chain'
  BY <1>3 DEF LookupFails, Turn
<1>4. ASSUME NEW o \in Ops, Register(o) PROVE Chain'
  <2>1. /\ Registering' = Registering \ {o} /\ o \in Registering /\ pc[o] = "found"
        /\ Active' = Active \union {o}
        /\ number' = number /\ count' = count
        /\ \A r \in Ops : pc'[r] = IF r = o THEN "waiting" ELSE pc[r]
    BY <1>4 DEF Register
  <2>2. \A r \in Registering' : number[o] < number[r]
    <3> SUFFICES ASSUME NEW r \in Registering' PROVE number[o] < number[r]
      OBVIOUS
    <3>1. r \in Ops /\ r # o /\ number[o] <= number[r]
      BY <2>1
    <3>2. number[o] # number[r]
      BY <2>1, <3>1
    <3> QED
      BY <3>1, <3>2
  <2>3. \A x, r \in Registering' : pc'[x] = "found" => number'[x] <= number'[r]
    BY <2>1
  <2> HIDE DEF Active, Registering
  <2>4. \A x \in Active', r \in Registering' : number'[x] < number'[r]
    BY <2>1, <2>2
  <2>5. \A x, r \in Ops :
          pc'[x] # "new" /\ pc'[r] # "new" /\ number'[x] = number'[r] => x = r
    BY <2>1
  <2> QED
    BY <2>1, <2>3, <2>4, <2>5
<1>5. ASSUME NEW o \in Ops, Run(o) PROVE Chain'
  BY <1>5 DEF Run
<1>6. ASSUME NEW o \in Ops, Create(o) PROVE Chain'
  BY <1>6 DEF Create
<1>7. ASSUME NEW o \in Ops, FinishCall(o) PROVE Chain'
  BY <1>7 DEF FinishCall
<1>8. ASSUME NEW f \in Paths, Remove(f) PROVE Chain'
  BY <1>8 DEF Remove
<1>9. CASE UNCHANGED queueVars
  BY <1>9 DEF queueVars
<1> QED
  BY <1>1, <1>2, <1>3, <1>4, <1>5, <1>6, <1>7, <1>8, <1>9 DEF FileNext, Progress

\* What the map and the links speak of, unchanged.
LEMMA SameQueues ==
  ASSUME IInv, Active' = Active, UNCHANGED <<ahead, queues>>, Over \subseteq Over',
         \A o \in Active : key'[o] = key[o] /\ number'[o] = number[o],
         \A o \in Ops : pc'[o] = "running" => pc[o] = "running" \/ Released(o)
  PROVE  MapIsTheTails' /\ Links'
<1>1. Active \subseteq Ops
  BY DEF Active
<1>2. MapIsTheTails'
  BY <1>1 DEF IInv, MapIsTheTails
<1>3. \A o \in Ops : pc'[o] = "running" => Released(o)'
  BY DEF IInv, Links, Released
<1>4. Links'
  BY <1>1, <1>3 DEF IInv, Links
<1> QED
  BY <1>2, <1>4

LEMMA RegisterStep ==
  ASSUME IInv, NEW o \in Ops, Register(o)
  PROVE  MapIsTheTails' /\ Links'
<1>1. /\ Active' = Active \union {o} /\ o \notin Active
      /\ key' = key /\ number' = number
      /\ queues' = [queues EXCEPT ![key[o]] = o]
      /\ ahead' = [ahead EXCEPT ![o] = queues[key[o]]]
      /\ \A r \in Ops : r # o => pc'[r] = pc[r]
      /\ pc'[o] = "waiting"
  BY DEF Register, Goto, Active, IInv, FileTypeOK
<1>2. key[o] \in Paths /\ o # NoOp
  BY QueueAssumption DEF IInv, FileTypeOK
<1>3. \A r \in Active : r \in Ops /\ number[r] < number[o]
  BY DEF Register, IInv, Chain, Active, Registering
<1>4. \A p \in Paths : queues'[p] = IF p = key[o] THEN o ELSE queues[p]
  BY <1>1 DEF IInv, FileTypeOK
<1>5. \A r \in Ops : ahead'[r] = IF r = o THEN queues[key[o]] ELSE ahead[r]
  BY <1>1 DEF IInv, FileTypeOK
<1>6. number \in [Ops -> Nat]
  BY DEF IInv, FileTypeOK
<1>7. MapIsTheTails'
  <2> SUFFICES ASSUME NEW p \in Paths
               PROVE  /\ queues'[p] = NoOp <=> \A r \in Active' : key[r] # p
                      /\ queues'[p] # NoOp =>
                           /\ queues'[p] \in Active' /\ key[queues'[p]] = p
                           /\ \A r \in Active' : key[r] = p => number[r] <= number[queues'[p]]
    BY <1>1 DEF MapIsTheTails
  <2>1. CASE p = key[o]
    BY <2>1, <1>1, <1>2, <1>3, <1>4, <1>6
  <2>2. CASE p # key[o]
    BY <2>2, <1>1, <1>4 DEF IInv, MapIsTheTails
  <2> QED
    BY <2>1, <2>2
<1>8. \A r \in Ops : pc'[r] = "running" => Released(r)'
  <2> SUFFICES ASSUME NEW r \in Ops, pc'[r] = "running" PROVE Released(r)'
    OBVIOUS
  <2>1. r # o /\ ahead'[r] = ahead[r] /\ ahead[r] \in {NoOp} \union Over
    BY <1>1, <1>5 DEF IInv, Links, Released
  <2>2. Over \subseteq Over'
    BY <1>1 DEF Over, Register
  <2> QED
    BY <2>1, <2>2 DEF Released
<1>9. ASSUME NEW x \in Active', NEW r \in Active', key[x] = key[r], number[r] < number[x]
      PROVE  ahead'[x] \in Active' /\ key[ahead'[x]] = key[x] /\ number[r] <= number[ahead'[x]]
  <2>1. r # o /\ r \in Active
    BY <1>9, <1>1, <1>3, <1>6
  <2>2. CASE x = o
    <3>1. queues[key[o]] # NoOp
      BY <2>1, <2>2, <1>9, <1>2 DEF IInv, MapIsTheTails
    <3> QED
      BY <3>1, <2>1, <2>2, <1>9, <1>1, <1>2, <1>5 DEF IInv, MapIsTheTails
  <2>3. CASE x # o
    BY <2>1, <2>3, <1>9, <1>1, <1>5, <1>3 DEF IInv, Links
  <2> QED
    BY <2>2, <2>3
<1> QED
  BY <1>1, <1>7, <1>8, <1>9 DEF Links

LEMMA FinishStep ==
  ASSUME IInv, NEW o \in Ops, FinishCall(o)
  PROVE  MapIsTheTails' /\ Links'
<1>1. /\ Active' = Active \ {o} /\ o \in Active /\ Over' = Over \union {o}
      /\ key' = key /\ number' = number /\ ahead' = ahead
      /\ queues' = Without(o)
      /\ pc[o] = "running"
      /\ \A r \in Ops : pc'[r] = "running" => pc[r] = "running"
  BY DEF FinishCall, Goto, Active, Over, IInv, FileTypeOK
<1>2. key[o] \in Paths /\ o # NoOp /\ number \in [Ops -> Nat] /\ Active \subseteq Ops
  BY QueueAssumption DEF IInv, FileTypeOK, Active
<1>3. \A r \in Active : key[r] = key[o] => number[o] <= number[r]
  BY <1>1, RunningIsFirst
<1>4. \A r \in Active : number[r] = number[o] => r = o
  BY <1>1, <1>2 DEF IInv, Chain, Active
<1>5. MapIsTheTails'
  <2> SUFFICES ASSUME NEW p \in Paths
               PROVE  /\ queues'[p] = NoOp <=> \A r \in Active' : key[r] # p
                      /\ queues'[p] # NoOp =>
                           /\ queues'[p] \in Active' /\ key[queues'[p]] = p
                           /\ \A r \in Active' : key[r] = p => number[r] <= number[queues'[p]]
    BY <1>1 DEF MapIsTheTails
  <2>1. /\ queues[p] = NoOp <=> \A r \in Active : key[r] # p
        /\ queues[p] # NoOp =>
             /\ queues[p] \in Active /\ key[queues[p]] = p
             /\ \A r \in Active : key[r] = p => number[r] <= number[queues[p]]
    BY DEF IInv, MapIsTheTails
  <2>2. CASE p = key[o] /\ queues[p] = o
    <3>1. queues'[p] = NoOp
      BY <2>2, <1>1, <1>2 DEF Without, IInv, FileTypeOK
    <3>2. \A r \in Active' : key[r] # p
      BY <2>1, <2>2, <1>1, <1>2, <1>3, <1>4
    <3> QED
      BY <3>1, <3>2
  <2>3. CASE p = key[o] /\ queues[p] # o
    <3>1. queues'[p] = queues[p]
      BY <2>3, <1>1 DEF Without
    <3> QED
      BY <3>1, <2>1, <2>3, <1>1, <1>2
  <2>4. CASE p # key[o]
    <3>1. queues'[p] = queues[p] /\ queues[p] # o
      BY <2>1, <2>4, <1>1, <1>2 DEF Without, IInv, FileTypeOK
    <3> QED
      BY <3>1, <2>1, <2>4, <1>1
  <2> QED
    BY <2>2, <2>3, <2>4
<1>6. \A r \in Ops : pc'[r] = "running" => Released(r)'
  BY <1>1 DEF IInv, Links, Released
<1>7. ASSUME NEW x \in Active', NEW r \in Active', key[x] = key[r], number[r] < number[x]
      PROVE  ahead[x] \in Active' /\ key[ahead[x]] = key[x] /\ number[r] <= number[ahead[x]]
  <2>1. ahead[x] \in Active /\ key[ahead[x]] = key[x] /\ number[r] <= number[ahead[x]]
    BY <1>7, <1>1 DEF IInv, Links
  <2>2. ahead[x] # o
    BY <2>1, <1>7, <1>1, <1>2, <1>3, <1>4
  <2> QED
    BY <2>1, <2>2, <1>1
<1> QED
  BY <1>1, <1>5, <1>6, <1>7 DEF Links

LEMMA QueueStep == IInv /\ [FileNext]_queueVars => MapIsTheTails' /\ Links'
<1> SUFFICES ASSUME IInv, [FileNext]_queueVars PROVE MapIsTheTails' /\ Links'
  OBVIOUS
<1> USE DEF IInv, FileTypeOK, Active, Over, Goto
<1>1. ASSUME NEW o \in Ops, NEW p \in Paths, Call(o, p) PROVE MapIsTheTails' /\ Links'
  BY <1>1, SameQueues DEF Call
<1>2. ASSUME NEW o \in Ops, Lookup(o) PROVE MapIsTheTails' /\ Links'
  BY <1>2, SameQueues DEF Lookup, Turn
<1>3. ASSUME NEW o \in Ops, LookupFails(o) PROVE MapIsTheTails' /\ Links'
  BY <1>3, SameQueues DEF LookupFails, Turn
<1>4. ASSUME NEW o \in Ops, Register(o) PROVE MapIsTheTails' /\ Links'
  BY <1>4, RegisterStep
<1>5. ASSUME NEW o \in Ops, Run(o) PROVE MapIsTheTails' /\ Links'
  BY <1>5, SameQueues DEF Run
<1>6. ASSUME NEW o \in Ops, Create(o) PROVE MapIsTheTails' /\ Links'
  BY <1>6, SameQueues DEF Create
<1>7. ASSUME NEW o \in Ops, FinishCall(o) PROVE MapIsTheTails' /\ Links'
  BY <1>7, FinishStep
<1>8. ASSUME NEW f \in Paths, Remove(f) PROVE MapIsTheTails' /\ Links'
  BY <1>8, SameQueues DEF Remove
<1>9. CASE UNCHANGED queueVars
  BY <1>9, SameQueues DEF queueVars
<1> QED
  BY <1>1, <1>2, <1>3, <1>4, <1>5, <1>6, <1>7, <1>8, <1>9 DEF FileNext, Progress

\* The inductive invariant holds for every number of calls of
\* withFileMutationQueue on any paths, while anything creates and removes
\* files between its steps.
THEOREM Invariance == FileSpec => []IInv
<1>1. FileInit => IInv
  BY QueueAssumption
  DEF FileInit, IInv, FileTypeOK, Chain, MapIsTheTails, Links, Active, Registering
<1>2. IInv /\ [FileNext]_queueVars => IInv'
  BY FileTypeStep, ChainStep, QueueStep DEF IInv
<1> QED
  BY <1>1, <1>2, PTL DEF FileSpec

\* Calls with one key run one at a time and in the order they were made,
\* although each finds its key with an await in between.
THEOREM Serialized == FileSpec => []InOrder
<1>1. IInv => InOrder
  <2> SUFFICES ASSUME IInv, NEW o \in Ops, NEW r \in Ops, pc[o] = "running",
                      pc[r] # "new", key[r] = key[o], number[r] < number[o]
               PROVE  r \in Over
    BY DEF InOrder
  <2>1. o \in Active
    BY DEF Active
  <2>2. r \notin Registering
    BY <2>1 DEF IInv, Chain, FileTypeOK
  <2>3. r \notin Active
    BY RunningIsFirst DEF IInv, FileTypeOK
  <2> QED
    BY <2>2, <2>3 DEF IInv, FileTypeOK, Registering, Active, Over
<1> QED
  BY <1>1, Invariance, PTL

\* fileMutationQueues never forgets a key with calls in its queue and never
\* keeps one without: the delete in the finally block is neither too early
\* nor missed.
THEOREM MapIsExact == FileSpec => []MapIsTheTails
<1>1. IInv => MapIsTheTails
  BY DEF IInv
<1> QED
  BY <1>1, Invariance, PTL

\* Without symbolic links no two calls change one file at the same time.
THEOREM OneWriter ==
  ASSUME \A p \in Paths : RealPath[p] = p
  PROVE  FileSpec => []OneRunsPerFile
<1> DEFINE Keyed == \A o \in Ops : pc[o] \in {"found", "waiting", "running"} => key[o] = path[o]
<1>1. FileInit => Keyed
  BY DEF FileInit
<1>2. IInv /\ Keyed /\ [FileNext]_queueVars => Keyed'
  BY QueueAssumption DEF IInv, FileTypeOK, FileNext, Progress, Call, Lookup, LookupFails, Register, Run,
     Create, FinishCall, Remove, Goto, Turn, queueVars
<1>3. IInv /\ Keyed => OneRunsPerFile
  <2> SUFFICES ASSUME IInv, Keyed, NEW o \in Ops, NEW r \in Ops, pc[o] = "running",
                      pc[r] = "running", RealPath[path[o]] = RealPath[path[r]]
               PROVE  o = r
    BY DEF OneRunsPerFile
  <2>1. key[o] = key[r] /\ o \in Active /\ r \in Active
    BY DEF Active, IInv, FileTypeOK
  <2>2. number[o] <= number[r] /\ number[r] <= number[o]
    BY <2>1, RunningIsFirst
  <2>3. number[o] = number[r]
    BY <2>2 DEF IInv, FileTypeOK
  <2> QED
    BY <2>3 DEF IInv, Chain
<1> QED
  BY <1>1, <1>2, <1>3, Invariance, PTL DEF FileSpec

-----------------------------------------------------------------------------
(* The credentials and their lock.                                         *)

(* Facts about the data, so that the steps need not expand it.             *)

LEMMA DataFacts ==
  /\ NoToken \in Token /\ NoToken.grant = 0 /\ NoToken.gen = 0
  /\ \A t \in Token : t.grant \in 0 .. MaxOrders /\ t.gen \in Nat
  /\ \A g \in 0 .. MaxOrders, n \in Nat :
       LET t == [grant |-> g, gen |-> n] IN t \in Token /\ t.grant = g /\ t.gen = n
  /\ Nothing \in Data /\ \A v \in Providers : Nothing[v] = NoToken
  /\ NoJob \in [kind : {"none", "start", "get", "login", "logout"}, of : Providers]
  /\ NoJob.kind = "none"
  /\ LET j == [NoJob EXCEPT !.kind = "start"] IN
       j \in [kind : {"none", "start", "get", "login", "logout"}, of : Providers] /\ j.kind = "start"
<1>1. (CHOOSE v \in Providers : TRUE) \in Providers
  BY AuthAssumption
<1>2. NoToken \in Token /\ NoToken.grant = 0 /\ NoToken.gen = 0
  BY AuthAssumption DEF NoToken, Token
<1>3. Nothing \in Data /\ \A v \in Providers : Nothing[v] = NoToken
  BY <1>2 DEF Nothing, Data
<1>4. \A t \in Token : t.grant \in 0 .. MaxOrders /\ t.gen \in Nat
  BY DEF Token
<1>5. \A g \in 0 .. MaxOrders, n \in Nat :
        LET t == [grant |-> g, gen |-> n] IN t \in Token /\ t.grant = g /\ t.gen = n
  BY DEF Token
<1> QED
  BY <1>1, <1>2, <1>3, <1>4, <1>5 DEF NoJob

\* What a login, a refresh or a logout makes of the data.
LEMMA MergedFacts ==
  ASSUME AuthTypeOK, NEW c \in Calls, NEW base \in Data, NEW t \in Token
  PROVE  /\ Merged(c, base, t) \in Data
         /\ job[c].of \in Providers
         /\ \A v \in Providers : Merged(c, base, t)[v] = IF v = job[c].of THEN t ELSE base[v]
  BY DEF AuthTypeOK, Merged, Data

\* What login() and logout() do under the lock.
LEMMA StoreFacts ==
  ASSUME AuthTypeOK, NEW c \in Calls, Store(c)
  PROVE  /\ orders' = orders /\ newest' = newest /\ reply' = reply /\ seen' = seen /\ job' = job
         /\ lost' = lost /\ twice' = twice /\ stolen' = stolen /\ unaware' = unaware
         /\ clobbered' = clobbered
         /\ on[c] = "wait" /\ on'[c] = "release" /\ \A d \in Calls : d # c => on'[d] = on[d]
         /\ ~Alive(lock) /\ lock' = c /\ job[c].of \in Providers
         /\ \/ /\ \A v \in Providers : file'[v] = IF v = job[c].of THEN reply[c] ELSE file[v]
               /\ file = saved => file' = saved'
               /\ closed' = closed \union ({file[job[c].of].grant} \ {reply[c].grant, 0})
            \/ file' = file /\ saved' = saved /\ closed' = closed
<1>1. job[c].of \in Providers /\ file \in Data /\ reply[c] \in Token
  BY DEF AuthTypeOK
<1>2. CASE Written(c, file, reply[c])
  <2>1. \A v \in Providers : file'[v] = IF v = job[c].of THEN reply[c] ELSE file[v]
    BY <1>1, <1>2, MergedFacts DEF Written
  <2>2. clobbered' = clobbered /\ closed' = closed \union ({file[job[c].of].grant} \ {reply[c].grant, 0})
    BY <1>2 DEF Written, Of
  <2>3. file = saved => file' = saved'
    BY <1>2 DEF Written, Merged
  <2> QED
    BY <1>1, <2>1, <2>2, <2>3 DEF Store, Lock, Lockable, GoTo, server, AuthTypeOK
<1>3. CASE WriteFails
  BY <1>1, <1>3 DEF WriteFails, Store, Lock, Lockable, GoTo, server, AuthTypeOK
<1> QED
  BY <1>2, <1>3 DEF Store

\* What the end of a refresh does.
LEMMA RefreshedFacts ==
  ASSUME AuthTypeOK, NEW c \in Calls, Refreshed(c)
  PROVE  /\ orders' = orders /\ newest' = newest /\ reply' = reply /\ seen' = seen /\ job' = job
         /\ lock' = lock /\ twice' = twice /\ stolen' = stolen /\ clobbered' = clobbered
         /\ Rotated(c) /\ on'[c] = "release" /\ \A d \in Calls : d # c => on'[d] = on[d]
         /\ job[c].of \in Providers
         /\ unaware' = (unaware \/ (lock # c /\ c \notin compromised))
         /\ \/ /\ \A v \in Providers : file'[v] = IF v = job[c].of THEN reply[c] ELSE seen[c][v]
               /\ seen[c] = saved => file' = saved'
               /\ closed' = closed \union ({file[job[c].of].grant} \ {reply[c].grant, 0})
               /\ c \notin compromised /\ lost' = lost
            \/ /\ file' = file /\ saved' = saved /\ closed' = closed
               /\ lost' = lost \union {seen[c][job[c].of]}
<1>1. job[c].of \in Providers /\ seen[c] \in Data /\ reply[c] \in Token
  BY DEF AuthTypeOK
<1>2. CASE c \notin compromised /\ Written(c, seen[c], reply[c]) /\ UNCHANGED lost
  <2>1. \A v \in Providers : file'[v] = IF v = job[c].of THEN reply[c] ELSE seen[c][v]
    BY <1>1, <1>2, MergedFacts DEF Written
  <2>2. clobbered' = clobbered /\ closed' = closed \union ({file[job[c].of].grant} \ {reply[c].grant, 0})
    BY <1>2 DEF Written, Of
  <2>3. seen[c] = saved => file' = saved'
    BY <1>2 DEF Written, Merged
  <2> QED
    BY <1>1, <1>2, <2>1, <2>2, <2>3 DEF Refreshed, Aware, GoTo, server, AuthTypeOK,
       Rotated, Refreshing
<1>3. CASE /\ IF c \in compromised THEN UNCHANGED <<fileVars, faults>> ELSE WriteFails
           /\ lost' = lost \union {Of(c, seen[c])}
  <2>1. file' = file /\ saved' = saved /\ closed' = closed /\ clobbered' = clobbered
    BY <1>3 DEF WriteFails, fileVars
  <2> QED
    BY <1>1, <1>3, <2>1 DEF Refreshed, Aware, GoTo, Of, server, AuthTypeOK, Rotated, Refreshing
<1> QED
  BY <1>2, <1>3 DEF Refreshed

\* While no lock is stolen no two calls are alive.
LEMMA OneAtATime ==
  ASSUME Exclusive, ~stolen
  PROVE  /\ \A c, d \in Calls : Alive(c) /\ Alive(d) => c = d
         /\ ~Alive(lock) => \A c \in Calls : ~Alive(c)
         /\ \A c \in Calls : Refreshing(c) => Alive(c)
  BY DEF Exclusive, Alive, Refreshing

\* The steps keep the types: a rotation is of a grant there is.
LEMMA AuthTypeStep == AuthTypeOK /\ Grants /\ [AuthNext]_authVars => AuthTypeOK'
<1> SUFFICES ASSUME AuthTypeOK, Grants, [AuthNext]_authVars PROVE AuthTypeOK'
  OBVIOUS
<1> USE DEF AuthTypeOK
<1> DEFINE Steps == {"idle", "create", "reload", "wait", "refresh", "release"}
           Jobs  == [kind : {"none", "start", "get", "login", "logout"}, of : Providers]
<1>0. \A c \in Calls : Home[c] \in Procs
  BY AuthAssumption
<1>1. ASSUME NEW c \in Calls, Start(c) PROVE AuthTypeOK'
  <2>1. up' \subseteq Procs
    BY <1>1, <1>0 DEF Start
  <2>2. job' \in [Calls -> Jobs]
    BY <1>1, DataFacts DEF Start
  <2>3. on' \in [Calls -> Steps]
    BY <1>1 DEF Start, Enter, GoTo
  <2> QED
    BY <1>1, <2>1, <2>2, <2>3 DEF Start, fileVars, server
<1>2. ASSUME NEW c \in Calls, CreateFile(c) PROVE AuthTypeOK'
  <2>1. file' \in Data /\ exists' \in BOOLEAN /\ torn' \in BOOLEAN /\ clobbered' \in BOOLEAN
    BY <1>2, DataFacts DEF CreateFile
  <2>2. on' \in [Calls -> Steps]
    BY <1>2 DEF CreateFile, GoTo
  <2> QED
    BY <1>2, <2>1, <2>2 DEF CreateFile, server
<1>3. ASSUME NEW c \in Calls, Reload(c) PROVE AuthTypeOK'
  <2>1. memory' \in [Procs -> Data] /\ lock' \in Calls \union {NoCall}
    BY <1>3, <1>0 DEF Reload
  <2>2. /\ on' \in [Calls -> Steps]
        /\ job' \in [Calls -> Jobs]
        /\ seen' \in [Calls -> Data] /\ reply' \in [Calls -> Token]
    BY <1>3, DataFacts DEF Reload, Gone
  <2> QED
    BY <1>3, <2>1, <2>2 DEF Reload, fileVars, server
<1>4. ASSUME NEW c \in Calls, NEW v \in Providers, GetAuth(c, v) PROVE AuthTypeOK'
  BY <1>4 DEF GetAuth, Enter, GoTo, fileVars, server
<1>5. ASSUME NEW c \in Calls, NEW v \in Providers, Login(c, v) PROVE AuthTypeOK'
  BY <1>5, DataFacts, AuthAssumption DEF Login, Enter, GoTo, fileVars
<1>6. ASSUME NEW c \in Calls, NEW v \in Providers, Logout(c, v) PROVE AuthTypeOK'
  BY <1>6, AuthAssumption DEF Logout, Enter, GoTo, fileVars
<1>7. ASSUME NEW c \in Calls, Busy(c) PROVE AuthTypeOK'
  BY <1>7, DataFacts DEF Busy, Gone, fileVars, server
<1>8. ASSUME NEW c \in Calls, Unreadable(c) PROVE AuthTypeOK'
  BY <1>8 DEF Unreadable, Lock, GoTo, fileVars, server
<1>9. ASSUME NEW c \in Calls, NothingToDo(c) PROVE AuthTypeOK'
  BY <1>9, <1>0 DEF NothingToDo, Lock, GoTo, fileVars, server
<1>10. ASSUME NEW c \in Calls, Refresh(c) PROVE AuthTypeOK'
  BY <1>10 DEF Refresh, Lock, GoTo, fileVars, server
<1>11. ASSUME NEW c \in Calls, Store(c) PROVE AuthTypeOK'
  <2>1. Merged(c, file, reply[c]) \in Data /\ memory' \in [Procs -> Data]
    BY <1>11, MergedFacts, <1>0 DEF Store, Remember
  <2>2. /\ exists' = exists /\ clobbered' = clobbered
        /\ torn' \in BOOLEAN /\ faults' \in Nat
        /\ file' \in Data /\ saved' \in Data /\ closed' \subseteq 1 .. MaxOrders
    <3>1. CASE Written(c, file, reply[c])
      <4>1. Of(c, file).grant \in 0 .. MaxOrders
        BY DataFacts DEF Of, Data
      <4>2. saved' \in Data
        BY <3>1 DEF Written, Data
      <4> QED
        BY <3>1, <2>1, <4>1, <4>2, DataFacts DEF Written
    <3>2. CASE WriteFails
      BY <3>2 DEF WriteFails
    <3> QED
      BY <1>11, <3>1, <3>2 DEF Store
  <2> QED
    BY <1>11, <2>1, <2>2 DEF Store, Lock, GoTo, server
<1>12. ASSUME NEW c \in Calls, Rotate(c) PROVE AuthTypeOK'
  <2>1. Of(c, seen[c]) \in Token
    BY DataFacts DEF Of, Data
  <2>2. newest' \in [0 .. MaxOrders -> Nat] /\ reply' \in [Calls -> Token]
    BY <1>12, <2>1, DataFacts DEF Rotate
  <2> QED
    BY <1>12, <2>2 DEF Rotate, fileVars
<1>13. ASSUME NEW c \in Calls, Refuse(c) PROVE AuthTypeOK'
  BY <1>13 DEF Refuse, Of, GoTo, fileVars, server, Data
<1>14. ASSUME NEW c \in Calls, RefreshFails(c) PROVE AuthTypeOK'
  BY <1>14 DEF RefreshFails, Of, GoTo, fileVars, server, Data
<1>15. ASSUME NEW c \in Calls, Refreshed(c) PROVE AuthTypeOK'
  <2>1. Merged(c, seen[c], reply[c]) \in Data /\ memory' \in [Procs -> Data]
    BY <1>15, MergedFacts, <1>0 DEF Refreshed, Remember
  <2>2. Of(c, file).grant \in 0 .. MaxOrders /\ Of(c, seen[c]) \in Token
    BY DataFacts DEF Of, Data
  <2>3. /\ exists' = exists /\ clobbered' = clobbered
        /\ torn' \in BOOLEAN /\ faults' \in Nat
        /\ file' \in Data /\ saved' \in Data /\ closed' \subseteq 1 .. MaxOrders
        /\ lost' \subseteq Token
    <3>1. CASE c \notin compromised /\ Written(c, seen[c], reply[c]) /\ UNCHANGED lost
      <4>1. saved' \in Data
        BY <3>1 DEF Written, Data
      <4> QED
        BY <3>1, <2>1, <2>2, <4>1, DataFacts DEF Written
    <3>2. CASE c \in compromised /\ UNCHANGED <<fileVars, faults>> /\ lost' = lost \union {Of(c, seen[c])}
      BY <3>2, <2>2 DEF fileVars
    <3>3. CASE WriteFails /\ lost' = lost \union {Of(c, seen[c])}
      BY <3>3, <2>2 DEF WriteFails
    <3> QED
      BY <1>15, <3>1, <3>2, <3>3 DEF Refreshed
  <2> QED
    BY <1>15, <2>1, <2>3 DEF Refreshed, Aware, GoTo, server
<1>16. ASSUME NEW c \in Calls, Release(c) PROVE AuthTypeOK'
  BY <1>16, DataFacts DEF Release, Aware, Gone, fileVars, server
<1>17. ASSUME NEW c \in Calls, Notice(c) PROVE AuthTypeOK'
  BY <1>17 DEF Notice, fileVars, callVars, server
<1>18. ASSUME NEW p \in Procs, Crash(p) PROVE AuthTypeOK'
  BY <1>18, DataFacts DEF Crash, Gone, Of, fileVars, server, Data
<1>19. ASSUME NEW g \in 1 .. MaxOrders, NEW n \in 1 .. MaxRotations,
              Expire([grant |-> g, gen |-> n])
       PROVE AuthTypeOK'
  BY <1>19, DataFacts, AuthAssumption DEF Expire, fileVars, callVars
<1>20. CASE GrowStale
  BY <1>20 DEF GrowStale, fileVars, callVars, server
<1>21. CASE UNCHANGED authVars
  BY <1>21 DEF authVars, fileVars, callVars, server
<1> QED
  BY <1>1, <1>2, <1>3, <1>4, <1>5, <1>6, <1>7, <1>8, <1>9, <1>10, <1>11, <1>12, <1>13, <1>14,
     <1>15, <1>16, <1>17, <1>18, <1>19, <1>20, <1>21 DEF AuthNext, CallStep

\* What expires is a credential.
LEMMA Expirable ==
  \A g \in 1 .. MaxOrders, n \in 1 .. MaxRotations : [grant |-> g, gen |-> n] \in Token
  BY AuthAssumption DEF Token

\* A process comes up, and goes down, with its calls.
LEMMA RestingStep == AuthTypeOK /\ Resting /\ [AuthNext]_authVars => Resting'
<1> SUFFICES ASSUME AuthTypeOK /\ Resting, [AuthNext]_authVars PROVE Resting'
  OBVIOUS
<1>1. ASSUME NEW c \in Calls, Start(c) PROVE Resting'
  BY <1>1, DataFacts DEF Start, Enter, GoTo, fileVars, server, Resting, Sync, AuthTypeOK
<1>2. ASSUME NEW c \in Calls, CreateFile(c) PROVE Resting'
  BY <1>2, DataFacts DEF CreateFile, GoTo, server, Resting, Sync, AuthTypeOK
<1>3. ASSUME NEW c \in Calls, Reload(c) PROVE Resting'
  BY <1>3, DataFacts DEF Reload, Gone, fileVars, server, Resting, Sync, AuthTypeOK
<1>4. ASSUME NEW c \in Calls, NEW v \in Providers, GetAuth(c, v) PROVE Resting'
  BY <1>4, DataFacts DEF GetAuth, Enter, GoTo, fileVars, server, Resting, Sync, AuthTypeOK
<1>5. ASSUME NEW c \in Calls, NEW v \in Providers, Login(c, v) PROVE Resting'
  BY <1>5, DataFacts DEF Login, Enter, GoTo, fileVars, Resting, Sync, AuthTypeOK
<1>6. ASSUME NEW c \in Calls, NEW v \in Providers, Logout(c, v) PROVE Resting'
  BY <1>6, DataFacts DEF Logout, Enter, GoTo, fileVars, Resting, Sync, AuthTypeOK
<1>7. ASSUME NEW c \in Calls, Busy(c) PROVE Resting'
  BY <1>7, DataFacts DEF Busy, Gone, fileVars, server, Resting, Sync, AuthTypeOK
<1>8. ASSUME NEW c \in Calls, Unreadable(c) PROVE Resting'
  BY <1>8, DataFacts DEF Unreadable, Lock, GoTo, fileVars, server, Resting, Sync, AuthTypeOK
<1>9. ASSUME NEW c \in Calls, NothingToDo(c) PROVE Resting'
  BY <1>9, DataFacts DEF NothingToDo, Lock, GoTo, fileVars, server, Resting, Sync, AuthTypeOK
<1>10. ASSUME NEW c \in Calls, Refresh(c) PROVE Resting'
  BY <1>10, DataFacts DEF Refresh, Lock, GoTo, Of, fileVars, server, Resting, Sync, AuthTypeOK
<1>11. ASSUME NEW c \in Calls, Store(c) PROVE Resting'
  BY <1>11, DataFacts DEF Store, Lock, GoTo, Written, WriteFails, server, Resting, Sync, AuthTypeOK
<1>12. ASSUME NEW c \in Calls, Rotate(c) PROVE Resting'
  BY <1>12, DataFacts DEF Rotate, fileVars, Resting, Sync, AuthTypeOK
<1>13. ASSUME NEW c \in Calls, Refuse(c) PROVE Resting'
  BY <1>13, DataFacts DEF Refuse, GoTo, fileVars, server, Resting, Sync, AuthTypeOK
<1>14. ASSUME NEW c \in Calls, RefreshFails(c) PROVE Resting'
  BY <1>14, DataFacts DEF RefreshFails, GoTo, fileVars, server, Resting, Sync, AuthTypeOK
<1>15. ASSUME NEW c \in Calls, Refreshed(c) PROVE Resting'
  BY <1>15, DataFacts DEF Refreshed, Aware, GoTo, Written, WriteFails, fileVars, server,
     Resting, Sync, AuthTypeOK
<1>16. ASSUME NEW c \in Calls, Release(c) PROVE Resting'
  BY <1>16, DataFacts DEF Release, Aware, Gone, fileVars, server, Resting, Sync, AuthTypeOK
<1>17. ASSUME NEW c \in Calls, Notice(c) PROVE Resting'
  BY <1>17, DataFacts DEF Notice, fileVars, callVars, server, Resting, Sync, AuthTypeOK
<1>18. ASSUME NEW p \in Procs, Crash(p) PROVE Resting'
  BY <1>18, DataFacts DEF Crash, Gone, fileVars, server, Resting, Sync, AuthTypeOK
<1>19. ASSUME NEW t \in Token, Expire(t) PROVE Resting'
  BY <1>19, DataFacts DEF Expire, fileVars, callVars, Resting, Sync, AuthTypeOK
<1>20. ASSUME GrowStale PROVE Resting'
  BY <1>20, DataFacts DEF GrowStale, fileVars, callVars, server, Resting, Sync, AuthTypeOK
<1>21. ASSUME UNCHANGED authVars PROVE Resting'
  BY <1>21, DataFacts DEF authVars, fileVars, callVars, server, Resting, Sync, AuthTypeOK
<1> QED
  BY <1>1, <1>2, <1>3, <1>4, <1>5, <1>6, <1>7, <1>8, <1>9, <1>10, <1>11,
     <1>12, <1>13, <1>14, <1>15, <1>16, <1>17, <1>18, <1>19, <1>20, <1>21, Expirable DEF AuthNext, CallStep

-----------------------------------------------------------------------------
(* Where the grants are.                                                   *)

\* A refresh keeps the grant; a login brings a new one.
LEMMA GrantsStep == AuthTypeOK /\ Resting /\ Grants /\ Fresh /\ [AuthNext]_authVars => Grants'
<1> SUFFICES ASSUME AuthTypeOK /\ Resting /\ Grants /\ Fresh, [AuthNext]_authVars PROVE Grants'
  OBVIOUS
<1>1. ASSUME NEW c \in Calls, Start(c) PROVE Grants'
  <2>1. /\ file' = file /\ closed' = closed /\ orders' = orders /\ newest' = newest
        /\ reply' = reply /\ seen' = seen
    BY <1>1 DEF Start, fileVars, server
  <2>2. \A d \in Calls : d # c => on'[d] = on[d] /\ job'[d] = job[d]
    BY <1>1 DEF Start, Enter, GoTo, AuthTypeOK
  <2>3. on'[c] \in {"create", "reload"} /\ job'[c].kind = "start"
    BY <1>1, DataFacts DEF Start, Enter, GoTo, AuthTypeOK
  <2>4. on[c] \notin {"refresh", "release"} /\ ~LoggingIn(c)
    BY <1>1 DEF Start, Resting, LoggingIn
  <2> QED
    BY <2>1, <2>2, <2>3, <2>4 DEF Grants, Refreshing, Rotated, LoggingIn, Distinct, Of
<1>2. ASSUME NEW c \in Calls, CreateFile(c) PROVE Grants'
  BY <1>2, DataFacts DEF CreateFile, GoTo, server, Grants, AuthTypeOK, Refreshing,
     Rotated, LoggingIn, Distinct, Of
<1>3. ASSUME NEW c \in Calls, Reload(c) PROVE Grants'
  BY <1>3, DataFacts DEF Reload, Gone, fileVars, server, Grants, AuthTypeOK, Refreshing,
     Rotated, LoggingIn, Distinct, Of
<1>4. ASSUME NEW c \in Calls, NEW v \in Providers, GetAuth(c, v) PROVE Grants'
  BY <1>4 DEF GetAuth, Enter, GoTo, fileVars, server, Grants, AuthTypeOK, Refreshing,
     Rotated, LoggingIn, Distinct, Of
<1>5. ASSUME NEW c \in Calls, NEW v \in Providers, Login(c, v) PROVE Grants'
  <2>1. file' = file /\ closed' = closed /\ seen' = seen /\ orders' = orders + 1
    BY <1>5 DEF Login, fileVars
  <2>2. \A d \in Calls : d # c => on'[d] = on[d] /\ job'[d] = job[d] /\ reply'[d] = reply[d]
    BY <1>5 DEF Login, Enter, GoTo, AuthTypeOK
  <2>3. on'[c] \in {"create", "wait"} /\ job'[c].kind = "login" /\ reply'[c].grant = orders + 1
    BY <1>5 DEF Login, Enter, GoTo, AuthTypeOK
  <2>4. newest'[0] = 0
    BY <1>5, AuthAssumption DEF Login, AuthTypeOK, Grants
  <2>5. \A n \in Nat : n <= orders => n <= orders + 1
    BY DEF AuthTypeOK
  <2>6. /\ \A v1 \in Providers : file[v1].grant \in Nat
        /\ \A g \in closed : g \in Nat
        /\ \A d \in Calls : reply[d].grant \in Nat /\ \A v1 \in Providers : seen[d][v1].grant \in Nat
    BY DataFacts, AuthAssumption DEF AuthTypeOK, Data
  <2>7. orders \in Nat
    BY DEF AuthTypeOK
  <2>8. ASSUME NEW d \in Calls, d # c
        PROVE  /\ reply'[d].grant <= orders'
               /\ on'[d] \notin {"refresh", "release"} /\ ~LoggingIn(d)' => reply'[d] = NoToken
               /\ Refreshing(d)' =>
                    /\ job'[d].kind = "get" /\ Of(d, seen[d])'.grant # 0
                    /\ Distinct(seen'[d]) /\ \A v1 \in Providers : seen'[d][v1].grant <= orders'
               /\ Rotated(d)' => reply'[d].grant = Of(d, seen[d])'.grant
    BY <2>1, <2>2, <2>5, <2>6, <2>8 DEF Grants, Refreshing, Rotated, LoggingIn, Distinct, Of
  <2>9. /\ reply'[c].grant <= orders'
        /\ LoggingIn(c)' /\ on'[c] # "refresh"
    BY <2>1, <2>3, <2>7 DEF LoggingIn
  <2>10. Distinct(file') /\ (\A v1 \in Providers : file'[v1].grant <= orders') /\ \A g \in closed' : g <= orders'
    BY <2>1, <2>5, <2>6 DEF Grants, Distinct
  <2> QED
    BY <2>4, <2>8, <2>9, <2>10 DEF Grants, Refreshing, Rotated
<1>6. ASSUME NEW c \in Calls, NEW v \in Providers, Logout(c, v) PROVE Grants'
  <2>1. /\ file' = file /\ closed' = closed /\ orders' = orders + 1 /\ newest' = newest
        /\ reply' = reply /\ seen' = seen
    BY <1>6 DEF Logout, fileVars
  <2>2. \A d \in Calls : d # c => on'[d] = on[d] /\ job'[d] = job[d]
    BY <1>6 DEF Logout, Enter, GoTo, AuthTypeOK
  <2>3. on[c] = "idle" /\ on'[c] \in {"create", "wait"} /\ job'[c].kind = "logout"
    BY <1>6 DEF Logout, Enter, GoTo, AuthTypeOK
  <2>5. \A n \in Nat : n <= orders => n <= orders + 1
    BY DEF AuthTypeOK
  <2>6. /\ \A v1 \in Providers : file[v1].grant \in Nat
        /\ \A g \in closed : g \in Nat
        /\ \A d \in Calls : reply[d].grant \in Nat /\ \A v1 \in Providers : seen[d][v1].grant \in Nat
    BY DataFacts, AuthAssumption DEF AuthTypeOK, Data
  <2> QED
    BY <2>1, <2>2, <2>3, <2>5, <2>6 DEF Grants, Refreshing, Rotated, LoggingIn, Distinct, Of
<1>7. ASSUME NEW c \in Calls, Busy(c) PROVE Grants'
  BY <1>7, DataFacts DEF Busy, Gone, fileVars, server, Grants, AuthTypeOK, Refreshing,
     Rotated, LoggingIn, Distinct, Of
<1>8. ASSUME NEW c \in Calls, Unreadable(c) PROVE Grants'
  BY <1>8 DEF Unreadable, Lock, GoTo, fileVars, server, Grants, AuthTypeOK, Refreshing,
     Rotated, LoggingIn, Distinct, Of
<1>9. ASSUME NEW c \in Calls, NothingToDo(c) PROVE Grants'
  BY <1>9 DEF NothingToDo, Lock, GoTo, fileVars, server, Grants, AuthTypeOK, Refreshing,
     Rotated, LoggingIn, Distinct, Of
<1>10. ASSUME NEW c \in Calls, Refresh(c) PROVE Grants'
  BY <1>10, DataFacts DEF Refresh, Lock, GoTo, Of, fileVars, server, Grants, AuthTypeOK,
     Refreshing, Rotated, LoggingIn, Distinct, Of
<1>11. ASSUME NEW c \in Calls, Store(c) PROVE Grants'
  <2>1. \A v \in Providers : v # job[c].of => reply[c].grant = 0 \/ file[v].grant # reply[c].grant
    <3>1. CASE LoggingIn(c)
      BY <3>1 DEF Fresh
    <3>2. CASE ~LoggingIn(c)
      BY <1>11, <3>2, StoreFacts, DataFacts DEF Grants
    <3> QED
      BY <3>1, <3>2
  <2>2. Distinct(file') /\ (\A v \in Providers : file'[v].grant <= orders) /\ \A g \in closed' : g <= orders
    BY <1>11, <2>1, StoreFacts DEF Grants, Distinct
  <2> QED
    BY <1>11, <2>2, StoreFacts DEF Grants, Refreshing, Rotated, LoggingIn, Distinct, Of
<1>12. ASSUME NEW c \in Calls, Rotate(c) PROVE Grants'
  <2> DEFINE t == Of(c, seen[c])
  <2>1. /\ file' = file /\ closed' = closed /\ orders' = orders
        /\ on' = on /\ job' = job /\ seen' = seen
    BY <1>12 DEF Rotate, fileVars
  <2>2. t \in Token /\ t.grant # 0 /\ t.grant <= orders /\ Refreshing(c)
    BY <1>12 DEF Rotate, Grants, AuthTypeOK, Of, Data, Refreshing
  <2>3. newest'[0] = 0
    BY <1>12, <2>2 DEF Rotate, Grants, AuthTypeOK
  <2>4. reply'[c].grant = t.grant /\ \A d \in Calls : d # c => reply'[d] = reply[d]
    BY <1>12 DEF Rotate, AuthTypeOK
  <2> HIDE DEF t
  <2>5. t = Of(c, seen[c])
    BY DEF t
  <2> QED
    BY <2>1, <2>2, <2>3, <2>4, <2>5 DEF Grants, Refreshing, Rotated, LoggingIn, Distinct, Of
<1>13. ASSUME NEW c \in Calls, Refuse(c) PROVE Grants'
  BY <1>13 DEF Refuse, GoTo, fileVars, server, Grants, AuthTypeOK, Refreshing, Rotated,
     LoggingIn, Distinct, Of
<1>14. ASSUME NEW c \in Calls, RefreshFails(c) PROVE Grants'
  BY <1>14 DEF RefreshFails, GoTo, fileVars, server, Grants, AuthTypeOK, Refreshing,
     Rotated, LoggingIn, Distinct, Of
<1>15. ASSUME NEW c \in Calls, Refreshed(c) PROVE Grants'
  <2>1. reply[c].grant = seen[c][job[c].of].grant /\ Refreshing(c)
    BY <1>15, RefreshedFacts DEF Grants, Of, Rotated
  <2>2. Distinct(file') /\ (\A v \in Providers : file'[v].grant <= orders) /\ \A g \in closed' : g <= orders
    BY <1>15, <2>1, RefreshedFacts DEF Grants, Distinct
  <2> QED
    BY <1>15, <2>2, RefreshedFacts DEF Grants, Refreshing, Rotated, LoggingIn, Distinct, Of
<1>16. ASSUME NEW c \in Calls, Release(c) PROVE Grants'
  BY <1>16, DataFacts DEF Release, Gone, fileVars, server, Grants, AuthTypeOK,
     Refreshing, Rotated, LoggingIn, Distinct, Of
<1>17. ASSUME NEW c \in Calls, Notice(c) PROVE Grants'
  BY <1>17 DEF Notice, fileVars, callVars, server, Grants, AuthTypeOK, Refreshing,
     Rotated, LoggingIn, Distinct, Of
<1>18. ASSUME NEW p \in Procs, Crash(p) PROVE Grants'
  BY <1>18, DataFacts DEF Crash, Gone, fileVars, server, Grants, AuthTypeOK, Refreshing,
     Rotated, LoggingIn, Distinct, Of
<1>19. ASSUME NEW t \in Token, Expire(t) PROVE Grants'
  BY <1>19 DEF Expire, fileVars, callVars, Grants, AuthTypeOK, Refreshing, Rotated,
     LoggingIn, Distinct, Of
<1>20. ASSUME GrowStale PROVE Grants'
  BY <1>20 DEF GrowStale, fileVars, callVars, server, Grants, AuthTypeOK, Refreshing,
     Rotated, LoggingIn, Distinct, Of
<1>21. ASSUME UNCHANGED authVars PROVE Grants'
  BY <1>21 DEF authVars, fileVars, callVars, server, Grants, AuthTypeOK, Refreshing,
     Rotated, LoggingIn, Distinct, Of
<1> QED
  BY <1>1, <1>2, <1>3, <1>4, <1>5, <1>6, <1>7, <1>8, <1>9, <1>10, <1>11,
     <1>12, <1>13, <1>14, <1>15, <1>16, <1>17, <1>18, <1>19, <1>20, <1>21, Expirable DEF AuthNext, CallStep

-----------------------------------------------------------------------------
(* The lock, and what it keeps.                                            *)

\* The lock is taken only when nobody alive has it.
LEMMA ExclusiveStep == AuthTypeOK /\ Resting /\ Exclusive /\ [AuthNext]_authVars => Exclusive'
<1> SUFFICES ASSUME AuthTypeOK /\ Resting /\ Exclusive, [AuthNext]_authVars PROVE Exclusive'
  OBVIOUS
<1>1. ASSUME NEW c \in Calls, Start(c) PROVE Exclusive'
  BY <1>1, DataFacts DEF Start, Enter, GoTo, fileVars, server, Exclusive, Alive,
     Lockable, Resting, AuthTypeOK
<1>2. ASSUME NEW c \in Calls, CreateFile(c) PROVE Exclusive'
  BY <1>2, DataFacts DEF CreateFile, GoTo, server, Exclusive, Alive, Lockable, Resting, AuthTypeOK
<1>3. ASSUME NEW c \in Calls, Reload(c) PROVE Exclusive'
  BY <1>3, DataFacts DEF Reload, Gone, fileVars, server, Exclusive, Alive, Lockable,
     Resting, AuthTypeOK
<1>4. ASSUME NEW c \in Calls, NEW v \in Providers, GetAuth(c, v) PROVE Exclusive'
  BY <1>4, DataFacts DEF GetAuth, Enter, GoTo, fileVars, server, Exclusive, Alive,
     Lockable, Resting, AuthTypeOK
<1>5. ASSUME NEW c \in Calls, NEW v \in Providers, Login(c, v) PROVE Exclusive'
  BY <1>5, DataFacts DEF Login, Enter, GoTo, fileVars, Exclusive, Alive, Lockable,
     Resting, AuthTypeOK
<1>6. ASSUME NEW c \in Calls, NEW v \in Providers, Logout(c, v) PROVE Exclusive'
  BY <1>6, DataFacts DEF Logout, Enter, GoTo, fileVars, Exclusive, Alive, Lockable,
     Resting, AuthTypeOK
<1>7. ASSUME NEW c \in Calls, Busy(c) PROVE Exclusive'
  BY <1>7, DataFacts DEF Busy, Gone, fileVars, server, Exclusive, Alive, Lockable,
     Resting, AuthTypeOK
<1>8. ASSUME NEW c \in Calls, Unreadable(c) PROVE Exclusive'
  BY <1>8, DataFacts DEF Unreadable, Lock, GoTo, fileVars, server, Exclusive, Alive,
     Lockable, Resting, AuthTypeOK
<1>9. ASSUME NEW c \in Calls, NothingToDo(c) PROVE Exclusive'
  BY <1>9, DataFacts DEF NothingToDo, Lock, GoTo, fileVars, server, Exclusive, Alive,
     Lockable, Resting, AuthTypeOK
<1>10. ASSUME NEW c \in Calls, Refresh(c) PROVE Exclusive'
  BY <1>10, DataFacts DEF Refresh, Lock, GoTo, Of, fileVars, server, Exclusive, Alive,
     Lockable, Resting, AuthTypeOK
<1>11. ASSUME NEW c \in Calls, Store(c) PROVE Exclusive'
  BY <1>11, DataFacts DEF Store, Lock, GoTo, Written, WriteFails, server, Exclusive,
     Alive, Lockable, Resting, AuthTypeOK
<1>12. ASSUME NEW c \in Calls, Rotate(c) PROVE Exclusive'
  BY <1>12, DataFacts DEF Rotate, fileVars, Exclusive, Alive, Lockable, Resting, AuthTypeOK
<1>13. ASSUME NEW c \in Calls, Refuse(c) PROVE Exclusive'
  BY <1>13, DataFacts DEF Refuse, GoTo, fileVars, server, Exclusive, Alive, Lockable,
     Resting, AuthTypeOK
<1>14. ASSUME NEW c \in Calls, RefreshFails(c) PROVE Exclusive'
  BY <1>14, DataFacts DEF RefreshFails, GoTo, fileVars, server, Exclusive, Alive,
     Lockable, Resting, AuthTypeOK
<1>15. ASSUME NEW c \in Calls, Refreshed(c) PROVE Exclusive'
  BY <1>15, DataFacts DEF Refreshed, Aware, GoTo, Written, WriteFails, fileVars, server,
     Exclusive, Alive, Lockable, Resting, AuthTypeOK
<1>16. ASSUME NEW c \in Calls, Release(c) PROVE Exclusive'
  BY <1>16, DataFacts DEF Release, Aware, Gone, fileVars, server, Exclusive, Alive,
     Lockable, Resting, AuthTypeOK
<1>17. ASSUME NEW c \in Calls, Notice(c) PROVE Exclusive'
  BY <1>17, DataFacts DEF Notice, fileVars, callVars, server, Exclusive, Alive, Lockable,
     Resting, AuthTypeOK
<1>18. ASSUME NEW p \in Procs, Crash(p) PROVE Exclusive'
  BY <1>18, DataFacts DEF Crash, Gone, fileVars, server, Exclusive, Alive, Lockable,
     Resting, AuthTypeOK
<1>19. ASSUME NEW t \in Token, Expire(t) PROVE Exclusive'
  BY <1>19, DataFacts DEF Expire, fileVars, callVars, Exclusive, Alive, Lockable,
     Resting, AuthTypeOK
<1>20. ASSUME GrowStale PROVE Exclusive'
  BY <1>20, DataFacts DEF GrowStale, fileVars, callVars, server, Exclusive, Alive,
     Lockable, Resting, AuthTypeOK
<1>21. ASSUME UNCHANGED authVars PROVE Exclusive'
  BY <1>21, DataFacts DEF authVars, fileVars, callVars, server, Exclusive, Alive,
     Lockable, Resting, AuthTypeOK
<1> QED
  BY <1>1, <1>2, <1>3, <1>4, <1>5, <1>6, <1>7, <1>8, <1>9, <1>10, <1>11,
     <1>12, <1>13, <1>14, <1>15, <1>16, <1>17, <1>18, <1>19, <1>20, <1>21, Expirable DEF AuthNext, CallStep

\* A login's grant is new, and stays its own until it is stored.
LEMMA FreshStep == AuthTypeOK /\ Resting /\ Grants /\ Fresh /\ [AuthNext]_authVars => Fresh'
<1> SUFFICES ASSUME AuthTypeOK /\ Resting /\ Grants /\ Fresh, [AuthNext]_authVars PROVE Fresh'
  OBVIOUS
<1>1. ASSUME NEW c \in Calls, Start(c) PROVE Fresh'
  BY <1>1, DataFacts DEF Start, Enter, GoTo, fileVars, server, Fresh, Grants, LoggingIn,
     Refreshing, Resting, AuthTypeOK
<1>2. ASSUME NEW c \in Calls, CreateFile(c) PROVE Fresh'
  BY <1>2, DataFacts DEF CreateFile, GoTo, server, Fresh, Grants, LoggingIn, Refreshing,
     Resting, AuthTypeOK
<1>3. ASSUME NEW c \in Calls, Reload(c) PROVE Fresh'
  BY <1>3, DataFacts DEF Reload, Gone, fileVars, server, Fresh, Grants, LoggingIn,
     Refreshing, Resting, AuthTypeOK
<1>4. ASSUME NEW c \in Calls, NEW v \in Providers, GetAuth(c, v) PROVE Fresh'
  BY <1>4, DataFacts DEF GetAuth, Enter, GoTo, fileVars, server, Fresh, Grants,
     LoggingIn, Refreshing, Resting, AuthTypeOK
<1>5. ASSUME NEW c \in Calls, NEW v \in Providers, Login(c, v) PROVE Fresh'
  <2>1. /\ file' = file /\ closed' = closed /\ seen' = seen /\ orders \in Nat
        /\ \A g \in 0 .. MaxOrders : g <= orders => g # orders + 1 /\ newest'[g] = newest[g]
        /\ newest'[orders + 1] = 1 /\ reply'[c].grant = orders + 1 /\ reply'[c].gen = 1
    BY <1>5, AuthAssumption DEF Login, fileVars, AuthTypeOK
  <2>2. \A d \in Calls : d # c => on'[d] = on[d] /\ job'[d] = job[d] /\ reply'[d] = reply[d]
    BY <1>5 DEF Login, Enter, GoTo, AuthTypeOK
  <2>3. on'[c] # "refresh"
    BY <1>5 DEF Login, Enter, GoTo, AuthTypeOK
  <2>4. /\ \A w \in Providers : file[w].grant # orders + 1
        /\ orders + 1 \notin closed \union {0}
        /\ \A d \in Calls : reply[d].grant # orders + 1 /\ newest'[reply[d].grant] = newest[reply[d].grant]
        /\ \A d \in Calls : Refreshing(d) => \A w \in Providers : seen[d][w].grant # orders + 1
    <3>1. /\ \A w \in Providers : file[w].grant \in 0 .. MaxOrders
          /\ closed \subseteq 0 .. MaxOrders
          /\ \A d \in Calls : reply[d].grant \in 0 .. MaxOrders /\ \A w \in Providers : seen[d][w].grant \in 0 .. MaxOrders
      BY DataFacts, AuthAssumption DEF AuthTypeOK, Data
    <3> QED
      BY <2>1, <3>1 DEF Grants
  <2> QED
    BY <2>1, <2>2, <2>3, <2>4 DEF Fresh, LoggingIn, Refreshing
<1>6. ASSUME NEW c \in Calls, NEW v \in Providers, Logout(c, v) PROVE Fresh'
  BY <1>6, DataFacts DEF Logout, Enter, GoTo, fileVars, Fresh, Grants, LoggingIn,
     Refreshing, Resting, AuthTypeOK
<1>7. ASSUME NEW c \in Calls, Busy(c) PROVE Fresh'
  BY <1>7, DataFacts DEF Busy, Gone, fileVars, server, Fresh, Grants, LoggingIn,
     Refreshing, Resting, AuthTypeOK
<1>8. ASSUME NEW c \in Calls, Unreadable(c) PROVE Fresh'
  BY <1>8, DataFacts DEF Unreadable, Lock, GoTo, fileVars, server, Fresh, Grants,
     LoggingIn, Refreshing, Resting, AuthTypeOK
<1>9. ASSUME NEW c \in Calls, NothingToDo(c) PROVE Fresh'
  BY <1>9, DataFacts DEF NothingToDo, Lock, GoTo, fileVars, server, Fresh, Grants,
     LoggingIn, Refreshing, Resting, AuthTypeOK
<1>10. ASSUME NEW c \in Calls, Refresh(c) PROVE Fresh'
  BY <1>10, DataFacts DEF Refresh, Lock, GoTo, Of, fileVars, server, Fresh, Grants,
     LoggingIn, Refreshing, Resting, AuthTypeOK
<1>11. ASSUME NEW c \in Calls, Store(c) PROVE Fresh'
  <2>1. \A d \in Calls : d # c /\ LoggingIn(d) => reply[d].grant # reply[c].grant
    <3>1. CASE LoggingIn(c)
      BY <3>1 DEF Fresh
    <3>2. CASE ~LoggingIn(c)
      BY <1>11, <3>2, StoreFacts, DataFacts DEF Grants, Fresh
    <3> QED
      BY <3>1, <3>2
  <2>2. \A d \in Calls : LoggingIn(d)' => d # c /\ LoggingIn(d)
    BY <1>11, StoreFacts DEF LoggingIn
  <2>3. \A d \in Calls : LoggingIn(d)' =>
          reply'[d].grant \notin closed' \union {0} /\ \A v \in Providers : file'[v].grant # reply'[d].grant
    BY <1>11, <2>1, <2>2, StoreFacts DEF Fresh
  <2> QED
    BY <1>11, <2>2, <2>3, StoreFacts DEF Fresh, Refreshing
<1>12. ASSUME NEW c \in Calls, Rotate(c) PROVE Fresh'
  <2>1. /\ file' = file /\ closed' = closed /\ on' = on /\ job' = job /\ seen' = seen
        /\ Refreshing(c) /\ ~LoggingIn(c) /\ job[c].of \in Providers
        /\ \A d \in Calls : d # c => reply'[d] = reply[d]
    BY <1>12 DEF Rotate, fileVars, AuthTypeOK, Refreshing, LoggingIn
  <2>2. \A g \in 0 .. MaxOrders : g # seen[c][job[c].of].grant => newest'[g] = newest[g]
    BY <1>12 DEF Rotate, Of, AuthTypeOK
  <2>3. \A d \in Calls : reply[d].grant \in 0 .. MaxOrders
    BY DataFacts DEF AuthTypeOK
  <2>4. \A d \in Calls : LoggingIn(d) => d # c /\ newest'[reply[d].grant] = newest[reply[d].grant]
    BY <2>1, <2>2, <2>3 DEF Fresh
  <2> QED
    BY <2>1, <2>4 DEF Fresh, LoggingIn, Refreshing
<1>13. ASSUME NEW c \in Calls, Refuse(c) PROVE Fresh'
  BY <1>13, DataFacts DEF Refuse, GoTo, fileVars, server, Fresh, Grants, LoggingIn,
     Refreshing, Resting, AuthTypeOK
<1>14. ASSUME NEW c \in Calls, RefreshFails(c) PROVE Fresh'
  BY <1>14, DataFacts DEF RefreshFails, GoTo, fileVars, server, Fresh, Grants, LoggingIn,
     Refreshing, Resting, AuthTypeOK
<1>15. ASSUME NEW c \in Calls, Refreshed(c) PROVE Fresh'
  <2>1. reply[c].grant = seen[c][job[c].of].grant /\ Refreshing(c)
    BY <1>15, RefreshedFacts DEF Grants, Of, Rotated
  <2>2. \A d \in Calls : LoggingIn(d)' => d # c /\ LoggingIn(d)
    BY <1>15, RefreshedFacts DEF LoggingIn
  <2>3. \A d \in Calls : LoggingIn(d)' =>
          reply'[d].grant \notin closed' \union {0} /\ \A v \in Providers : file'[v].grant # reply'[d].grant
    BY <1>15, <2>1, <2>2, RefreshedFacts DEF Fresh
  <2> QED
    BY <1>15, <2>2, <2>3, RefreshedFacts DEF Fresh, Refreshing
<1>16. ASSUME NEW c \in Calls, Release(c) PROVE Fresh'
  BY <1>16, DataFacts DEF Release, Aware, Gone, fileVars, server, Fresh, Grants,
     LoggingIn, Refreshing, Resting, AuthTypeOK
<1>17. ASSUME NEW c \in Calls, Notice(c) PROVE Fresh'
  BY <1>17, DataFacts DEF Notice, fileVars, callVars, server, Fresh, Grants, LoggingIn,
     Refreshing, Resting, AuthTypeOK
<1>18. ASSUME NEW p \in Procs, Crash(p) PROVE Fresh'
  BY <1>18, DataFacts DEF Crash, Gone, fileVars, server, Fresh, Grants, LoggingIn,
     Refreshing, Resting, AuthTypeOK
<1>19. ASSUME NEW t \in Token, Expire(t) PROVE Fresh'
  BY <1>19, DataFacts DEF Expire, fileVars, callVars, Fresh, Grants, LoggingIn,
     Refreshing, Resting, AuthTypeOK
<1>20. ASSUME GrowStale PROVE Fresh'
  BY <1>20, DataFacts DEF GrowStale, fileVars, callVars, server, Fresh, Grants,
     LoggingIn, Refreshing, Resting, AuthTypeOK
<1>21. ASSUME UNCHANGED authVars PROVE Fresh'
  BY <1>21, DataFacts DEF authVars, fileVars, callVars, server, Fresh, Grants, LoggingIn,
     Refreshing, Resting, AuthTypeOK
<1> QED
  BY <1>1, <1>2, <1>3, <1>4, <1>5, <1>6, <1>7, <1>8, <1>9, <1>10, <1>11,
     <1>12, <1>13, <1>14, <1>15, <1>16, <1>17, <1>18, <1>19, <1>20, <1>21, Expirable DEF AuthNext, CallStep

\* What is written is made from the file, unless the lock was lost.
LEMMA SavedStep == AuthTypeOK /\ Resting /\ Grants /\ Fresh /\ Saved /\ [AuthNext]_authVars => Saved'
<1> SUFFICES ASSUME AuthTypeOK /\ Resting /\ Grants /\ Fresh /\ Saved, [AuthNext]_authVars PROVE Saved'
  OBVIOUS
<1>1. ASSUME NEW c \in Calls, Start(c) PROVE Saved'
  BY <1>1, DataFacts DEF Start, Enter, GoTo, fileVars, server, Saved, Fresh, Grants,
     LoggingIn, Refreshing, Resting, AuthTypeOK
<1>2. ASSUME NEW c \in Calls, CreateFile(c) PROVE Saved'
  BY <1>2, DataFacts DEF CreateFile, GoTo, server, Saved, Fresh, Grants, LoggingIn,
     Refreshing, Resting, AuthTypeOK
<1>3. ASSUME NEW c \in Calls, Reload(c) PROVE Saved'
  BY <1>3, AuthAssumption DEF Reload, Gone, fileVars, server, Saved, Refreshing, AuthTypeOK
<1>4. ASSUME NEW c \in Calls, NEW v \in Providers, GetAuth(c, v) PROVE Saved'
  BY <1>4, DataFacts DEF GetAuth, Enter, GoTo, fileVars, server, Saved, Fresh, Grants,
     LoggingIn, Refreshing, Resting, AuthTypeOK
<1>5. ASSUME NEW c \in Calls, NEW v \in Providers, Login(c, v) PROVE Saved'
  BY <1>5, DataFacts DEF Login, Enter, GoTo, fileVars, Saved, Fresh, Grants, LoggingIn,
     Refreshing, Resting, AuthTypeOK
<1>6. ASSUME NEW c \in Calls, NEW v \in Providers, Logout(c, v) PROVE Saved'
  BY <1>6, DataFacts DEF Logout, Enter, GoTo, fileVars, Saved, Fresh, Grants, LoggingIn,
     Refreshing, Resting, AuthTypeOK
<1>7. ASSUME NEW c \in Calls, Busy(c) PROVE Saved'
  BY <1>7, DataFacts DEF Busy, Gone, fileVars, server, Saved, Fresh, Grants, LoggingIn,
     Refreshing, Resting, AuthTypeOK
<1>8. ASSUME NEW c \in Calls, Unreadable(c) PROVE Saved'
  BY <1>8, DataFacts DEF Unreadable, Lock, GoTo, fileVars, server, Saved, Fresh, Grants,
     LoggingIn, Refreshing, Resting, AuthTypeOK
<1>9. ASSUME NEW c \in Calls, NothingToDo(c) PROVE Saved'
  BY <1>9, DataFacts DEF NothingToDo, Lock, GoTo, fileVars, server, Saved, Fresh, Grants,
     LoggingIn, Refreshing, Resting, AuthTypeOK
<1>10. ASSUME NEW c \in Calls, Refresh(c) PROVE Saved'
  BY <1>10, DataFacts DEF Refresh, Lock, GoTo, Of, fileVars, server, Saved, Fresh,
     Grants, LoggingIn, Refreshing, Resting, AuthTypeOK
<1>11. ASSUME NEW c \in Calls, Store(c) PROVE Saved'
  <2>1. 0 \notin closed /\ NoToken.grant = 0
    BY DataFacts DEF AuthTypeOK
  <2>2. reply[c].grant \notin closed
    <3>1. CASE LoggingIn(c)
      BY <3>1 DEF Fresh
    <3>2. CASE ~LoggingIn(c)
      BY <1>11, <2>1, <3>2, StoreFacts DEF Grants
    <3> QED
      BY <3>1, <3>2
  <2>3. (\A v \in Providers : file[v].grant \notin closed) => \A v \in Providers : file'[v].grant \notin closed'
    BY <1>11, <2>1, <2>2, StoreFacts DEF Grants, Distinct
  <2> QED
    BY <1>11, <2>3, StoreFacts DEF Saved, Refreshing
<1>12. ASSUME NEW c \in Calls, Rotate(c) PROVE Saved'
  BY <1>12, DataFacts DEF Rotate, fileVars, Saved, Fresh, Grants, LoggingIn, Refreshing,
     Resting, AuthTypeOK
<1>13. ASSUME NEW c \in Calls, Refuse(c) PROVE Saved'
  BY <1>13, DataFacts DEF Refuse, GoTo, fileVars, server, Saved, Fresh, Grants,
     LoggingIn, Refreshing, Resting, AuthTypeOK
<1>14. ASSUME NEW c \in Calls, RefreshFails(c) PROVE Saved'
  BY <1>14, DataFacts DEF RefreshFails, GoTo, fileVars, server, Saved, Fresh, Grants,
     LoggingIn, Refreshing, Resting, AuthTypeOK
<1>15. ASSUME NEW c \in Calls, Refreshed(c) PROVE Saved'
  <2>1. reply[c].grant = seen[c][job[c].of].grant /\ Refreshing(c)
    BY <1>15, RefreshedFacts DEF Grants, Of, Rotated
  <2>2. CASE lock = c /\ seen[c] = file /\ file = saved /\ \A v \in Providers : file[v].grant \notin closed
    <3>1. file' = saved'
      BY <1>15, <2>2, RefreshedFacts
    <3>2. \A v \in Providers : file'[v].grant \notin closed'
      BY <1>15, <2>1, <2>2, RefreshedFacts
    <3> QED
      BY <1>15, <2>2, <3>1, <3>2, RefreshedFacts DEF Saved, Refreshing
  <2>3. CASE lock # c \/ unaware \/ clobbered
    BY <1>15, <2>3, RefreshedFacts DEF Saved, Refreshing
  <2> QED
    BY <2>1, <2>2, <2>3 DEF Saved
<1>16. ASSUME NEW c \in Calls, Release(c) PROVE Saved'
  BY <1>16, AuthAssumption DEF Release, Aware, Gone, fileVars, server, Saved, Refreshing, AuthTypeOK
<1>17. ASSUME NEW c \in Calls, Notice(c) PROVE Saved'
  BY <1>17, DataFacts DEF Notice, fileVars, callVars, server, Saved, Fresh, Grants,
     LoggingIn, Refreshing, Resting, AuthTypeOK
<1>18. ASSUME NEW p \in Procs, Crash(p) PROVE Saved'
  BY <1>18, DataFacts DEF Crash, Gone, fileVars, server, Saved, Fresh, Grants, LoggingIn,
     Refreshing, Resting, AuthTypeOK
<1>19. ASSUME NEW t \in Token, Expire(t) PROVE Saved'
  BY <1>19, DataFacts DEF Expire, fileVars, callVars, Saved, Fresh, Grants, LoggingIn,
     Refreshing, Resting, AuthTypeOK
<1>20. ASSUME GrowStale PROVE Saved'
  BY <1>20, AuthAssumption DEF GrowStale, fileVars, callVars, server, Saved, Refreshing, AuthTypeOK
<1>21. ASSUME UNCHANGED authVars PROVE Saved'
  BY <1>21, DataFacts DEF authVars, fileVars, callVars, server, Saved, Fresh, Grants,
     LoggingIn, Refreshing, Resting, AuthTypeOK
<1> QED
  BY <1>1, <1>2, <1>3, <1>4, <1>5, <1>6, <1>7, <1>8, <1>9, <1>10, <1>11,
     <1>12, <1>13, <1>14, <1>15, <1>16, <1>17, <1>18, <1>19, <1>20, <1>21, Expirable DEF AuthNext, CallStep

\* A rotation is by the one call that refreshes, and of what the file holds.
LEMMA RotationStep == AuthTypeOK /\ Resting /\ Grants /\ Fresh /\ Exclusive /\ Rotation /\ [AuthNext]_authVars => Rotation'
<1> SUFFICES ASSUME AuthTypeOK /\ Resting /\ Grants /\ Fresh /\ Exclusive /\ Rotation, [AuthNext]_authVars PROVE Rotation'
  OBVIOUS
<1>1. ASSUME NEW c \in Calls, Start(c) PROVE Rotation'
  BY <1>1, DataFacts DEF Start, Enter, GoTo, fileVars, server, Rotation, Rotated, Newest,
     Alive, Lockable, Exclusive, Refreshing, Resting, AuthTypeOK
<1>2. ASSUME NEW c \in Calls, CreateFile(c) PROVE Rotation'
  <2>1. Newest(NoToken)
    BY DataFacts DEF Newest, Grants
  <2>2. \A v \in Providers : file'[v] = NoToken
    BY <1>2, DataFacts DEF CreateFile
  <2> QED
    BY <1>2, <2>1, <2>2 DEF CreateFile, GoTo, server, Rotation, Rotated, Newest,
       Refreshing, AuthTypeOK
<1>3. ASSUME NEW c \in Calls, Reload(c) PROVE Rotation'
  BY <1>3, DataFacts DEF Reload, Gone, fileVars, server, Rotation, Rotated, Newest,
     Alive, Lockable, Exclusive, Refreshing, Resting, AuthTypeOK
<1>4. ASSUME NEW c \in Calls, NEW v \in Providers, GetAuth(c, v) PROVE Rotation'
  BY <1>4, DataFacts DEF GetAuth, Enter, GoTo, fileVars, server, Rotation, Rotated,
     Newest, Alive, Lockable, Exclusive, Refreshing, Resting, AuthTypeOK
<1>5. ASSUME NEW c \in Calls, NEW v \in Providers, Login(c, v) PROVE Rotation'
  <2>1. /\ file' = file /\ seen' = seen /\ stolen' = stolen /\ lost' = lost /\ twice' = twice
        /\ on[c] = "idle" /\ on'[c] # "refresh"
        /\ \A g \in 0 .. MaxOrders : g <= orders => newest'[g] = newest[g]
    BY <1>5, AuthAssumption DEF Login, Enter, GoTo, fileVars, AuthTypeOK
  <2>2. \A d \in Calls : d # c => on'[d] = on[d] /\ job'[d] = job[d] /\ reply'[d] = reply[d]
    BY <1>5 DEF Login, Enter, GoTo, AuthTypeOK
  <2>3. /\ \A w \in Providers : newest'[file[w].grant] = newest[file[w].grant]
        /\ \A d \in Calls : newest'[reply[d].grant] = newest[reply[d].grant]
        /\ \A d \in Calls : Refreshing(d) =>
             \A w \in Providers : newest'[seen[d][w].grant] = newest[seen[d][w].grant]
    <3>1. /\ \A w \in Providers : file[w].grant \in 0 .. MaxOrders
          /\ \A d \in Calls : reply[d].grant \in 0 .. MaxOrders /\ \A w \in Providers : seen[d][w].grant \in 0 .. MaxOrders
      BY DataFacts DEF AuthTypeOK, Data
    <3> QED
      BY <2>1, <3>1 DEF Grants
  <2> QED
    BY <2>1, <2>2, <2>3 DEF Rotation, Rotated, Newest, Refreshing
<1>6. ASSUME NEW c \in Calls, NEW v \in Providers, Logout(c, v) PROVE Rotation'
  BY <1>6, DataFacts DEF Logout, Enter, GoTo, fileVars, Rotation, Rotated, Newest, Alive,
     Lockable, Exclusive, Refreshing, Resting, AuthTypeOK
<1>7. ASSUME NEW c \in Calls, Busy(c) PROVE Rotation'
  BY <1>7, DataFacts DEF Busy, Gone, fileVars, server, Rotation, Rotated, Newest, Alive,
     Lockable, Exclusive, Refreshing, Resting, AuthTypeOK
<1>8. ASSUME NEW c \in Calls, Unreadable(c) PROVE Rotation'
  BY <1>8, DataFacts DEF Unreadable, Lock, GoTo, fileVars, server, Rotation, Rotated,
     Newest, Alive, Lockable, Exclusive, Refreshing, Resting, AuthTypeOK
<1>9. ASSUME NEW c \in Calls, NothingToDo(c) PROVE Rotation'
  BY <1>9, DataFacts DEF NothingToDo, Lock, GoTo, fileVars, server, Rotation, Rotated,
     Newest, Alive, Lockable, Exclusive, Refreshing, Resting, AuthTypeOK
<1>10. ASSUME NEW c \in Calls, Refresh(c) PROVE Rotation'
  <2> SUFFICES ASSUME ~stolen PROVE Rotation'
    BY <1>10 DEF Refresh, Rotation
  <2>1. /\ file' = file /\ newest' = newest /\ reply' = reply /\ lost' = lost /\ twice' = twice
        /\ seen'[c] = file /\ job' = job /\ \A d \in Calls : d # c => on'[d] = on[d]
    BY <1>10 DEF Refresh, GoTo, fileVars, server, AuthTypeOK
  <2>2. \A d \in Calls : ~Refreshing(d)
    BY <1>10, OneAtATime DEF Refresh, Lock, Lockable
  <2>3. reply[c] = NoToken
    BY <1>10 DEF Refresh, Lock, Grants, LoggingIn
  <2> QED
    BY <2>1, <2>2, <2>3 DEF Rotation, Rotated, Newest, Refreshing
<1>11. ASSUME NEW c \in Calls, Store(c) PROVE Rotation'
  <2> SUFFICES ASSUME ~stolen PROVE Rotation'
    BY <1>11, StoreFacts DEF Rotation
  <2>1. \A d \in Calls : ~Refreshing(d) /\ ~Refreshing(d)'
    BY <1>11, StoreFacts, OneAtATime DEF Refreshing
  <2>2. Newest(reply[c])
    <3>1. CASE LoggingIn(c)
      BY <3>1 DEF Fresh, Newest
    <3>2. CASE ~LoggingIn(c)
      BY <1>11, <3>2, StoreFacts, DataFacts DEF Grants, Newest
    <3> QED
      BY <3>1, <3>2
  <2>3. \A v \in Providers : Newest(file'[v])
    BY <1>11, <2>1, <2>2, StoreFacts DEF Rotation
  <2> QED
    BY <1>11, <2>1, <2>3, StoreFacts DEF Rotation, Newest
<1>12. ASSUME NEW c \in Calls, Rotate(c) PROVE Rotation'
  <2> SUFFICES ASSUME ~stolen PROVE Rotation'
    BY <1>12 DEF Rotate, Rotation
  <2> DEFINE t == seen[c][job[c].of]
  <2>1. /\ file' = file /\ on' = on /\ job' = job /\ seen' = seen /\ lost' = lost /\ twice' = twice
        /\ Refreshing(c) /\ ~Rotated(c) /\ job[c].of \in Providers
        /\ reply'[c] = [grant |-> t.grant, gen |-> t.gen + 1]
    BY <1>12 DEF Rotate, fileVars, AuthTypeOK, Refreshing, Rotated, Of
  <2>2. \A d \in Calls : Refreshing(d) => d = c
    BY <2>1, OneAtATime
  <2>3. t.grant \in 0 .. MaxOrders /\ t.gen \in Nat /\ t.grant # 0
    BY <2>1, DataFacts DEF AuthTypeOK, Data, Grants, Of
  <2>4. /\ newest'[t.grant] = t.gen + 1
        /\ \A g \in 0 .. MaxOrders : g # t.grant => newest'[g] = newest[g]
    BY <1>12, <2>3 DEF Rotate, Of, AuthTypeOK
  <2>5. reply'[c].grant = t.grant /\ reply'[c].gen = t.gen + 1
    BY <2>1
  <2> HIDE DEF t
  <2>6. \A v \in Providers : v # job[c].of => Newest(seen[c][v])'
    <3> SUFFICES ASSUME NEW v \in Providers, v # job[c].of PROVE Newest(seen[c][v])'
      OBVIOUS
    <3>1. seen[c][v].grant \in 0 .. MaxOrders
      BY DataFacts DEF AuthTypeOK, Data
    <3>2. seen[c][v].grant # t.grant
      BY <2>1, <2>3 DEF Grants, Distinct, t
    <3>3. Newest(seen[c][v])
      BY <2>1 DEF Rotation
    <3> QED
      BY <2>1, <2>4, <3>1, <3>2, <3>3 DEF Newest
  <2>7. Rotated(c)'
    BY <2>1, <2>3, <2>5, DataFacts DEF Rotated, Refreshing
  <2> QED
    BY <2>1, <2>2, <2>4, <2>5, <2>6, <2>7 DEF Rotation, Rotated, Refreshing
<1>13. ASSUME NEW c \in Calls, Refuse(c) PROVE Rotation'
  <2> SUFFICES ASSUME ~stolen PROVE Rotation'
    BY <1>13 DEF Refuse, Rotation
  <2> DEFINE t == seen[c][job[c].of]
  <2>1. /\ file' = file /\ newest' = newest /\ lost' = lost /\ twice' = twice \union {t}
        /\ Refreshing(c) /\ ~Rotated(c) /\ job[c].of \in Providers /\ t.gen < newest[t.grant]
        /\ on'[c] = "release" /\ \A d \in Calls : d # c => on'[d] = on[d]
    BY <1>13 DEF Refuse, GoTo, fileVars, server, AuthTypeOK, Refreshing, Rotated, Of
  <2>2. \A d \in Calls : Refreshing(d) => d = c
    BY <2>1, OneAtATime
  <2>3. \A v \in Providers : Newest(seen[c][v])
    BY <2>1 DEF Rotation
  <2>4. t \in lost
    <3>1. t.gen \in Nat /\ newest[t.grant] \in Nat
      BY <2>1, DataFacts DEF AuthTypeOK, Data
    <3> QED
      BY <2>1, <2>3, <3>1 DEF Newest
  <2>5. \A d \in Calls : ~Refreshing(d)'
    BY <2>1, <2>2 DEF Refreshing
  <2>6. \A v \in Providers : Newest(file[v])
    BY <2>1, <2>3, DataFacts DEF Rotation, Newest, Grants
  <2> QED
    BY <2>1, <2>4, <2>5, <2>6 DEF Rotation, Newest
<1>14. ASSUME NEW c \in Calls, RefreshFails(c) PROVE Rotation'
  <2> SUFFICES ASSUME ~stolen PROVE Rotation'
    BY <1>14 DEF RefreshFails, Rotation
  <2>1. /\ file' = file /\ newest' = newest /\ twice' = twice /\ lost \subseteq lost'
        /\ Refreshing(c) /\ job[c].of \in Providers
        /\ Rotated(c) => seen[c][job[c].of] \in lost'
        /\ on'[c] = "release" /\ \A d \in Calls : d # c => on'[d] = on[d]
    BY <1>14 DEF RefreshFails, GoTo, fileVars, server, AuthTypeOK, Refreshing, Rotated, Of
  <2>2. \A d \in Calls : Refreshing(d) => d = c
    BY <2>1, OneAtATime
  <2>3. \A v \in Providers : Newest(seen[c][v])'
    BY <1>14, <2>1 DEF Rotation, Newest, RefreshFails
  <2>4. \A v \in Providers : file[v] \in {seen[c][v], NoToken}
    BY <2>1 DEF Rotation
  <2>5. \A d \in Calls : ~Refreshing(d)'
    BY <2>1, <2>2 DEF Refreshing
  <2>6. \A v \in Providers : Newest(file[v])'
    BY <1>14, <2>1, <2>3, <2>4, DataFacts DEF Newest, Grants, RefreshFails
  <2> QED
    BY <2>1, <2>5, <2>6 DEF Rotation
<1>15. ASSUME NEW c \in Calls, Refreshed(c) PROVE Rotation'
  <2> SUFFICES ASSUME ~stolen PROVE Rotation'
    BY <1>15, RefreshedFacts DEF Rotation
  <2>1. Refreshing(c) /\ Rotated(c) /\ job[c].of \in Providers
    BY <1>15, RefreshedFacts DEF Rotated
  <2>2. \A d \in Calls : Refreshing(d) => d = c
    BY <2>1, OneAtATime
  <2>3. \A d \in Calls : ~Refreshing(d)'
    BY <1>15, <2>2, RefreshedFacts DEF Refreshing
  <2>4. /\ \A v \in Providers : file[v] \in {seen[c][v], NoToken}
        /\ \A v \in Providers : v # job[c].of => Newest(seen[c][v])
        /\ Newest(reply[c]) /\ Newest(NoToken)
    BY <2>1, DataFacts DEF Rotation, Newest, Grants
  <2>5. \A v \in Providers : Newest(file[v])'
    BY <1>15, <2>4, RefreshedFacts DEF Newest
  <2> QED
    BY <1>15, <2>3, <2>5, RefreshedFacts DEF Rotation
<1>16. ASSUME NEW c \in Calls, Release(c) PROVE Rotation'
  BY <1>16, DataFacts DEF Release, Aware, Gone, fileVars, server, Rotation, Rotated,
     Newest, Alive, Lockable, Exclusive, Refreshing, Resting, AuthTypeOK
<1>17. ASSUME NEW c \in Calls, Notice(c) PROVE Rotation'
  BY <1>17, DataFacts DEF Notice, fileVars, callVars, server, Rotation, Rotated, Newest,
     Alive, Lockable, Exclusive, Refreshing, Resting, AuthTypeOK
<1>18. ASSUME NEW p \in Procs, Crash(p) PROVE Rotation'
  <2> SUFFICES ASSUME ~stolen PROVE Rotation'
    BY <1>18 DEF Crash, Rotation
  <2>1. /\ file' = file /\ newest' = newest /\ twice' = twice /\ lost \subseteq lost'
        /\ \A c \in Calls : Home[c] = p => ~Refreshing(c)'
        /\ \A c \in Calls : Home[c] # p =>
             on'[c] = on[c] /\ job'[c] = job[c] /\ seen'[c] = seen[c] /\ reply'[c] = reply[c]
        /\ \A c \in Calls : Home[c] = p /\ Rotated(c) => seen[c][job[c].of] \in lost'
    BY <1>18 DEF Crash, Gone, fileVars, server, Refreshing, Rotated, Of
  <2>2. ASSUME NEW c \in Calls, Refreshing(c), Home[c] = p PROVE Rotation'
    <3>1. \A d \in Calls : ~Refreshing(d)'
      BY <2>1, <2>2, OneAtATime DEF Refreshing
    <3>2. \A v \in Providers : file[v] \in {seen[c][v], NoToken}
      BY <2>2 DEF Rotation
    <3>3. \A v \in Providers : seen[c][v].gen = newest[seen[c][v].grant] \/ seen[c][v] \in lost'
      BY <2>1, <2>2 DEF Rotation, Newest
    <3>4. \A v \in Providers : Newest(file[v])'
      BY <2>1, <3>2, <3>3, DataFacts DEF Newest, Grants
    <3> QED
      BY <2>1, <3>1, <3>4 DEF Rotation
  <2>3. CASE \A c \in Calls : Home[c] = p => ~Refreshing(c)
    BY <2>1, <2>3 DEF Rotation, Rotated, Refreshing, Newest
  <2> QED
    BY <2>2, <2>3
<1>19. ASSUME NEW t \in Token, Expire(t) PROVE Rotation'
  BY <1>19, DataFacts DEF Expire, fileVars, callVars, Rotation, Rotated, Newest, Alive,
     Lockable, Exclusive, Refreshing, Resting, AuthTypeOK
<1>20. ASSUME GrowStale PROVE Rotation'
  BY <1>20, DataFacts DEF GrowStale, fileVars, callVars, server, Rotation, Rotated,
     Newest, Alive, Lockable, Exclusive, Refreshing, Resting, AuthTypeOK
<1>21. ASSUME UNCHANGED authVars PROVE Rotation'
  BY <1>21, DataFacts DEF authVars, fileVars, callVars, server, Rotation, Rotated,
     Newest, Alive, Lockable, Exclusive, Refreshing, Resting, AuthTypeOK
<1> QED
  BY <1>1, <1>2, <1>3, <1>4, <1>5, <1>6, <1>7, <1>8, <1>9, <1>10, <1>11,
     <1>12, <1>13, <1>14, <1>15, <1>16, <1>17, <1>18, <1>19, <1>20, <1>21, Expirable DEF AuthNext, CallStep

-----------------------------------------------------------------------------
(* The theorems.                                                           *)

\* The initial states.
LEMMA InvInit == AuthInit => AuthInv
<1> SUFFICES ASSUME AuthInit PROVE AuthInv
  OBVIOUS
<1> DEFINE first == CHOOSE v \in Providers : TRUE
<1>1. first \in Providers /\ 0 \in 0 .. MaxOrders /\ 1 \in 0 .. MaxOrders /\ 1 \in 1 .. MaxOrders
  BY AuthAssumption
<1>2. \A v \in Providers : file[v] = IF exists /\ v = first THEN [grant |-> 1, gen |-> 1] ELSE NoToken
  BY DataFacts DEF AuthInit, Data
<1>3. file \in Data
  BY <1>1, DataFacts DEF AuthInit, Data
<1>4. AuthTypeOK
  BY <1>1, <1>3, DataFacts DEF AuthInit, AuthTypeOK
<1>5. newest[0] = 0 /\ newest[1] = 1 /\ orders = 1
  BY <1>1 DEF AuthInit
<1>6. Grants
  <2>1. \A v \in Providers : file[v].grant = IF exists /\ v = first THEN 1 ELSE 0
    BY <1>2, DataFacts
  <2> HIDE DEF first
  <2>2. Distinct(file)
    BY <2>1 DEF Distinct
  <2>3. \A v \in Providers : file[v].grant <= orders
    BY <1>5, <2>1
  <2>4. NoToken.grant <= orders
    BY <1>5, DataFacts
  <2> QED
    BY <1>5, <2>2, <2>3, <2>4 DEF AuthInit, Grants, Refreshing, Rotated, LoggingIn
<1>7. Resting /\ Fresh /\ Exclusive
  BY DataFacts DEF AuthInit, Resting, Fresh, LoggingIn, Exclusive, Alive
<1>8. Saved
  BY DEF AuthInit, Saved, Refreshing
<1>9. Rotation
  <2>1. \A v \in Providers : file[v].gen = newest[file[v].grant]
    BY <1>2, <1>5, DataFacts
  <2> QED
    BY <2>1 DEF AuthInit, Rotation, Rotated, Refreshing, Newest
<1> QED
  BY <1>4, <1>6, <1>7, <1>8, <1>9 DEF AuthInv

\* The invariant is inductive: it holds in every state the processes reach.
THEOREM AuthSafety == AuthSpec => []AuthInv
<1>1. AuthInv /\ [AuthNext]_authVars => AuthInv'
  BY AuthTypeStep, RestingStep, GrantsStep, FreshStep, SavedStep, ExclusiveStep, RotationStep
     DEF AuthInv
<1> QED
  BY InvInit, <1>1, PTL DEF AuthSpec

\* Every variable of the credentials' processes always has its type.
THEOREM AuthTyping == AuthSpec => []AuthTypeOK
<1>1. AuthInv => AuthTypeOK
  BY DEF AuthInv
<1> QED
  BY AuthSafety, <1>1, PTL

\* Concurrent requests of any number of processes never show the provider a
\* refresh token that was already rotated, unless its successor was lost in a
\* fault or a lock was stolen.
THEOREM RefreshSafety == AuthSpec => []RefreshedOnce
<1>1. AuthInv => RefreshedOnce
  BY DEF AuthInv, Rotation, RefreshedOnce
<1> QED
  BY AuthSafety, <1>1, PTL

\* What the last login, refresh or logout of a provider wrote is what the file
\* has, and no grant that was logged out or replaced comes back, whatever the
\* other processes did, unless a call that lost its lock went on unaware of it
\* or auth.json was made anew over one that held something.
THEOREM StoreSafety == AuthSpec => []StoreKeepsLogins
<1>1. AuthInv => StoreKeepsLogins
  BY DEF AuthInv, Saved, StoreKeepsLogins
<1> QED
  BY AuthSafety, <1>1, PTL
=============================================================================
