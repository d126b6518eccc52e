---------------------------- MODULE Credentials -----------------------------
(***************************************************************************)
(* The OAuth credentials several pi processes share: AuthStorage of        *)
(* coding-agent/src/core/auth-storage.ts over one auth.json, its lock file *)
(* (proper-lockfile), and the calls of ai/src/models.ts and auth/resolve.ts *)
(* that use it: getAuth() of a request, login(), logout().                 *)
(*                                                                         *)
(* A login gives a grant; each refresh rotates its refresh token, so a     *)
(* credential is a grant and a generation.  The provider refuses every     *)
(* generation but the newest: a rotated credential that is not saved ends  *)
(* the login.  fn() of a call runs without an await but for the refresh,   *)
(* so that everything else done under the lock is one step.                *)
(***************************************************************************)
EXTENDS Naturals

CONSTANTS
  Procs,          \* the pi processes
  Calls,          \* activities of the processes: each makes one call after the other
  Home,           \* Home[c]: the process of call c
  Providers,      \* the keys of auth.json
  NoCall,
  MaxOrders,      \* bound: logins and logouts
  MaxRotations,   \* bound: refreshes of one grant
  MaxFaults       \* bound: crashes, failed writes, lost replies, locks that grow stale

ASSUME AuthAssumption ==
  /\ Home \in [Calls -> Procs]
  /\ NoCall \notin Calls
  /\ Providers # {}
  /\ MaxOrders \in Nat \ {0}

VARIABLES
  exists, torn,   \* auth.json is there; its JSON does not parse
  file,           \* auth.json: the credential of each provider
  memory,         \* AuthStorage.data of each process
  up,             \* the processes that run
  lock,           \* whose lock file there is
  on,             \* "idle", "create", "reload", "wait", "refresh", "release"
  job,            \* what each call does, and for which provider
  seen,           \* the file as a call that refreshes has read it
  reply,          \* the credential the provider has given the call
  compromised,    \* the calls whose onCompromised ran
  expired,        \* the credentials whose access token is over
  newest,         \* the provider's side: the newest generation of each grant
  orders, faults, \* how many logins and logouts, and faults, there were
  stolen,         \* history: a call that was alive has lost its lock
  unaware,        \* history: one that had not been told went on and wrote or released
  clobbered,      \* history: auth.json was made anew over one that held something
  lost,           \* history: rotated credentials whose successor was not saved
  twice,          \* history: credentials presented again after their rotation
  saved,          \* history: what the last login, refresh or logout of a provider wrote
  closed           \* history: the grants logged out or replaced

fileVars == <<exists, torn, file, saved, closed, clobbered>>
callVars == <<on, job, seen, reply>>
server == <<expired, newest, orders>>
authVars == <<fileVars, memory, up, lock, callVars, compromised, server, faults,
              stolen, unaware, lost, twice>>

Token   == [grant : 0 .. MaxOrders, gen : Nat]
NoToken == [grant |-> 0, gen |-> 0]

Nothing == [v \in Providers |-> NoToken]
NoJob   == [kind |-> "none", of |-> CHOOSE v \in Providers : TRUE]

\* The credential c is about, in a file or a memory m.
Of(c, m) == m[job[c].of]

\* JavaScript: while one call of a process is between two system calls the
\* other calls of the process do not move.
Sync(c) ==
  /\ Home[c] \in up
  /\ \A d \in Calls : Home[d] = Home[c] /\ on[d] \in {"create", "reload"} => d = c

GoTo(c, l) == on' = [on EXCEPT ![c] = l]

\* The calls of C are over, and their variables are gone.
Gone(C) ==
  /\ on' = [c \in Calls |-> IF c \in C THEN "idle" ELSE on[c]]
  /\ job' = [c \in Calls |-> IF c \in C THEN NoJob ELSE job[c]]
  /\ seen' = [c \in Calls |-> IF c \in C THEN Nothing ELSE seen[c]]
  /\ reply' = [c \in Calls |-> IF c \in C THEN NoToken ELSE reply[c]]

\* ensureFileExists() asks first; its writeFileSync() is the next step.
Enter(c, l) == GoTo(c, IF exists THEN l ELSE "create")

-----------------------------------------------------------------------------
(* A process starts: AuthStorage.create() loads the file, under the lock.  *)

Start(c) ==
  /\ Home[c] \notin up
  /\ up' = up \union {Home[c]}
  /\ job' = [job EXCEPT ![c] = [NoJob EXCEPT !.kind = "start"]]
  /\ Enter(c, "reload")
  /\ UNCHANGED <<fileVars, memory, lock, seen, reply, compromised, server, faults,
                 stolen, unaware, lost, twice>>

\* ensureFileExists() writes "{}", whatever was written since it asked.
CreateFile(c) ==
  /\ on[c] = "create"
  /\ exists' = TRUE /\ torn' = FALSE
  /\ file' = Nothing
  /\ clobbered' = (clobbered \/ file # Nothing)
  /\ GoTo(c, IF job[c].kind = "start" THEN "reload" ELSE "wait")
  /\ UNCHANGED <<saved, closed, memory, up, lock, job, seen, reply, compromised, server,
                 faults, stolen, unaware, lost, twice>>

\* A lock file whose owner is gone is no longer touched, and becomes stale.
Alive(c) == c \in Calls /\ on[c] \in {"refresh", "release"}

\* Mutant: ELOCKED is not heeded.
AlwaysLockable == TRUE

\* The lock file is not there, or stale.
Lockable == ~Alive(lock)

\* reload(): withLock() takes the lock, reads, and releases without an await;
\* if the lock is taken, or the file does not parse, data stays as it is.
Reload(c) ==
  /\ on[c] = "reload"
  /\ IF Lockable
     THEN /\ lock' = NoCall
          /\ memory' = IF torn THEN memory ELSE [memory EXCEPT ![Home[c]] = file]
     ELSE UNCHANGED <<lock, memory>>
  /\ Gone({c})
  /\ UNCHANGED <<fileVars, up, compromised, server, faults,
                 stolen, unaware, lost, twice>>

-----------------------------------------------------------------------------
(* The calls.                                                              *)

\* getAuth() of a request: a credential in memory that has not expired is
\* used without the lock, which changes nothing.
GetAuth(c, v) ==
  /\ on[c] = "idle" /\ Sync(c)
  /\ memory[Home[c]][v] \in expired
  /\ job' = [job EXCEPT ![c] = [kind |-> "get", of |-> v]]
  /\ Enter(c, "wait")
  /\ UNCHANGED <<fileVars, memory, up, lock, seen, reply, compromised, server, faults,
                 stolen, unaware, lost, twice>>

\* login(): the provider's dialogue is over, its credential is to be stored.
Login(c, v) ==
  /\ on[c] = "idle" /\ Sync(c)
  /\ orders < MaxOrders
  /\ orders' = orders + 1
  /\ newest' = [newest EXCEPT ![orders + 1] = 1]
  /\ reply' = [reply EXCEPT ![c] = [grant |-> orders + 1, gen |-> 1]]
  /\ job' = [job EXCEPT ![c] = [kind |-> "login", of |-> v]]
  /\ Enter(c, "wait")
  /\ UNCHANGED <<fileVars, memory, up, lock, seen, compromised, expired, faults,
                 stolen, unaware, lost, twice>>

Logout(c, v) ==
  /\ on[c] = "idle" /\ Sync(c)
  /\ memory[Home[c]][v] # NoToken
  /\ orders < MaxOrders
  /\ orders' = orders + 1
  /\ job' = [job EXCEPT ![c] = [kind |-> "logout", of |-> v]]
  /\ Enter(c, "wait")
  /\ UNCHANGED <<fileVars, memory, up, lock, seen, reply, compromised, expired, newest,
                 faults, stolen, unaware, lost, twice>>

\* { ...currentData, [provider]: next }
Merged(c, base, t) == [base EXCEPT ![job[c].of] = t]

\* fn() has returned t: data is assigned before the lock is looked at again.
Remember(c, base, t) == memory' = [memory EXCEPT ![Home[c]] = Merged(c, base, t)]

\* writeFileSync() writes all, or fails having written nothing or the half.
Written(c, base, t) ==
  /\ file' = Merged(c, base, t)
  /\ saved' = [saved EXCEPT ![job[c].of] = t]
  /\ closed' = closed \union ({Of(c, file).grant} \ {t.grant, 0})
  /\ UNCHANGED <<exists, torn, faults, clobbered>>

WriteFails ==
  /\ faults < MaxFaults /\ faults' = faults + 1
  /\ torn' \in BOOLEAN
  /\ UNCHANGED <<exists, file, saved, closed, clobbered>>

-----------------------------------------------------------------------------
(* withLockAsync(): the lock file is made, and the file read.              *)

Lock(c) ==
  /\ on[c] = "wait" /\ Sync(c)
  /\ Lockable
  /\ lock' = c
  /\ compromised' = compromised \ {c}

\* The retries are used up.
Busy(c) ==
  /\ on[c] = "wait" /\ Sync(c)
  /\ lock # NoCall
  /\ Gone({c})
  /\ UNCHANGED <<fileVars, memory, up, lock, compromised, server, faults,
                 stolen, unaware, lost, twice>>

\* parseStorageData() throws.
Unreadable(c) ==
  /\ Lock(c)
  /\ torn
  /\ GoTo(c, "release")
  /\ UNCHANGED <<fileVars, memory, up, job, seen, reply, server, faults,
                 stolen, unaware, lost, twice>>

\* fn() of getAuth() finds that the credential is gone, or was refreshed.
NothingToDo(c) ==
  /\ Lock(c)
  /\ ~torn /\ job[c].kind = "get" /\ Of(c, file) \notin expired
  /\ memory' = [memory EXCEPT ![Home[c]] = file]
  /\ GoTo(c, "release")
  /\ UNCHANGED <<fileVars, up, job, seen, reply, server, faults,
                 stolen, unaware, lost, twice>>

\* fn() of getAuth() calls oauth.refresh(current), and awaits it.
Refresh(c) ==
  /\ Lock(c)
  /\ ~torn /\ job[c].kind = "get" /\ Of(c, file) \in expired
  /\ seen' = [seen EXCEPT ![c] = file]
  /\ GoTo(c, "refresh")
  /\ UNCHANGED <<fileVars, memory, up, job, reply, server, faults, stolen, unaware, lost, twice>>

\* login() and logout() have nothing to await.
Store(c) ==
  /\ Lock(c)
  /\ ~torn /\ job[c].kind \in {"login", "logout"}
  /\ Remember(c, file, reply[c])
  /\ Written(c, file, reply[c]) \/ WriteFails
  /\ GoTo(c, "release")
  /\ UNCHANGED <<up, job, seen, reply, server, stolen, unaware, lost, twice>>

-----------------------------------------------------------------------------
(* The refresh, and the end of the call.                                   *)

\* The provider rotates the credential it is shown, if it is the newest.
Rotate(c) ==
  /\ on[c] = "refresh" /\ reply[c] = NoToken
  /\ LET t == Of(c, seen[c]) IN
     /\ t.gen = newest[t.grant]
     /\ newest' = [newest EXCEPT ![t.grant] = t.gen + 1]
     /\ reply' = [reply EXCEPT ![c] = [grant |-> t.grant, gen |-> t.gen + 1]]
  /\ UNCHANGED <<fileVars, memory, up, lock, on, job, seen, compromised, expired, orders,
                 faults, stolen, unaware, lost, twice>>

\* It refuses one that was rotated: oauth.refresh() throws.
Refuse(c) ==
  /\ on[c] = "refresh" /\ reply[c] = NoToken
  /\ Of(c, seen[c]).gen < newest[Of(c, seen[c]).grant]
  /\ twice' = twice \union {Of(c, seen[c])}
  /\ GoTo(c, "release")
  /\ UNCHANGED <<fileVars, memory, up, lock, job, seen, reply, compromised, server, faults,
                 stolen, unaware, lost>>

\* The request fails, or its answer does not arrive.
RefreshFails(c) ==
  /\ on[c] = "refresh"
  /\ faults < MaxFaults /\ faults' = faults + 1
  /\ lost' = IF reply[c] = NoToken THEN lost ELSE lost \union {Of(c, seen[c])}
  /\ GoTo(c, "release")
  /\ UNCHANGED <<fileVars, memory, up, lock, job, seen, reply, compromised, server,
                 stolen, unaware, twice>>

\* A call whose lock is gone goes on until it is told.
Aware(c) == unaware' = (unaware \/ (lock # c /\ c \notin compromised))

\* Mutant: the lock is not looked at again.
RefreshedAnyway(c) ==
  /\ on[c] = "refresh" /\ reply[c] # NoToken /\ Sync(c)
  /\ Remember(c, seen[c], reply[c])
  /\ \/ Written(c, seen[c], reply[c]) /\ UNCHANGED lost
     \/ WriteFails /\ lost' = lost \union {Of(c, seen[c])}
  /\ Aware(c)
  /\ GoTo(c, "release")
  /\ UNCHANGED <<up, lock, job, seen, reply, compromised, server, stolen, twice>>

\* The answer: data is assigned, throwIfCompromised(), the file is written.
Refreshed(c) ==
  /\ on[c] = "refresh" /\ reply[c] # NoToken /\ Sync(c)
  /\ Remember(c, seen[c], reply[c])
  /\ \/ c \notin compromised /\ Written(c, seen[c], reply[c]) /\ UNCHANGED lost
     \/ /\ IF c \in compromised THEN UNCHANGED <<fileVars, faults>> ELSE WriteFails
        /\ lost' = lost \union {Of(c, seen[c])}
  /\ Aware(c)
  /\ GoTo(c, "release")
  /\ UNCHANGED <<up, lock, job, seen, reply, compromised, server, stolen, twice>>

\* release() removes the lock file, whoever made it, unless it is known to
\* be lost; the call returns or throws.
Release(c) ==
  /\ on[c] = "release" /\ Sync(c)
  /\ lock' = IF c \in compromised THEN lock ELSE NoCall
  /\ compromised' = compromised \ {c}
  /\ Aware(c)
  /\ Gone({c})
  /\ UNCHANGED <<fileVars, memory, up, server, faults, stolen, lost, twice>>

-----------------------------------------------------------------------------
(* Around the calls.                                                       *)

\* The lock of a live call is taken for stale: its process was suspended, or
\* a starting process is content with ten seconds (lockSync's default) where
\* withLockAsync() asks for thirty.
GrowStale ==
  /\ Alive(lock)
  /\ faults < MaxFaults /\ faults' = faults + 1
  /\ stolen' = TRUE
  /\ lock' = NoCall
  /\ UNCHANGED <<fileVars, memory, up, callVars, compromised, server, unaware, lost, twice>>

\* onCompromised(): the next time the lock file is to be touched it is gone.
Notice(c) ==
  /\ Alive(c) /\ lock # c /\ c \notin compromised /\ Sync(c)
  /\ compromised' = compromised \union {c}
  /\ UNCHANGED <<fileVars, memory, up, lock, callVars, server, faults,
                 stolen, unaware, lost, twice>>

Crash(p) ==
  /\ p \in up
  /\ faults < MaxFaults /\ faults' = faults + 1
  /\ up' = up \ {p}
  /\ Gone({c \in Calls : Home[c] = p})
  /\ compromised' = {c \in compromised : Home[c] # p}
  /\ memory' = [memory EXCEPT ![p] = Nothing]
  /\ lost' = lost \union {Of(c, seen[c]) : c \in {d \in Calls :
                Home[d] = p /\ on[d] = "refresh" /\ reply[d] # NoToken}}
  /\ UNCHANGED <<fileVars, lock, server, stolen, unaware, twice>>

\* An access token is over after its time; its refresh token is not.
Expire(t) ==
  /\ t.grant <= orders /\ t.gen <= newest[t.grant] /\ t.gen < MaxRotations
  /\ t \notin expired
  /\ expired' = expired \union {t}
  /\ UNCHANGED <<fileVars, memory, up, lock, callVars, compromised, newest, orders, faults,
                 stolen, unaware, lost, twice>>

-----------------------------------------------------------------------------
\* One provider is logged in, or auth.json is gone.
AuthInit ==
  /\ exists \in BOOLEAN /\ torn = FALSE
  /\ file = IF exists
            THEN [Nothing EXCEPT ![CHOOSE v \in Providers : TRUE] = [grant |-> 1, gen |-> 1]]
            ELSE Nothing
  /\ memory = [p \in Procs |-> Nothing]
  /\ up = {} /\ lock = NoCall
  /\ on = [c \in Calls |-> "idle"]
  /\ job = [c \in Calls |-> NoJob]
  /\ seen = [c \in Calls |-> Nothing]
  /\ reply = [c \in Calls |-> NoToken]
  /\ compromised = {} /\ expired = {}
  /\ newest = [g \in 0 .. MaxOrders |-> IF g = 1 THEN 1 ELSE 0]
  /\ orders = 1
  /\ faults = 0 /\ stolen = FALSE /\ unaware = FALSE /\ clobbered = FALSE
  /\ lost = {} /\ twice = {}
  /\ saved = file /\ closed = {}

CallStep(c) ==
  \/ Start(c) \/ CreateFile(c) \/ Reload(c)
  \/ \E v \in Providers : GetAuth(c, v) \/ Login(c, v) \/ Logout(c, v)
  \/ Busy(c) \/ Unreadable(c) \/ NothingToDo(c) \/ Refresh(c) \/ Store(c)
  \/ Rotate(c) \/ Refuse(c) \/ RefreshFails(c) \/ Refreshed(c) \/ Release(c)
  \/ Notice(c)

AuthNext ==
  \/ \E c \in Calls : CallStep(c)
  \/ \E p \in Procs : Crash(p)
  \/ \E g \in 1 .. MaxOrders, n \in 1 .. MaxRotations : Expire([grant |-> g, gen |-> n])
  \/ GrowStale

AuthSpec == AuthInit /\ [][AuthNext]_authVars

-----------------------------------------------------------------------------
(* Properties.                                                             *)

\* A credential is shown to the provider for a refresh only once ("concurrent
\* requests cannot double-refresh a rotated token"), unless the one it was
\* rotated to got lost in a crash, a failed write or a lost answer, or a
\* call was robbed of its lock.
RefreshedOnce == stolen \/ twice \subseteq lost

\* auth.json holds what the last login, refresh or logout of each provider
\* wrote, whatever other processes did for other providers at the same time,
\* and no grant comes back that was logged out or replaced, by a refresh that
\* began before it, say.  throwIfCompromised() makes it true also of calls
\* that lost their lock, if they are told in time.
StoreKeepsLogins ==
  \/ torn \/ unaware \/ clobbered
  \/ file = saved /\ \A v \in Providers : file[v].grant \notin closed

\* The same of the first logins there are ("mutual exclusion ... cross-process
\* too"): it does not hold, ensureFileExists() is not under the lock.
FirstLoginsKept == torn \/ unaware \/ file = saved

\* A process that has started has the credentials there are ("a stored
\* credential owns the provider"): it does not hold, reload() gives up when
\* another process is refreshing, and is not tried again.
StartedKnowsLogins ==
  torn \/ faults > 0 \/ clobbered \/
  \A p \in up : (\A c \in Calls : Home[c] = p => on[c] = "idle") /\ orders = 1 /\ closed = {}
                => memory[p] # Nothing \/ file = Nothing

\* A process has no credential that is newer than the saved one ("persist the
\* rotated credential before release"): it does not hold, data is assigned
\* before the lock is looked at again and the file written.
MemoryWasSaved ==
  torn \/ \A p \in Procs, v \in Providers :
            memory[p][v].grant = file[v].grant => memory[p][v].gen <= file[v].gen

-----------------------------------------------------------------------------
(* The inductive invariant.                                                *)

Data == [Providers -> Token]

\* Every variable has a value of its type.
AuthTypeOK ==
  /\ exists \in BOOLEAN /\ torn \in BOOLEAN
  /\ stolen \in BOOLEAN /\ unaware \in BOOLEAN /\ clobbered \in BOOLEAN
  /\ file \in Data /\ saved \in Data /\ memory \in [Procs -> Data] /\ seen \in [Calls -> Data]
  /\ up \subseteq Procs /\ lock \in Calls \union {NoCall} /\ compromised \subseteq Calls
  /\ on \in [Calls -> {"idle", "create", "reload", "wait", "refresh", "release"}]
  /\ job \in [Calls -> [kind : {"none", "start", "get", "login", "logout"}, of : Providers]]
  /\ reply \in [Calls -> Token]
  /\ orders \in 1 .. MaxOrders /\ faults \in Nat
  /\ newest \in [0 .. MaxOrders -> Nat]
  /\ \A t \in expired : t \in Token /\ t.grant # 0
  /\ lost \subseteq Token /\ twice \subseteq Token
  /\ closed \subseteq 1 .. MaxOrders

\* A process that is down does nothing.
Resting == \A c \in Calls : Home[c] \notin up => on[c] = "idle"

Refreshing(c) == on[c] = "refresh"
Rotated(c)    == Refreshing(c) /\ reply[c] # NoToken

\* A login whose credential is not stored yet.
LoggingIn(c) == job[c].kind = "login" /\ on[c] \in {"create", "wait"}

\* No two providers have credentials of one grant.
Distinct(m) == \A v, w \in Providers : m[v].grant = m[w].grant => v = w \/ m[v].grant = 0

\* The grants there are come from orders, one for each provider; a call that
\* refreshes has something to refresh, and is given a credential of its grant.
Grants ==
  /\ newest[0] = 0
  /\ Distinct(file) /\ \A v \in Providers : file[v].grant <= orders
  /\ \A g \in closed : g <= orders
  /\ \A c \in Calls :
       /\ reply[c].grant <= orders
       /\ on[c] \notin {"refresh", "release"} /\ ~LoggingIn(c) => reply[c] = NoToken
       /\ Refreshing(c) =>
            /\ job[c].kind = "get" /\ Of(c, seen[c]).grant # 0
            /\ Distinct(seen[c]) /\ \A v \in Providers : seen[c][v].grant <= orders
       /\ Rotated(c) => reply[c].grant = Of(c, seen[c]).grant

\* The grant of a login that is not stored yet is found nowhere else.
Fresh ==
  \A c \in Calls : LoggingIn(c) =>
    /\ reply[c].grant \notin closed \union {0} /\ reply[c].gen = newest[reply[c].grant]
    /\ \A v \in Providers : file[v].grant # reply[c].grant
    /\ \A d \in Calls :
         /\ Refreshing(d) => \A v \in Providers : seen[d][v].grant # reply[c].grant
         /\ LoggingIn(d) /\ d # c => reply[d].grant # reply[c].grant

\* A call that still has the lock knows the file.
Saved ==
  \/ unaware \/ clobbered
  \/ /\ file = saved /\ \A v \in Providers : file[v].grant \notin closed
     /\ \A c \in Calls : Refreshing(c) /\ lock = c => seen[c] = file

\* While no call is robbed of its lock, one at a time has it, ...
Exclusive == stolen \/ \A c \in Calls : Alive(c) => lock = c

\* ... and a credential in the file, or that a call is to refresh, is the
\* newest of its grant, is lost, or is being replaced.
Newest(t) == t.gen = newest[t.grant] \/ t \in lost

Rotation ==
  \/ stolen
  \/ /\ \A c \in Calls : Refreshing(c) =>
          /\ \A v \in Providers :
               /\ file[v] \in {seen[c][v], NoToken}
               /\ Newest(seen[c][v]) \/ (Rotated(c) /\ v = job[c].of)
          /\ Rotated(c) => reply[c].gen = newest[reply[c].grant]
     /\ (\A c \in Calls : ~Refreshing(c)) => \A v \in Providers : Newest(file[v])
     /\ twice \subseteq lost

AuthInv == AuthTypeOK /\ Resting /\ Grants /\ Fresh /\ Saved /\ Exclusive /\ Rotation
=============================================================================
