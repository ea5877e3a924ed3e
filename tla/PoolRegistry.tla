---------------------------- MODULE PoolRegistry ----------------------------
(***************************************************************************)
(* PostgresPoolRegistry: the stores of a process get their connection      *)
(* pools from one registry, which creates a pool when it is first asked    *)
(* for and closes all of them when the application stops.  A lock is held  *)
(* while a pool is created; looking a pool up needs none.                  *)
(***************************************************************************)
EXTENDS FiniteSets

CONSTANTS
    Store,      \* calls of get_pool
    Stripped,   \* configured DSN -> the DSN without blanks around it
    Blank,      \* what is left of a DSN that has nothing else
    NoPool

Dsn == {Stripped[text] : text \in DOMAIN Stripped} \ {Blank}

ASSUME RegistryAssumption == NoPool \notin Store \cup Dsn /\ Blank # NoPool

VARIABLES
    getting,    \* of each call: where it is
    dsn,        \* of each call: the DSN it asks for
    held,       \* of each call: the pool it was given
    pools,      \* _pools: DSN -> pool, a pool being named by the call that created it
    pool,       \* of each pool: whether it exists and is open
    closed,     \* _closed
    toClose     \* the pools that close() has taken over and not closed yet

registryVars == <<getting, dsn, held, pools, pool, closed, toClose>>

GetStep == {"idle", "queued", "creating", "served", "refused", "failed", "cancelled"}

RegistryInit ==
    /\ getting = [s \in Store |-> "idle"]
    /\ dsn = [s \in Store |-> NoPool]
    /\ held = [s \in Store |-> NoPool]
    /\ pools = [d \in Dsn |-> NoPool]
    /\ pool = [s \in Store |-> "none"]
    /\ closed = FALSE
    /\ toClose = {}

Moves(s, to) == getting' = [getting EXCEPT ![s] = to]

Serves(s, p) ==
    /\ Moves(s, "served")
    /\ held' = [held EXCEPT ![s] = p]

LockIsFree == \A s \in Store : getting[s] # "creating"

\* The first look, without the lock.
GetPool(s) ==
    /\ getting[s] = "idle"
    /\ \E text \in DOMAIN Stripped :
        LET d == Stripped[text] IN
        \/ /\ d = Blank \/ closed
           /\ Moves(s, "refused")
           /\ UNCHANGED <<dsn, held>>
        \/ /\ d # Blank /\ ~closed
           /\ dsn' = [dsn EXCEPT ![s] = d]
           /\ \/ pools[d] # NoPool /\ Serves(s, pools[d])
              \/ pools[d] = NoPool /\ Moves(s, "queued") /\ UNCHANGED held
    /\ UNCHANGED <<pools, pool, closed, toClose>>

\* Deviation: what the first look saw is trusted.
TakeLockAndCreate(s) ==
    /\ getting[s] = "queued"
    /\ LockIsFree
    /\ Moves(s, IF closed THEN "refused" ELSE "creating")
    /\ UNCHANGED <<dsn, held, pools, pool, closed, toClose>>

\* The second look, under the lock.
TakeLock(s) ==
    /\ getting[s] = "queued"
    /\ LockIsFree
    /\ \/ closed /\ Moves(s, "refused") /\ UNCHANGED held
       \/ ~closed /\ pools[dsn[s]] # NoPool /\ Serves(s, pools[dsn[s]])
       \/ ~closed /\ pools[dsn[s]] = NoPool /\ Moves(s, "creating") /\ UNCHANGED held
    /\ UNCHANGED <<dsn, pools, pool, closed, toClose>>

CreatePool(s) ==
    /\ getting[s] = "creating"
    /\ Serves(s, s)
    /\ pool' = [pool EXCEPT ![s] = "open"]
    /\ pools' = [pools EXCEPT ![dsn[s]] = s]
    /\ UNCHANGED <<dsn, closed, toClose>>

\* The factory raises, or its task is cancelled, and leaves no pool behind.
CreateFails(s) ==
    /\ getting[s] = "creating"
    /\ \E end \in {"failed", "cancelled"} : Moves(s, end)
    /\ UNCHANGED <<dsn, held, pools, pool, closed, toClose>>

CancelWaiting(s) ==
    /\ getting[s] = "queued"
    /\ Moves(s, "cancelled")
    /\ UNCHANGED <<dsn, held, pools, pool, closed, toClose>>

\* Under the lock, without awaiting anything.  Closing again changes nothing.
Close ==
    /\ LockIsFree
    /\ ~closed
    /\ closed' = TRUE
    /\ toClose' = {pools[d] : d \in Dsn} \ {NoPool}
    /\ pools' = [d \in Dsn |-> NoPool]
    /\ UNCHANGED <<getting, dsn, held, pool>>

\* One pool after the other; a pool that cannot be closed does not keep the rest.
ClosePool(p) ==
    /\ p \in toClose
    /\ toClose' = toClose \ {p}
    /\ \E end \in {"closed", "abandoned"} : pool' = [pool EXCEPT ![p] = end]
    /\ UNCHANGED <<getting, dsn, held, pools, closed>>

StoreNext(s) ==
    \/ GetPool(s)
    \/ TakeLock(s)
    \/ CreatePool(s)
    \/ CreateFails(s)
    \/ CancelWaiting(s)

RegistryNext ==
    \/ Close
    \/ \E s \in Store : StoreNext(s) \/ ClosePool(s)

RegistrySpec == RegistryInit /\ [][RegistryNext]_registryVars

RegistryTypeOK ==
    /\ getting \in [Store -> GetStep]
    /\ dsn \in [Store -> Dsn \cup {NoPool}]
    /\ held \in [Store -> Store \cup {NoPool}]
    /\ pools \in [Dsn -> Store \cup {NoPool}]
    /\ pool \in [Store -> {"none", "open", "closed", "abandoned"}]
    /\ closed \in BOOLEAN
    /\ toClose \subseteq Store

-----------------------------------------------------------------------------
(* Properties.                                                              *)

\* However many stores ask at once, whichever creations fail and whenever the
\* application stops: a DSN has at most one open pool, which every store of that
\* DSN was given; and no pool that was opened escapes the closing of the registry.
PoolsAreShared ==
    /\ \A p, q \in Store :
        pool[p] = "open" /\ pool[q] = "open" /\ dsn[p] = dsn[q] => p = q
    /\ \A s \in Store : getting[s] = "served" =>
        /\ pool[held[s]] # "none"
        /\ dsn[held[s]] = dsn[s]
        /\ ~closed => pools[dsn[s]] = held[s]
    /\ \A p \in Store : pool[p] = "open" =>
        IF closed THEN p \in toClose ELSE pools[dsn[p]] = p
=============================================================================
