-------------------------- MODULE ArxivSearchClient --------------------------
(***************************************************************************)
(* ArxivPaperSearchClient: one client serves all requests of the process   *)
(* and spaces what it sends to arXiv.  A lock covers the wait and the HTTP *)
(* request; between the release of the lock and the cooldown a 429 asks    *)
(* for there is no await, so they are one step.                            *)
(***************************************************************************)
EXTENDS Naturals, FiniteSets

CONSTANTS
    Caller,         \* searches that share the client
    MinInterval,    \* min_interval_seconds
    MaxRetryAfter,  \* max_retry_after_seconds
    MaxTime         \* bound of the model: how far the clock runs

ASSUME ClientAssumption == MinInterval \in Nat /\ MaxRetryAfter \in Nat /\ MaxTime \in Nat

VARIABLES
    now,                \* the monotonic clock
    search,             \* of each caller: where its search is
    wakeAt,             \* of each caller: when its wait may end
    lastStarted,        \* _last_request_started_at, 0 for None
    retryNotBefore,     \* _provider_retry_not_before, 0 for None
    promised            \* history: the latest end of a cooldown the provider asked for

clientVars == <<now, search, wakeAt, lastStarted, retryNotBefore, promised>>

SearchStep == {"idle", "queued", "waiting", "requesting", "answered", "failed", "cancelled"}

MaxOf(a, b) == IF a >= b THEN a ELSE b

\* The first request may start at once.
ClientInit ==
    /\ now = MinInterval
    /\ search = [c \in Caller |-> "idle"]
    /\ wakeAt = [c \in Caller |-> 0]
    /\ lastStarted = 0
    /\ retryNotBefore = 0
    /\ promised = 0

Goes(c, from, to) == search[c] = from /\ search' = [search EXCEPT ![c] = to]

\* Deviation: the lock is held for the wait only.
WaitingCallers == {c \in Caller : search[c] = "waiting"}

LockHolders == {c \in Caller : search[c] \in {"waiting", "requesting"}}

Search(c) ==
    /\ Goes(c, "idle", "queued")
    /\ UNCHANGED <<now, wakeAt, lastStarted, retryNotBefore, promised>>

\* The lock is taken and the wait computed, from what is known at this moment.
WaitForRateLimit(c) ==
    /\ LockHolders = {}
    /\ Goes(c, "queued", "waiting")
    /\ wakeAt' = [wakeAt EXCEPT ![c] =
                    MaxOf(now, MaxOf(lastStarted + MinInterval, retryNotBefore))]
    /\ UNCHANGED <<now, lastStarted, retryNotBefore, promised>>

StartRequest(c) ==
    /\ Goes(c, "waiting", "requesting")
    /\ now >= wakeAt[c]
    /\ lastStarted' = now
    /\ wakeAt' = [wakeAt EXCEPT ![c] = 0]
    /\ UNCHANGED <<now, retryNotBefore, promised>>

\* A feed, or an answer or failure that fails the search and says nothing of when
\* to come back.
RequestEnds(c) ==
    /\ \/ Goes(c, "requesting", "answered")
       \/ Goes(c, "requesting", "failed")
    /\ UNCHANGED <<now, wakeAt, lastStarted, retryNotBefore, promised>>

\* Retry-After, or the configured backoff, is cut to the configured maximum.
RateLimited(c) ==
    /\ Goes(c, "requesting", "failed")
    /\ \E delay \in 0..MaxRetryAfter :
        /\ retryNotBefore' = now + delay
        /\ promised' = MaxOf(promised, now + delay)
    /\ UNCHANGED <<now, wakeAt, lastStarted>>

\* The task of a search is cancelled wherever it awaits.
CancelSearch(c) ==
    /\ search[c] \in {"queued", "waiting", "requesting"}
    /\ search' = [search EXCEPT ![c] = "cancelled"]
    /\ wakeAt' = [wakeAt EXCEPT ![c] = 0]
    /\ UNCHANGED <<now, lastStarted, retryNotBefore, promised>>

Tick ==
    /\ now < MaxTime
    /\ now' = now + 1
    /\ UNCHANGED <<search, wakeAt, lastStarted, retryNotBefore, promised>>

CallerNext(c) ==
    \/ Search(c)
    \/ WaitForRateLimit(c)
    \/ StartRequest(c)
    \/ RequestEnds(c)
    \/ RateLimited(c)
    \/ CancelSearch(c)

ClientNext == Tick \/ \E c \in Caller : CallerNext(c)

ClientSpec == ClientInit /\ [][ClientNext]_clientVars

ClientTypeOK ==
    /\ now \in Nat
    /\ search \in [Caller -> SearchStep]
    /\ wakeAt \in [Caller -> Nat]
    /\ lastStarted \in Nat
    /\ retryNotBefore \in Nat
    /\ promised \in Nat

-----------------------------------------------------------------------------
(* Properties.                                                              *)

\* However many searches share the client, a request starts no sooner than the
\* interval after the one before, and not before any time the provider has asked
\* it to wait for; no two run at a time.
SearchesAreSpaced ==
    [][\A c \in Caller : search[c] # "requesting" /\ search'[c] = "requesting" =>
        /\ now >= lastStarted + MinInterval
        /\ now >= promised
        /\ \A d \in Caller : search[d] # "requesting"]_clientVars
=============================================================================
