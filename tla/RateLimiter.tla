----------------------------- MODULE RateLimiter -----------------------------
(***************************************************************************)
(* The in-process sliding-window rate limiter (server/utils/rateLimit.ts): *)
(* a map from a bucket's key to the times of the requests it admitted      *)
(* lately, filtered at every call, and swept by a timer.  Its callers give *)
(* each bucket a limit and a window.  Time is counted in ticks.            *)
(***************************************************************************)
EXTENDS Integers, FiniteSets

CONSTANTS
  Buckets,          \* the keys the callers use
  Limit,            \* maxRequests of a bucket
  Window,           \* windowMs of a bucket
  DefaultWindow,    \* DEFAULT_WINDOW_MS, which the sweep uses for every bucket
  SweepInterval,    \* CLEANUP_INTERVAL_MS
  MaxTime           \* bound on the clock

ASSUME LimiterAssumption ==
  /\ Limit \in [Buckets -> Nat \ {0}]
  /\ Window \in [Buckets -> Nat \ {0}]
  /\ DefaultWindow \in Nat
  /\ SweepInterval \in Nat \ {0}
  /\ MaxTime \in Nat

\* No caller asks for a window longer than the sweep's own (60 s).
ASSUME WindowsFit == \A b \in Buckets : Window[b] <= DefaultWindow

VARIABLES
  now,        \* Date.now()
  store,      \* the stamps kept for each bucket; a missing entry is the empty set
  sweepAt,    \* when the sweep is due; NoSweep when its timer is stopped
  granted,    \* history: every stamp of this life of the process
  promised    \* history: the time the last refusal named, until the next grant

limiterVars == <<now, store, sweepAt, granted, promised>>

NoSweep == MaxTime + SweepInterval + 1
NoPromise == 0

Stamps == [n : Nat, at : Nat]

LimiterInit ==
  /\ now = 1
  /\ store = [b \in Buckets |-> {}]
  /\ sweepAt = NoSweep
  /\ granted = [b \in Buckets |-> {}]
  /\ promised = [b \in Buckets |-> NoPromise]

\* Mutant: a stamp exactly one window old still counts.
KeptWithItsEdge(b) == {s \in store[b] : now - s.at <= Window[b]}

\* The stamps the call keeps: those inside the bucket's window.
Kept(b) == {s \in store[b] : now - s.at < Window[b]}

Admits(b) == Cardinality(Kept(b)) < Limit[b]

Oldest(b) == CHOOSE t \in {s.at : s \in Kept(b)} : \A s \in Kept(b) : t <= s.at

RetryAfter(b) == Oldest(b) + Window[b] - now

EnsureSweep == sweepAt' = IF sweepAt = NoSweep THEN now + SweepInterval ELSE sweepAt

\* rateLimit(b) answers "allowed" and counts the request.
Grant(b) ==
  /\ Admits(b)
  /\ EnsureSweep
  /\ LET stamp == [n |-> Cardinality(granted[b]), at |-> now] IN
       /\ store' = [store EXCEPT ![b] = Kept(b) \cup {stamp}]
       /\ granted' = [granted EXCEPT ![b] = @ \cup {stamp}]
  /\ promised' = [promised EXCEPT ![b] = NoPromise]
  /\ UNCHANGED now

\* rateLimit(b) answers "not allowed" and names the time to wait.
Deny(b) ==
  /\ ~Admits(b)
  /\ EnsureSweep
  /\ store' = [store EXCEPT ![b] = Kept(b)]
  /\ promised' = [promised EXCEPT ![b] = now + RetryAfter(b)]
  /\ UNCHANGED <<now, granted>>

\* The timer's callback: old stamps go, and with the last entry the timer.
Sweep ==
  /\ sweepAt # NoSweep /\ now >= sweepAt
  /\ store' = [b \in Buckets |-> {s \in store[b] : now - s.at < DefaultWindow}]
  /\ sweepAt' = IF \A b \in Buckets : store'[b] = {} THEN NoSweep ELSE now + SweepInterval
  /\ UNCHANGED <<now, granted, promised>>

Tick ==
  /\ now < MaxTime
  /\ now' = now + 1
  /\ UNCHANGED <<store, sweepAt, granted, promised>>

\* The store dies with its process.
Forget ==
  /\ store' = [b \in Buckets |-> {}]
  /\ sweepAt' = NoSweep
  /\ granted' = [b \in Buckets |-> {}]
  /\ promised' = [b \in Buckets |-> NoPromise]
  /\ UNCHANGED now

LimiterNext ==
  \/ \E b \in Buckets : Grant(b) \/ Deny(b)
  \/ Sweep
  \/ Tick
  \/ Forget

LimiterSpec == LimiterInit /\ [][LimiterNext]_limiterVars

LimiterTypeOK ==
  /\ now \in Nat
  /\ store \in [Buckets -> SUBSET Stamps]
  /\ sweepAt \in Nat
  /\ granted \in [Buckets -> SUBSET Stamps]
  /\ promised \in [Buckets -> Nat]

\* The requests of a bucket admitted in the window that opens at time t.
Burst(b, t) == {s \in granted[b] : t <= s.at /\ s.at < t + Window[b]}

\* No window of a bucket, wherever it opens, admits more than its limit,
\* whatever the sweep, refused calls and the other buckets do in between.
BurstsAreBounded ==
  \A b \in Buckets : \A s \in granted[b] : Cardinality(Burst(b, s.at)) <= Limit[b]

\* A caller that waits as long as a refusal told it to is admitted, unless
\* another request of the bucket was admitted in the meantime.
RetryAfterIsKept ==
  \A b \in Buckets : promised[b] # NoPromise /\ now >= promised[b] => Admits(b)

\* Both promises of a limit (rateLimit.ts 48-90).
LimitsAreKept == BurstsAreBounded /\ RetryAfterIsKept
=============================================================================
