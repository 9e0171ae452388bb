----------------------------- MODULE TokenBucket ----------------------------
(***************************************************************************)
(* The rate limiter behind requests, heartbeats and uploads                *)
(* (internal/security/rate_limit.go): a number of tokens, all given back   *)
(* together when the window that the first call began is over.  A bucket   *)
(* is used under its mutex; a map of buckets creates one at first use.     *)
(***************************************************************************)
EXTENDS Integers, FiniteSets, Sequences

CONSTANTS Capacity, Window

\* A key of the limiter's map: no bucket yet, or one.
Buckets(Time) == {{}} \cup {{b} : b \in [tokens : 0..Capacity, reset : Time]}

\* NewTokenBucket, by LoadOrStore.
Loaded(bucket, now) ==
    IF bucket = {} THEN [tokens |-> Capacity, reset |-> now + Window] ELSE CHOOSE b \in bucket : TRUE

\* Mutant: no new window begins.
RefilledMutant(b, now) == IF now > b.reset THEN [b EXCEPT !.tokens = Capacity] ELSE b
\* The window is over when time.Now() is after reset.
Refilled(b, now) ==
    IF now > b.reset THEN [tokens |-> Capacity, reset |-> now + Window] ELSE b

\* Allow: whether a call at now is let through, and the bucket after it.
Allowed(bucket, now) == Refilled(Loaded(bucket, now), now).tokens > 0
After(bucket, now) ==
    LET b == Refilled(Loaded(bucket, now), now) IN
    {[b EXCEPT !.tokens = IF @ > 0 THEN @ - 1 ELSE @]}

\* Times at which calls were let through: no interval as long as the window
\* has more than two buckets full.
BurstBound(times) ==
    \A i \in DOMAIN times :
        Cardinality({j \in i..Len(times) : times[j] =< times[i] + Window}) =< 2 * Capacity

=============================================================================
