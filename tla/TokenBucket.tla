---------------------------- MODULE TokenBucket ----------------------------
(***************************************************************************)
(* The rate limiter a platform has for the whole process                   *)
(* (src/src/collectors/platform/rate_limiter.py).  Every look at the bucket*)
(* is under its lock, the sleep between two looks is not.  Tokens come in  *)
(* units, Rate of them in a tick; a request costs Cost units.              *)
(***************************************************************************)
EXTENDS Integers

CONSTANTS
    Threads,
    Cost,
    Rate,           \* max_qps
    Capacity,       \* bucket_capacity
    MaxClock        \* bounds the time of a behaviour

ASSUME BucketAssumption ==
    Cost \in Nat \ {0} /\ Rate \in Nat \ {0} /\ Capacity \in Nat /\ MaxClock \in Nat

VARIABLES
    time,
    bucket,         \* tokens, and when they were counted last
    sleeping,       \* thread -> when it looks again, -1 if it is not waiting
    limited,        \* _rate_limited_count, 1 for more than 0
    since           \* history: tick -> the requests let through from it on

bucketVars == <<time, bucket, sleeping, limited, since>>

Awake == -1
Lesser(a, b) == IF a < b THEN a ELSE b

(* get_platform_rate_limiter: the first caller fills the one there is.        *)
BucketInit ==
    /\ time = 0
    /\ bucket = [tokens |-> Capacity, at |-> 0]
    /\ sleeping = [w \in Threads |-> Awake]
    /\ limited = 0
    /\ since = [t \in 0..MaxClock |-> 0]

(* Faulty variant: the bucket has no bottom.                                  *)
RefillUnbounded(b) == [tokens |-> b.tokens + (time - b.at) * Rate, at |-> time]
Refill(b) == [tokens |-> Lesser(Capacity, b.tokens + (time - b.at) * Rate), at |-> time]

TakeToken(full) ==
    /\ full.tokens >= Cost
    /\ bucket' = [full EXCEPT !.tokens = @ - Cost]
    /\ since' = [t \in 0..MaxClock |-> IF t <= time THEN since[t] + 1 ELSE since[t]]
    /\ UNCHANGED limited

(* One round of acquire, by a thread that comes or one whose sleep is over.   *)
Acquire(w) ==
    /\ sleeping[w] <= time
    /\ LET full == Refill(bucket) IN
       \/ TakeToken(full) /\ sleeping' = [sleeping EXCEPT ![w] = Awake]
       \/ /\ full.tokens < Cost
          /\ bucket' = full
          /\ sleeping' = [sleeping EXCEPT ![w] = time + (Cost - full.tokens + Rate - 1) \div Rate]
          /\ limited' = 1 /\ UNCHANGED since
    /\ UNCHANGED time

TryAcquire(w) ==
    /\ sleeping[w] = Awake
    /\ LET full == Refill(bucket) IN
       \/ TakeToken(full)
       \/ full.tokens < Cost /\ bucket' = full /\ limited' = 1 /\ UNCHANGED since
    /\ UNCHANGED <<time, sleeping>>

ResetStats == limited' = 0 /\ UNCHANGED <<time, bucket, sleeping, since>>

Elapse == time < MaxClock /\ time' = time + 1 /\ UNCHANGED <<bucket, sleeping, limited, since>>

BucketNext == Elapse \/ ResetStats \/ \E w \in Threads : Acquire(w) \/ TryAcquire(w)

BucketSpec == BucketInit /\ [][BucketNext]_bucketVars

-----------------------------------------------------------------------------
(* In no stretch of time are more requests let through than a full bucket and *)
(* the tokens of that time allow, however many threads wake at once           *)
(* (rate_limiter.py:44 "Token bucket rate limiter for API QPS control").      *)
RateBounded ==
    \A from \in 0..time : since[from] * Cost <= Capacity + (time - from) * Rate

(* What is in the bucket is what no thread has taken.                         *)
BucketTypeOK ==
    /\ time \in 0..MaxClock /\ bucket \in [tokens: 0..Capacity, at: 0..time]
    /\ sleeping \in [Threads -> Int] /\ limited \in {0, 1}
    /\ since \in [0..MaxClock -> Nat]
=============================================================================
