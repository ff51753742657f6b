-------------------------- MODULE CollectorProofs --------------------------
(***************************************************************************)
(* Proofs about what holds the collectors back: TokenBucket, for any       *)
(* threads, rate and capacity, and ArxivApi, for any queries and limits;   *)
(* and, for any sources, servers, caps and failures of Ingest, that the    *)
(* validators a cache row keeps promise no more than the items table holds.*)
(***************************************************************************)
EXTENDS TokenBucket, ArxivApi, Ingest, SequenceTheorems, TLAPS

(* The bucket *)

(* RateBounded says nothing of what is still in the bucket, so it is not      *)
(* inductive.  What was let through from a tick on and what is left were      *)
(* either in a full bucket or came in after that tick.                        *)
Accounted ==
    /\ \A s \in 0..bucket.at : since[s] * Cost + bucket.tokens <= Capacity + (bucket.at - s) * Rate
    /\ \A s \in 0..MaxClock : s > bucket.at => since[s] = 0

BucketInv == BucketTypeOK /\ Accounted

LEMMA BucketStarts == BucketInit => BucketInv
BY BucketAssumption DEF BucketInit, BucketInv, BucketTypeOK, Accounted, Awake

LEMMA Product == ASSUME NEW a \in Nat, NEW b \in Nat PROVE a * b \in Nat
OBVIOUS

LEMMA Shift ==
    ASSUME NEW a \in Int, NEW b \in Int, NEW r \in Int
    PROVE  a * r + b * r = (a + b) * r
OBVIOUS

(* What a look at the bucket finds keeps the account up to the present.       *)
LEMMA Refilled ==
    ASSUME BucketInv
    PROVE  LET full == Refill(bucket) IN
             /\ full \in [tokens: 0..Capacity, at: 0..time] /\ full.at = time
             /\ \A s \in 0..time : since[s] * Cost + full.tokens <= Capacity + (time - s) * Rate
<1> DEFINE more == (time - bucket.at) * Rate
           full == Refill(bucket)
<1>1. /\ time \in Nat /\ bucket.at \in Nat /\ bucket.at <= time /\ time <= MaxClock
      /\ bucket.tokens \in 0..Capacity
      /\ Rate \in Nat /\ Cost \in Nat /\ Capacity \in Nat /\ MaxClock \in Nat
    BY BucketAssumption DEF BucketInv, BucketTypeOK
<1>2. more \in Nat
  <2>1. time - bucket.at \in Nat
      BY <1>1
  <2>2. QED
      BY <1>1, <2>1, Product
<1>3. full = [tokens |-> Lesser(Capacity, bucket.tokens + more), at |-> time]
    BY DEF Refill
<1> HIDE DEF more, full
<1>4. full.tokens \in 0..Capacity /\ full.tokens <= bucket.tokens + more
    BY <1>1, <1>2, <1>3 DEF Lesser
<1>5. ASSUME NEW s \in 0..time
      PROVE  since[s] * Cost + full.tokens <= Capacity + (time - s) * Rate
  <2>1. since[s] \in Nat /\ since[s] * Cost \in Nat
      BY <1>1, Product DEF BucketInv, BucketTypeOK
  <2>2. CASE s <= bucket.at
    <3>1. since[s] * Cost + bucket.tokens <= Capacity + (bucket.at - s) * Rate
        BY <1>1, <2>2 DEF BucketInv, Accounted
    <3>2. (bucket.at - s) * Rate + more = (time - s) * Rate
      <4>1. (bucket.at - s) * Rate + (time - bucket.at) * Rate
              = ((bucket.at - s) + (time - bucket.at)) * Rate
          BY <1>1, Shift
      <4>2. (bucket.at - s) + (time - bucket.at) = time - s
          BY <1>1
      <4>3. QED
          BY <4>1, <4>2 DEF more
    <3>3. (bucket.at - s) * Rate \in Int /\ (time - s) * Rate \in Int
        BY <1>1
    <3>4. QED
        BY <1>1, <1>2, <1>4, <2>1, <3>1, <3>2, <3>3
  <2>3. CASE s > bucket.at
    <3>1. since[s] = 0
        BY <1>1, <2>3 DEF BucketInv, Accounted
    <3>2. (time - s) * Rate \in Nat
      <4>1. time - s \in Nat
          BY <1>1
      <4>2. QED
          BY <1>1, <4>1, Product
    <3>3. since[s] * Cost = 0
        BY <1>1, <3>1
    <3>4. QED
        BY <1>1, <1>4, <3>2, <3>3
  <2>4. QED
      BY <1>1, <2>2, <2>3
<1>6. QED
    BY <1>1, <1>3, <1>4, <1>5 DEF full

(* Whoever takes a token puts it down from the present back.                  *)
LEMMA Taken ==
    ASSUME BucketInv, TakeToken(Refill(bucket)), UNCHANGED time,
           sleeping' \in [Threads -> Int]
    PROVE  BucketInv'
<1> DEFINE full == Refill(bucket)
<1>1. /\ full \in [tokens: 0..Capacity, at: 0..time] /\ full.at = time
      /\ \A s \in 0..time : since[s] * Cost + full.tokens <= Capacity + (time - s) * Rate
    BY Refilled
<1>2. full.tokens >= Cost /\ bucket' = [full EXCEPT !.tokens = full.tokens - Cost]
    BY DEF TakeToken
<1> HIDE DEF full
<1>3. /\ time \in Nat /\ time <= MaxClock /\ MaxClock \in Nat /\ Cost \in Nat /\ Capacity \in Nat
      /\ Rate \in Nat /\ since \in [0..MaxClock -> Nat]
    BY BucketAssumption DEF BucketInv, BucketTypeOK
<1>4. bucket' \in [tokens: 0..Capacity, at: 0..time] /\ bucket'.at = time
      /\ bucket'.tokens = full.tokens - Cost
    BY <1>1, <1>2, <1>3
<1>5. /\ since' \in [0..MaxClock -> Nat]
      /\ \A s \in 0..MaxClock : since'[s] = IF s <= time THEN since[s] + 1 ELSE since[s]
    BY <1>3 DEF TakeToken
<1>6. ASSUME NEW s \in 0..time
      PROVE  since'[s] * Cost + bucket'.tokens <= Capacity + (time - s) * Rate
  <2>1. since[s] \in Nat /\ since'[s] = since[s] + 1
      BY <1>3, <1>5
  <2>2. since'[s] * Cost = since[s] * Cost + Cost
      BY <1>3, <2>1
  <2>3. full.tokens \in Int /\ Cost \in Int
      BY <1>1, <1>3
  <2> DEFINE was == since[s] * Cost
             room == Capacity + (time - s) * Rate
  <2>4. was \in Nat
      BY <1>3, <2>1, Product
  <2>5. room \in Int
    <3>1. time - s \in Nat
        BY <1>3
    <3>2. (time - s) * Rate \in Nat
        BY <1>3, <3>1, Product
    <3>3. QED
        BY <1>3, <3>2
  <2>6. was + full.tokens <= room /\ since'[s] * Cost = was + Cost
      BY <1>1, <2>2
  <2> HIDE DEF was, room
  <2>7. (was + Cost) + (full.tokens - Cost) <= room
      BY <2>3, <2>4, <2>5, <2>6
  <2>8. QED
      BY <1>4, <2>6, <2>7 DEF room
<1>7. ASSUME NEW s \in 0..MaxClock, s > time PROVE since'[s] = 0
    BY <1>3, <1>5, <1>7 DEF BucketInv, Accounted, BucketTypeOK
<1>8. UNCHANGED limited
    BY DEF TakeToken
<1>9. QED
    BY <1>3, <1>4, <1>5, <1>6, <1>7, <1>8 DEF BucketInv, BucketTypeOK, Accounted

(* Whoever finds too little leaves the bucket counted up to the present.      *)
LEMMA Waited ==
    ASSUME BucketInv, bucket' = Refill(bucket), limited' = 1, UNCHANGED <<time, since>>,
           sleeping' \in [Threads -> Int]
    PROVE  BucketInv'
<1>1. /\ bucket' \in [tokens: 0..Capacity, at: 0..time] /\ bucket'.at = time
      /\ \A s \in 0..time : since[s] * Cost + bucket'.tokens <= Capacity + (time - s) * Rate
    BY Refilled
<1>2. \A s \in 0..MaxClock : s > time => since[s] = 0
    BY BucketAssumption DEF BucketInv, Accounted, BucketTypeOK
<1>3. QED
    BY <1>1, <1>2 DEF BucketInv, BucketTypeOK, Accounted

LEMMA StepBucketInv == BucketInv /\ [BucketNext]_bucketVars => BucketInv'
<1> SUFFICES ASSUME BucketInv, [BucketNext]_bucketVars PROVE BucketInv'
    OBVIOUS
<1>1. sleeping \in [Threads -> Int]
    BY DEF BucketInv, BucketTypeOK
<1>2. ASSUME NEW w \in Threads, Acquire(w) PROVE BucketInv'
  <2> DEFINE full == Refill(bucket)
  <2>1. CASE TakeToken(full) /\ sleeping' = [sleeping EXCEPT ![w] = Awake]
    <3>1. sleeping' \in [Threads -> Int]
        BY <1>1, <2>1 DEF Awake
    <3>2. QED
        BY <1>2, <2>1, <3>1, Taken DEF Acquire
  <2>2. CASE /\ bucket' = full /\ limited' = 1 /\ UNCHANGED since
             /\ sleeping' = [sleeping EXCEPT ![w] = time + (Cost - full.tokens + Rate - 1) \div Rate]
    <3>1. full.tokens \in Int /\ time \in Int /\ Cost \in Int /\ Rate \in Nat \ {0}
        BY Refilled, BucketAssumption DEF BucketInv, BucketTypeOK
    <3> HIDE DEF full
    <3>2. time + (Cost - full.tokens + Rate - 1) \div Rate \in Int
        BY <3>1
    <3>3. sleeping' \in [Threads -> Int]
        BY <1>1, <2>2, <3>2
    <3>4. QED
        BY <1>2, <2>2, <3>3, Waited DEF Acquire, full
  <2>3. QED
      BY <1>2, <2>1, <2>2 DEF Acquire
<1>3. ASSUME NEW w \in Threads, TryAcquire(w) PROVE BucketInv'
    BY <1>1, <1>3, Taken, Waited DEF TryAcquire
<1>4. CASE Elapse
    BY <1>4, BucketAssumption DEF Elapse, BucketInv, BucketTypeOK, Accounted
<1>5. CASE ResetStats \/ UNCHANGED bucketVars
    BY <1>5 DEF ResetStats, bucketVars, BucketInv, BucketTypeOK, Accounted
<1>6. QED
    BY <1>2, <1>3, <1>4, <1>5 DEF BucketNext

LEMMA BucketInductive == BucketSpec => []BucketInv
BY BucketStarts, StepBucketInv, PTL DEF BucketSpec

(* TokenBucketRateLimiter: from any moment on, at most a full bucket and the  *)
(* tokens of the time since are handed out, whichever threads race for them.  *)
THEOREM RateIsBounded == BucketSpec => []RateBounded
<1>1. BucketInv => RateBounded
  <2> SUFFICES ASSUME BucketInv, NEW s \in 0..time
               PROVE  since[s] * Cost <= Capacity + (time - s) * Rate
      BY DEF RateBounded
  <2>1. Refill(bucket).tokens \in Nat
        /\ since[s] * Cost + Refill(bucket).tokens <= Capacity + (time - s) * Rate
      BY Refilled, BucketAssumption
  <2>2. since[s] \in Nat /\ time \in Nat /\ Cost \in Nat /\ Rate \in Nat /\ Capacity \in Nat
      BY BucketAssumption DEF BucketInv, BucketTypeOK
  <2>3. since[s] * Cost \in Int /\ (time - s) * Rate \in Int
      BY <2>2
  <2>4. QED
      BY <2>1, <2>2, <2>3
<1>2. QED
    BY <1>1, BucketInductive, PTL

(* The bucket holds between nothing and its capacity, and its history is one. *)
THEOREM BucketTypes == BucketSpec => []BucketTypeOK
<1>1. BucketInv => BucketTypeOK
    BY DEF BucketInv
<1>2. QED
    BY <1>1, BucketInductive, PTL

-----------------------------------------------------------------------------
(* The arXiv limiter *)

(* Polite compares a request with the one before it and with a 429 that may   *)
(* lie several retries, pages and sources back.  The limiter remembers both:  *)
(* its last request is no earlier than the last one sent, and it is blocked   *)
(* at least until the time the 429 asked for.                                 *)
LimiterKnows ==
    /\ sent # <<>> => ~limiter.first /\ limiter.last >= sent[Len(sent)]
    /\ limiter.blocked >= quietUntil
    /\ limiter.first => quietUntil = 0

ClockTyped ==
    /\ now \in Nat /\ attempt \in 0..Attempts - 1 /\ sent \in Seq(Nat) /\ quietUntil \in Nat
    /\ limiter \in [first: BOOLEAN, last: Nat, count: Nat, start: Nat, blocked: Nat]

ClockInv == ClockTyped /\ LimiterKnows

LEMMA ClockStarts == ApiInit => ClockInv
BY ApiAssumption DEF ApiInit, ClockInv, ClockTyped, LimiterKnows, Limiter

(* The limiter lets a request through when it may be sent.                    *)
LEMMA LetThrough ==
    ASSUME ClockInv
    PROVE  LET l == WaitIfNeeded(limiter, now) IN
             /\ l \in [first: {FALSE}, last: Nat, count: Nat, start: Nat, blocked: Nat]
             /\ l.blocked = limiter.blocked /\ l.last >= now /\ l.last >= quietUntil
             /\ ~limiter.first => l.last - limiter.last >= MinInterval
<1> DEFINE l == WaitIfNeeded(limiter, now)
           free == IF now < limiter.blocked
                     THEN [at |-> limiter.blocked, count |-> 0, start |-> limiter.blocked]
                     ELSE [at |-> now, count |-> limiter.count, start |-> limiter.start]
           full == free.count >= MaxPerWindow
           spaced == Later(IF full THEN Later(free.at, free.start + WindowDuration) ELSE free.at,
                           limiter.last + MinInterval)
           at == IF limiter.first THEN now + Warmup ELSE spaced
           count == IF limiter.first \/ full THEN 0 ELSE free.count
<1>1. /\ now \in Nat /\ quietUntil \in Nat
      /\ limiter.first \in BOOLEAN /\ limiter.last \in Nat /\ limiter.count \in Nat
      /\ limiter.start \in Nat /\ limiter.blocked \in Nat
      /\ {MinInterval, MaxPerWindow, WindowDuration, Warmup} \subseteq Nat
    BY ApiAssumption DEF ClockInv, ClockTyped
<1>2. /\ free.at \in Nat /\ free.count \in Nat /\ free.start \in Nat
      /\ free.at >= now /\ free.at >= limiter.blocked
    BY <1>1
<1>3. l = [first |-> FALSE, last |-> at, blocked |-> limiter.blocked, count |-> count + 1,
           start |-> IF count = 0 THEN at ELSE free.start]
    BY DEF WaitIfNeeded
<1> HIDE DEF free, l
<1>4. /\ spaced \in Nat /\ spaced >= free.at /\ spaced - limiter.last >= MinInterval
    BY <1>1, <1>2 DEF Later
<1> HIDE DEF spaced
<1>5. at \in Nat /\ at >= now /\ count \in Nat
    BY <1>1, <1>2, <1>4
<1>6. at >= quietUntil
  <2>1. limiter.blocked >= quietUntil /\ (limiter.first => quietUntil <= now)
      BY <1>1 DEF ClockInv, LimiterKnows
  <2>2. CASE limiter.first
      BY <1>1, <2>1, <2>2
  <2>3. CASE ~limiter.first
      BY <1>1, <1>2, <1>4, <2>1, <2>3
  <2>4. QED
      BY <2>2, <2>3
<1>7. ~limiter.first => at - limiter.last >= MinInterval
    BY <1>4
<1> HIDE DEF at, count
<1>8. QED
    BY <1>1, <1>2, <1>3, <1>5, <1>6, <1>7 DEF l

(* What Send and Failed do to the history keeps its last two apart.           *)
LEMMA Recorded ==
    ASSUME ClockInv, Sent(WaitIfNeeded(limiter, now))
    PROVE  LET n == Len(sent')
               l == WaitIfNeeded(limiter, now)
           IN  /\ sent' \in Seq(Nat) /\ n \in Nat \ {0} /\ sent'[n] = l.last
               /\ n > 1 => sent'[n] - sent'[n - 1] >= MinInterval
<1> DEFINE l == WaitIfNeeded(limiter, now)
           kept == IF Len(sent) > MaxPerWindow THEN Tail(sent) ELSE sent
<1>1. /\ l.last \in Nat
      /\ ~limiter.first => l.last - limiter.last >= MinInterval
    BY LetThrough
<1>2. sent \in Seq(Nat) /\ MaxPerWindow \in Nat /\ MinInterval \in Nat /\ limiter.last \in Nat
    BY ApiAssumption DEF ClockInv, ClockTyped
<1>3. sent' = Append(kept, l.last)
    BY DEF Sent
<1> HIDE DEF l
<1>4. kept \in Seq(Nat) /\ (kept # <<>> => sent # <<>> /\ kept[Len(kept)] = sent[Len(sent)])
  <2>1. CASE Len(sent) > MaxPerWindow
    <3>1. sent # <<>>
        BY <1>2, <2>1
    <3>2. kept \in Seq(Nat) /\ Len(kept) = Len(sent) - 1
          /\ \A i \in 1..Len(kept) : kept[i] = sent[i + 1]
        BY <1>2, <2>1, <3>1, HeadTailProperties
    <3>3. kept # <<>> => Len(kept) \in 1..Len(kept)
        BY <3>2
    <3>4. QED
        BY <1>2, <3>1, <3>2, <3>3
  <2>2. CASE ~(Len(sent) > MaxPerWindow)
      BY <1>2, <2>2
  <2>3. QED
      BY <2>1, <2>2
<1> HIDE DEF kept
<1>5. /\ sent' \in Seq(Nat) /\ Len(sent') = Len(kept) + 1 /\ sent'[Len(sent')] = l.last
      /\ \A i \in 1..Len(kept) : sent'[i] = kept[i]
    BY <1>1, <1>3, <1>4
<1>6. ASSUME Len(sent') > 1 PROVE sent'[Len(sent')] - sent'[Len(sent') - 1] >= MinInterval
  <2>1. kept # <<>> /\ Len(kept) \in 1..Len(kept)
      BY <1>4, <1>5, <1>6
  <2>2. sent'[Len(sent') - 1] = sent[Len(sent)] /\ sent # <<>>
      BY <1>4, <1>5, <2>1
  <2>3. sent[Len(sent)] \in Nat /\ limiter.last >= sent[Len(sent)] /\ ~limiter.first
      BY <1>2, <2>2 DEF ClockInv, LimiterKnows
  <2>4. QED
      BY <1>1, <1>2, <1>5, <2>2, <2>3
<1>7. QED
    BY <1>4, <1>5, <1>6 DEF l

LEMMA SettledTwice ==
    ASSUME ClockInv, Settle("failed") \/ GiveUp PROVE attempt' \in 0..Attempts - 1
BY DEF Settle, GiveUp, ClockInv, ClockTyped

(* One request, whatever comes of it.                                         *)
LEMMA RequestKnows == ClockInv /\ Request => ClockInv' /\ SendPolitely
<1> SUFFICES ASSUME ClockInv, Request PROVE ClockInv' /\ SendPolitely
    OBVIOUS
<1> DEFINE l == WaitIfNeeded(limiter, now)
<1>1. /\ l \in [first: {FALSE}, last: Nat, count: Nat, start: Nat, blocked: Nat]
      /\ l.blocked = limiter.blocked /\ l.last >= quietUntil
    BY LetThrough
<1>2. /\ Attempts \in Nat \ {0} /\ Cooldown \in Nat /\ attempt \in 0..Attempts - 1 /\ quietUntil \in Nat
      /\ limiter.blocked \in Nat /\ limiter.blocked >= quietUntil
    BY ApiAssumption DEF ClockInv, ClockTyped, LimiterKnows
<1>3. PICK gap \in Gaps : \/ Answer(l, gap) \/ Malformed(l, gap) \/ RefusedRequest(l, gap)
                          \/ RateLimited(l, gap) \/ Failed(l, gap)
    BY DEF Request
<1>4. gap \in Nat
    BY <1>3, ApiAssumption
<1>5. Sent(l)
    BY <1>3 DEF Answer, Malformed, RefusedRequest, RateLimited, Failed, Send
<1>6. /\ sent' \in Seq(Nat) /\ Len(sent') \in Nat \ {0} /\ sent'[Len(sent')] = l.last
      /\ Len(sent') > 1 => sent'[Len(sent')] - sent'[Len(sent') - 1] >= MinInterval
    BY <1>5, Recorded
<1> HIDE DEF l
<1>7. SendPolitely
    BY <1>1, <1>6 DEF SendPolitely
<1>8. ASSUME now' \in Nat, attempt' \in 0..Attempts - 1, limiter' = l, UNCHANGED quietUntil
      PROVE  ClockInv'
  <2>1. /\ l \in [first: BOOLEAN, last: Nat, count: Nat, start: Nat, blocked: Nat]
        /\ l.first = FALSE /\ l.last \in Nat /\ l.blocked \in Nat
      BY <1>1
  <2>2. ClockTyped'
      BY <1>2, <1>6, <1>8, <2>1 DEF ClockTyped
  <2>3. LimiterKnows'
      BY <1>1, <1>2, <1>6, <1>8, <2>1 DEF LimiterKnows
  <2>4. QED
      BY <2>2, <2>3 DEF ClockInv
<1>9. CASE Answer(l, gap)
  <2>1. attempt' \in 0..Attempts - 1
      BY <1>2, <1>9 DEF Answer
  <2>2. QED
      BY <1>1, <1>4, <1>7, <1>8, <1>9, <2>1 DEF Answer, Send
<1>10. CASE Malformed(l, gap) \/ RefusedRequest(l, gap)
    BY <1>1, <1>4, <1>7, <1>8, <1>10, SettledTwice DEF Malformed, RefusedRequest, Send
<1>11. CASE RateLimited(l, gap)
  <2>1. now' = l.last + gap /\ now' \in Nat
      BY <1>1, <1>4, <1>11 DEF RateLimited, Send
  <2>2. CASE LastAttempt
      BY <1>7, <1>8, <1>11, <2>1, <2>2, SettledTwice DEF RateLimited
  <2>3. CASE ~LastAttempt
    <3>1. PICK retryAfter \in RetryAfters :
            /\ limiter' = NotifyRateLimited(l, now', retryAfter)
            /\ quietUntil' = now' + Later(retryAfter, Cooldown)
            /\ Retry
        BY <1>11, <2>3 DEF RateLimited
    <3>2. attempt' \in 0..Attempts - 1
        BY <1>2, <2>3, <3>1 DEF Retry, LastAttempt
    <3> DEFINE until == Later(l.blocked, now' + Later(retryAfter, Cooldown))
    <3>3. retryAfter \in Nat
        BY <3>1, ApiAssumption
    <3>4. /\ quietUntil' \in Nat /\ until \in Nat /\ until >= quietUntil' /\ until >= l.last
        BY <1>1, <1>2, <1>4, <2>1, <3>1, <3>3 DEF Later
    <3>5. /\ limiter' \in [first: {FALSE}, last: Nat, count: Nat, start: Nat, blocked: Nat]
          /\ limiter'.last = until /\ limiter'.blocked = until
        BY <1>1, <3>1, <3>4 DEF NotifyRateLimited
    <3> HIDE DEF until
    <3>6. ClockInv'
        BY <1>6, <2>1, <3>2, <3>4, <3>5 DEF ClockInv, ClockTyped, LimiterKnows
    <3>7. QED
        BY <1>7, <3>6
  <2>4. QED
      BY <2>2, <2>3
<1>12. CASE Failed(l, gap)
  <2>1. CASE LastAttempt
      BY <1>1, <1>4, <1>7, <1>8, <1>12, <2>1, SettledTwice DEF Failed
  <2>2. CASE ~LastAttempt
    <3>1. attempt' \in 0..Attempts - 1
        BY <1>2, <1>12, <2>2 DEF Failed, Retry, LastAttempt
    <3>2. Backoff[attempt] \in Nat
        BY <1>2, ApiAssumption
    <3>3. now' \in Nat
        BY <1>1, <1>4, <1>12, <2>2, <3>2 DEF Failed
    <3>4. QED
        BY <1>7, <1>8, <1>12, <3>1, <3>3 DEF Failed
  <2>3. QED
      BY <2>1, <2>2
<1>13. QED
    BY <1>3, <1>9, <1>10, <1>11, <1>12

LEMMA ClockStep == ClockInv /\ [ApiNext]_apiVars => ClockInv' /\ SendPolitely
<1> SUFFICES ASSUME ClockInv, [ApiNext]_apiVars PROVE ClockInv' /\ SendPolitely
    OBVIOUS
<1>1. ASSUME UNCHANGED clockVars, attempt' \in 0..Attempts - 1 PROVE ClockInv' /\ SendPolitely
    BY <1>1 DEF clockVars, ClockInv, ClockTyped, LimiterKnows, SendPolitely
<1>2. 0 \in 0..Attempts - 1 /\ attempt \in 0..Attempts - 1
  <2>1. Attempts \in Nat \ {0}
      BY ApiAssumption
  <2>2. QED
      BY <2>1 DEF ClockInv, ClockTyped
<1>3. CASE StartQuery
    BY <1>1, <1>2, <1>3 DEF StartQuery, clockVars
<1>4. CASE LateIndexed
    BY <1>1, <1>2, <1>4 DEF LateIndexed, clockVars
<1>5. CASE Request
    BY <1>5, RequestKnows
<1>6. CASE UNCHANGED apiVars
    BY <1>1, <1>2, <1>6 DEF apiVars, queryVars, clockVars
<1>7. QED
    BY <1>3, <1>4, <1>5, <1>6 DEF ApiNext

(* ArxivApiRateLimiter: no two requests of a process are closer than the      *)
(* interval and none is sent while a 429 that was heeded asks for silence,    *)
(* for any queries, limits, retries and answers.                              *)
THEOREM RequestsPolite == ApiSpec => Polite
<1>1. ClockInv /\ [ApiNext]_apiVars => [SendPolitely]_apiVars
    BY ClockStep
<1>2. QED
    BY ClockStarts, ClockStep, <1>1, PTL DEF ApiSpec, Polite

-----------------------------------------------------------------------------
(* The pages of a window *)

(* WindowCovered is about the source that ended last; before that, the pages  *)
(* read so far hold no paper of the promise that was not taken, and those of  *)
(* the promise are still in the list, whatever was indexed in between.        *)
PagesRead ==
    Collecting =>
        /\ page * PageSize <= Len(listed)
        /\ promised \subseteq ToSet(listed) /\ promised \subseteq 1..Len(listed)
        /\ \A i \in 1..page * PageSize : listed[i] \in promised \ Unparsed => listed[i] \in found

PagesTyped ==
    /\ source \in 0..Len(Backfill) /\ outcome \in Seq({"done", "partial", "cut", "failed"})
    /\ source \in {Len(outcome), Len(outcome) + 1}
    /\ page \in Nat /\ listed \in Seq(Nat)

WindowInv == PagesTyped /\ PagesRead /\ WindowCovered

LEMMA PagesStart == ApiInit => WindowInv
BY ApiAssumption
   DEF ApiInit, WindowInv, PagesTyped, PagesRead, WindowCovered, Collecting

(* What InsertAt gives: e at its place, what was there before it and after it.*)
LEMMA Inserted ==
    ASSUME NEW s \in Seq(Nat), NEW e \in Nat, NEW i \in 1..Len(s) + 1
    PROVE  LET t == InsertAt(s, i, e) IN
             /\ t \in Seq(Nat) /\ Len(t) = Len(s) + 1
             /\ \A k \in 1..Len(t) : t[k] = IF k < i THEN s[k] ELSE IF k = i THEN e ELSE s[k - 1]
<1> DEFINE before == SubSeq(s, 1, i - 1)
           after == SubSeq(s, i, Len(s))
<1>1. /\ before \in Seq(Nat) /\ Len(before) = i - 1
      /\ \A k \in 1..i - 1 : before[k] = s[k]
    BY SubSeqProperties
<1>2. /\ after \in Seq(Nat) /\ Len(after) = Len(s) - i + 1
      /\ \A k \in 1..Len(s) - i + 1 : after[k] = s[i + k - 1]
    BY SubSeqProperties
<1>3. InsertAt(s, i, e) = before \o <<e>> \o after
    BY DEF InsertAt
<1> HIDE DEF before, after
<1> DEFINE first == before \o <<e>>
<1>4. /\ first \in Seq(Nat) /\ Len(first) = i
      /\ \A k \in 1..i : first[k] = IF k < i THEN s[k] ELSE e
    BY <1>1
<1> HIDE DEF first
<1>5. /\ first \o after \in Seq(Nat) /\ Len(first \o after) = Len(s) + 1
      /\ \A k \in 1..Len(s) + 1 : (first \o after)[k] = IF k <= i THEN first[k] ELSE after[k - i]
  <2>1. /\ first \o after \in Seq(Nat) /\ Len(first \o after) = Len(first) + Len(after)
        /\ \A k \in 1..Len(first) + Len(after) :
              (first \o after)[k] = IF k <= Len(first) THEN first[k] ELSE after[k - Len(first)]
      BY <1>2, <1>4, ConcatProperties
  <2>2. Len(first) + Len(after) = Len(s) + 1
      BY <1>2, <1>4
  <2>3. QED
      BY <1>4, <2>1, <2>2
<1>6. ASSUME NEW k \in 1..Len(s) + 1, k > i PROVE after[k - i] = s[k - 1]
  <2>1. k - i \in 1..Len(s) - i + 1 /\ i + (k - i) - 1 = k - 1
      BY <1>6
  <2>2. QED
      BY <1>2, <2>1
<1>7. QED
    BY <1>3, <1>4, <1>5, <1>6 DEF first

(* A paper indexed late moves down what is not read yet, and what is read; it *)
(* is none of the promise.                                                    *)
LEMMA IndexedLate == WindowInv /\ LateIndexed => WindowInv'
<1> SUFFICES ASSUME WindowInv, LateIndexed PROVE WindowInv'
    OBVIOUS
<1>1. /\ listed \in Seq(Nat) /\ page \in Nat /\ PageSize \in Nat
      /\ page * PageSize \in Nat
    BY ApiAssumption, Product DEF WindowInv, PagesTyped
<1>2. PICK i \in 1..Len(listed) + 1 : listed' = InsertAt(listed, i, Len(listed) + 1)
    BY DEF LateIndexed
<1>3. /\ listed' \in Seq(Nat) /\ Len(listed') = Len(listed) + 1
      /\ \A k \in 1..Len(listed) + 1 :
            listed'[k] = IF k < i THEN listed[k] ELSE IF k = i THEN Len(listed) + 1 ELSE listed[k - 1]
  <2>1. Len(listed) + 1 \in Nat
      BY <1>1
  <2> DEFINE t == InsertAt(listed, i, Len(listed) + 1)
  <2>2. /\ t \in Seq(Nat) /\ Len(t) = Len(listed) + 1
        /\ \A k \in 1..Len(t) : t[k] = IF k < i THEN listed[k] ELSE IF k = i THEN Len(listed) + 1 ELSE listed[k - 1]
      BY <1>1, <2>1, Inserted
  <2> HIDE DEF t
  <2>3. QED
      BY <1>2, <2>2 DEF t
<1>4. UNCHANGED <<source, page, found, outcome, promised, withheld>> /\ Collecting
    BY DEF LateIndexed
<1>5. PagesTyped'
    BY <1>3, <1>4 DEF WindowInv, PagesTyped
<1>6. WindowCovered'
    BY <1>4 DEF WindowCovered, Collecting
<1> DEFINE read == page * PageSize
<1>7. /\ read <= Len(listed) /\ promised \subseteq ToSet(listed) /\ promised \subseteq 1..Len(listed)
      /\ \A k \in 1..read : listed[k] \in promised \ Unparsed => listed[k] \in found
    BY <1>4 DEF WindowInv, PagesRead
<1>8. read \in Nat /\ page' * PageSize = read
    BY <1>1, <1>4
<1> HIDE DEF read
<1>9. ASSUME NEW k \in 1..read, listed'[k] \in promised \ Unparsed
      PROVE  listed'[k] \in found
  <2>1. k \in 1..Len(listed) + 1
      BY <1>1, <1>7, <1>8
  <2>2. listed'[k] # Len(listed) + 1
      BY <1>1, <1>7, <1>9
  <2>3. CASE k < i
      BY <1>3, <1>7, <1>9, <2>1, <2>3
  <2>4. CASE k > i
    <3>1. k - 1 \in 1..read /\ listed'[k] = listed[k - 1]
        BY <1>3, <1>8, <2>1, <2>4
    <3>2. QED
        BY <1>7, <1>9, <3>1
  <2>5. QED
      BY <1>3, <2>1, <2>2, <2>3, <2>4
<1>10. ASSUME NEW p \in promised PROVE p \in ToSet(listed')
  <2>1. PICK k \in 1..Len(listed) : p = listed[k]
      BY <1>1, <1>7 DEF ToSet
  <2>2. \E j \in 1..Len(listed) + 1 : listed'[j] = p
    <3>1. CASE k < i
      <4>1. k \in 1..Len(listed) + 1 /\ listed'[k] = p
          BY <1>1, <1>3, <2>1, <3>1
      <4>2. QED
          BY <4>1
    <3>2. CASE k >= i
      <4>1. k + 1 \in 1..Len(listed) + 1 /\ k + 1 # i /\ ~(k + 1 < i) /\ (k + 1) - 1 = k
          BY <1>1, <2>1, <3>2
      <4>2. listed'[k + 1] = p
          BY <1>3, <2>1, <4>1
      <4>3. QED
          BY <4>1, <4>2
    <3>3. QED
        BY <1>1, <2>1, <3>1, <3>2
  <2>3. DOMAIN listed' = 1..Len(listed) + 1
      BY <1>3
  <2>4. QED
      BY <2>2, <2>3 DEF ToSet
<1>11. PagesRead'
    BY <1>1, <1>3, <1>4, <1>7, <1>8, <1>9, <1>10 DEF PagesRead, Collecting
<1>12. QED
    BY <1>5, <1>6, <1>11 DEF WindowInv

(* The stretch of a page, and the entries the server sends of it.             *)
LEMMA StretchOfPage ==
    ASSUME PagesTyped, page * PageSize <= Len(listed)
    PROVE  LET read == page * PageSize
               end == (page + 1) * PageSize
           IN  /\ read \in Nat /\ end = read + PageSize
               /\ Stretch \in Seq(Nat)
               /\ Len(Stretch) = (IF end < Len(listed) THEN end ELSE Len(listed)) - read
               /\ \A k \in 1..Len(Stretch) : Stretch[k] = listed[read + k]
<1> DEFINE read == page * PageSize
           end == (page + 1) * PageSize
           last == IF end < Len(listed) THEN end ELSE Len(listed)
<1>1. /\ read \in Nat /\ end = read + PageSize /\ PageSize \in Nat \ {0}
      /\ listed \in Seq(Nat) /\ read <= Len(listed)
  <2>1. page \in Nat /\ PageSize \in Nat \ {0} /\ listed \in Seq(Nat)
      BY ApiAssumption DEF PagesTyped
  <2>2. (page + 1) * PageSize = page * PageSize + PageSize
      BY <2>1
  <2>3. QED
      BY <2>1, <2>2, Product
<1>2. Stretch = SubSeq(listed, read + 1, last)
    BY DEF Stretch
<1> HIDE DEF read, end
<1>3. last \in Nat /\ last >= read /\ last <= Len(listed)
    BY <1>1
<1> HIDE DEF last
<1>4. \A k \in read + 1..last : listed[k] \in Nat
    BY <1>1, <1>3
<1>5. /\ Stretch \in Seq(Nat)
      /\ Len(Stretch) = IF read + 1 <= last THEN last - (read + 1) + 1 ELSE 0
      /\ \A k \in 1..last - (read + 1) + 1 : Stretch[k] = listed[(read + 1) + k - 1]
    BY <1>1, <1>2, <1>3, <1>4, SubSeqProperties
<1>6. /\ Len(Stretch) = last - read
      /\ \A k \in 1..last - read : Stretch[k] = listed[read + k]
  <2>1. last - (read + 1) + 1 = last - read /\ \A k \in Int : (read + 1) + k - 1 = read + k
      BY <1>1, <1>3
  <2>2. Len(Stretch) = last - read
      BY <1>1, <1>3, <1>5
  <2>3. ASSUME NEW k \in 1..last - read PROVE Stretch[k] = listed[read + k]
    <3>1. k \in Int /\ k \in 1..last - (read + 1) + 1
        BY <2>1
    <3>2. Stretch[k] = listed[(read + 1) + k - 1]
        BY <1>5, <3>1
    <3>3. QED
        BY <2>1, <3>1, <3>2
  <2>4. QED
      BY <2>2, <2>3
<1>7. QED
    BY <1>1, <1>5, <1>6 DEF read, end, last

LEMMA EntriesOfPage ==
    ASSUME PagesTyped, page * PageSize <= Len(listed), NEW n \in 0..Len(Stretch)
    PROVE  /\ Entries(n) \in Seq(Nat) /\ Len(Entries(n)) = n
           /\ \A k \in 1..n : Entries(n)[k] = listed[page * PageSize + k]
<1> DEFINE read == page * PageSize
<1>1. /\ Stretch \in Seq(Nat)
      /\ \A k \in 1..Len(Stretch) : Stretch[k] = listed[read + k]
    BY StretchOfPage
<1> HIDE DEF read
<1>2. n \in Nat /\ n <= Len(Stretch) /\ \A k \in 1..n : Stretch[k] \in Nat
    BY <1>1
<1>3. /\ Entries(n) \in Seq(Nat) /\ Len(Entries(n)) = n
      /\ \A k \in 1..n : Entries(n)[k] = Stretch[k]
  <2>1. /\ Entries(n) \in Seq(Nat) /\ Len(Entries(n)) = IF 1 <= n THEN n - 1 + 1 ELSE 0
        /\ \A k \in 1..n - 1 + 1 : Entries(n)[k] = Stretch[1 + k - 1]
      BY <1>1, <1>2, SubSeqProperties DEF Entries
  <2>2. n - 1 + 1 = n /\ \A k \in Int : 1 + k - 1 = k
      BY <1>2
  <2>3. QED
      BY <1>2, <2>1, <2>2
<1>4. \A k \in 1..n : Entries(n)[k] = listed[read + k]
    BY <1>1, <1>2, <1>3
<1>5. QED
    BY <1>3, <1>4 DEF read

(* A page that ends the query is the last of the list, or the server stopped  *)
(* short; after any other page the next one begins where it ended.            *)
LEMMA LastPageEnds ==
    ASSUME PagesTyped, page * PageSize <= Len(listed),
           NEW n \in 0..Len(Stretch), NEW total \in {-1, Len(listed)}
    PROVE  LET read == page * PageSize
               end == (page + 1) * PageSize
           IN  /\ Entries(n) = <<>> \/ IsLastPage(Entries(n), total) =>
                     n < Len(Stretch) \/ read + n = Len(listed)
               /\ ~IsLastPage(Entries(n), total) => end <= Len(listed) /\ read + n = end
<1> DEFINE read == page * PageSize
           end == (page + 1) * PageSize
<1>1. /\ read \in Nat /\ end = read + PageSize
      /\ Len(Stretch) = (IF end < Len(listed) THEN end ELSE Len(listed)) - read
    BY StretchOfPage
<1>2. PageSize \in Nat \ {0} /\ Len(listed) \in Nat /\ read <= Len(listed)
    BY ApiAssumption DEF PagesTyped
<1>3. Len(Entries(n)) = n
    BY EntriesOfPage
<1>4. IsLastPage(Entries(n), total) <=>
        \/ total # -1 /\ read + n >= total
        \/ n < PageSize
    BY <1>3 DEF IsLastPage
<1>5. Entries(n) = <<>> => n = 0
    BY <1>3
<1> HIDE DEF read, end
<1>6. QED
    BY <1>1, <1>2, <1>4, <1>5 DEF read, end

(* What arrives of a page is taken.                                           *)
LEMMA PageTaken ==
    ASSUME PagesTyped, PagesRead, Collecting, NEW n \in 0..Len(Stretch), found' = found \cup NewOf(Entries(n))
    PROVE  \A i \in 1..page * PageSize + n : listed[i] \in promised \ Unparsed => listed[i] \in found'
<1> DEFINE read == page * PageSize
<1>1. read <= Len(listed)
    BY DEF PagesRead
<1>2. /\ read \in Nat /\ n \in Nat
      /\ Entries(n) \in Seq(Nat) /\ Len(Entries(n)) = n
      /\ \A k \in 1..n : Entries(n)[k] = listed[read + k]
  <2>1. read \in Nat /\ Stretch \in Seq(Nat)
      BY <1>1, StretchOfPage
  <2>2. /\ Entries(n) \in Seq(Nat) /\ Len(Entries(n)) = n
        /\ \A k \in 1..n : Entries(n)[k] = listed[read + k]
      BY <1>1, EntriesOfPage
  <2> HIDE DEF read
  <2>3. QED
      BY <2>1, <2>2
<1>3. \A i \in 1..read : listed[i] \in promised \ Unparsed => listed[i] \in found
    BY DEF PagesRead
<1>4. \A k \in 1..n : listed[read + k] \in ToSet(Entries(n))
    BY <1>2 DEF ToSet
<1> HIDE DEF read
<1>5. ASSUME NEW i \in 1..read + n, listed[i] \in promised \ Unparsed
      PROVE  listed[i] \in found'
  <2>1. CASE i <= read
      BY <1>2, <1>3, <1>5, <2>1
  <2>2. CASE i > read
    <3>1. i - read \in 1..n /\ read + (i - read) = i
        BY <1>2, <2>2
    <3>2. listed[i] \in ToSet(Entries(n))
        BY <1>4, <3>1
    <3>3. QED
        BY <1>5, <3>2 DEF NewOf
  <2>3. QED
      BY <1>2, <2>1, <2>2
<1>6. QED
    BY <1>5 DEF read

LEMMA PageAnswered ==
    ASSUME WindowInv, Collecting, NEW l, NEW gap, Answer(l, gap) PROVE WindowInv'
<1> DEFINE read == page * PageSize
           end == (page + 1) * PageSize
<1>1. /\ PagesTyped /\ PagesRead
      /\ source = Len(outcome) + 1 /\ outcome \in Seq({"done", "partial", "cut", "failed"})
      /\ read <= Len(listed) /\ promised \subseteq ToSet(listed) /\ promised \subseteq 1..Len(listed)
    BY DEF WindowInv, PagesRead, PagesTyped, Collecting
<1>2. UNCHANGED <<source, listed, promised>>
    BY DEF Answer
<1>3. PICK n \in 0..Len(Stretch) : \E total \in {-1, Len(listed)} :
        /\ found' = found \cup NewOf(Entries(n))
        /\ withheld' = IF n < Len(Stretch) THEN {listed[i] : i \in page * PageSize + n + 1..Len(listed)} ELSE {}
        /\ IF Entries(n) = <<>> \/ IsLastPage(Entries(n), total)
             THEN outcome' = Append(outcome, "done") /\ UNCHANGED <<page, attempt>>
             ELSE IF page + 1 = ResolveMaxPages
               THEN outcome' = Append(outcome, "cut") /\ UNCHANGED <<page, attempt>>
               ELSE page' = page + 1 /\ attempt' = 0 /\ UNCHANGED outcome
    BY DEF Answer
<1>4. PICK total \in {-1, Len(listed)} :
        /\ found' = found \cup NewOf(Entries(n))
        /\ withheld' = IF n < Len(Stretch) THEN {listed[i] : i \in page * PageSize + n + 1..Len(listed)} ELSE {}
        /\ IF Entries(n) = <<>> \/ IsLastPage(Entries(n), total)
             THEN outcome' = Append(outcome, "done") /\ UNCHANGED <<page, attempt>>
             ELSE IF page + 1 = ResolveMaxPages
               THEN outcome' = Append(outcome, "cut") /\ UNCHANGED <<page, attempt>>
               ELSE page' = page + 1 /\ attempt' = 0 /\ UNCHANGED outcome
    BY <1>3
<1> DEFINE last == Entries(n) = <<>> \/ IsLastPage(Entries(n), total)
<1>5. \A i \in 1..read + n : listed[i] \in promised \ Unparsed => listed[i] \in found'
    BY <1>1, <1>4, PageTaken
<1>6. /\ last => n < Len(Stretch) \/ read + n = Len(listed)
      /\ ~last => end <= Len(listed) /\ read + n = end
    BY <1>1, LastPageEnds
<1>7. read \in Nat /\ n \in Nat
    BY <1>1, StretchOfPage
<1>8. withheld' = IF n < Len(Stretch) THEN {listed[i] : i \in read + n + 1..Len(listed)} ELSE {}
    BY <1>4
<1>9. IF last THEN outcome' = Append(outcome, "done") /\ UNCHANGED page
      ELSE IF page + 1 = ResolveMaxPages THEN outcome' = Append(outcome, "cut") /\ UNCHANGED page
      ELSE page' = page + 1 /\ UNCHANGED outcome
    BY <1>4
<1> HIDE DEF read, end, last
<1>10. CASE last
  <2>1. outcome' = Append(outcome, "done") /\ UNCHANGED page
      BY <1>9, <1>10
  <2>2. PagesTyped' /\ ~Collecting'
      BY <1>1, <1>2, <2>1 DEF PagesTyped, Collecting
  <2>3. ASSUME NEW p \in promised \ Unparsed PROVE p \in found' \cup withheld'
    <3>1. PICK i \in 1..Len(listed) : p = listed[i]
      <4>1. PICK i \in DOMAIN listed : p = listed[i]
          BY <1>1 DEF ToSet
      <4>2. QED
          BY <1>1, <4>1 DEF PagesTyped
    <3>2. CASE i <= read + n
        BY <1>5, <1>7, <3>1, <3>2
    <3>3. CASE i > read + n
      <4>1. i \in read + n + 1..Len(listed) /\ n < Len(Stretch)
          BY <1>6, <1>7, <1>10, <3>1, <3>3
      <4>2. QED
          BY <1>8, <3>1, <4>1
    <3>4. QED
        BY <1>7, <3>1, <3>2, <3>3
  <2>4. QED
      BY <1>2, <2>2, <2>3 DEF WindowInv, WindowCovered, PagesRead
<1>11. CASE ~last /\ outcome' = Append(outcome, "cut") /\ UNCHANGED page
  <2>1. PagesTyped' /\ ~Collecting' /\ outcome'[source'] = "cut"
      BY <1>1, <1>2, <1>11 DEF PagesTyped, Collecting
  <2>2. QED
      BY <2>1 DEF WindowInv, WindowCovered, PagesRead
<1>12. CASE ~last /\ page' = page + 1 /\ UNCHANGED outcome
  <2>1. PagesTyped' /\ Collecting' /\ page' * PageSize = end
      BY <1>1, <1>2, <1>12 DEF PagesTyped, Collecting, end
  <2>2. end <= Len(listed) /\ read + n = end
      BY <1>6, <1>12
  <2>3. PagesRead'
      BY <1>1, <1>2, <1>5, <2>1, <2>2 DEF PagesRead
  <2>4. QED
      BY <2>1, <2>3 DEF WindowInv, WindowCovered
<1>13. QED
    BY <1>9, <1>10, <1>11, <1>12

(* A source that ends otherwise is not done.                                  *)
LEMMA SourceSettled ==
    ASSUME WindowInv, Collecting, Settle("failed") \/ GiveUp PROVE WindowInv'
<1>1. PICK how \in {"partial", "failed"} : Settle(how)
    BY DEF GiveUp
<1>2. /\ PagesTyped /\ source = Len(outcome) + 1 /\ outcome \in Seq({"done", "partial", "cut", "failed"})
    BY DEF WindowInv, PagesTyped, Collecting
<1>3. PagesTyped' /\ ~Collecting' /\ outcome'[source'] # "done"
    BY <1>1, <1>2 DEF Settle, PagesTyped, Collecting
<1>4. QED
    BY <1>3 DEF WindowInv, WindowCovered, PagesRead

LEMMA PagesStep == WindowInv /\ [ApiNext]_apiVars => WindowInv'
<1> SUFFICES ASSUME WindowInv, [ApiNext]_apiVars PROVE WindowInv'
    OBVIOUS
<1>1. CASE StartQuery
  <2>1. PICK n \in 0..MaxListed : listed' = [i \in 1..n |-> i]
      BY <1>1 DEF StartQuery
  <2>2. n \in Nat
      BY <2>1, ApiAssumption
  <2>3. listed' \in Seq(Nat) /\ Len(listed') = n /\ \A i \in 1..n : listed'[i] = i
      BY <2>1, <2>2
  <2>4. ToSet(listed') = 1..n
      BY <2>1, <2>2 DEF ToSet
  <2>5. /\ source = Len(outcome) /\ source' = source + 1 /\ UNCHANGED outcome
        /\ page' = 0 /\ promised' = ToSet(listed') /\ source < Len(Backfill)
      BY <1>1 DEF StartQuery, WindowInv, PagesTyped, Collecting
  <2>6. Collecting' /\ PagesTyped'
    <3>1. Len(Backfill) \in Nat
        BY ApiAssumption
    <3>2. PagesTyped
        BY DEF WindowInv
    <3>3. QED
        BY <2>3, <2>5, <3>1, <3>2 DEF PagesTyped, Collecting
  <2>7. PageSize \in Nat /\ page' * PageSize = 0
      BY <2>5, ApiAssumption
  <2>8. PagesRead'
      BY <2>2, <2>3, <2>4, <2>5, <2>7 DEF PagesRead
  <2>9. QED
      BY <2>6, <2>8 DEF WindowInv, WindowCovered
<1>2. CASE LateIndexed
    BY <1>2, IndexedLate
<1>3. CASE Request
  <2> DEFINE l == WaitIfNeeded(limiter, now)
  <2>1. PICK gap \in Gaps : \/ Answer(l, gap) \/ Malformed(l, gap) \/ RefusedRequest(l, gap)
                            \/ RateLimited(l, gap) \/ Failed(l, gap)
      BY <1>3 DEF Request
  <2>2. Collecting
      BY <1>3 DEF Request
  <2> HIDE DEF l
  <2>3. CASE Answer(l, gap)
      BY <2>2, <2>3, PageAnswered
  <2>4. CASE Malformed(l, gap) \/ RefusedRequest(l, gap)
      BY <2>2, <2>4, SourceSettled DEF Malformed, RefusedRequest
  <2>5. CASE RateLimited(l, gap) \/ Failed(l, gap)
    <3>1. GiveUp \/ Retry
        BY <2>5 DEF RateLimited, Failed
    <3>2. ASSUME Retry PROVE WindowInv'
        BY <3>2 DEF Retry, WindowInv, PagesTyped, PagesRead, WindowCovered, Collecting
    <3>3. QED
        BY <2>2, <3>1, <3>2, SourceSettled
  <2>6. QED
      BY <2>1, <2>3, <2>4, <2>5
<1>4. CASE UNCHANGED apiVars
    BY <1>4 DEF apiVars, queryVars, WindowInv, PagesTyped, PagesRead, WindowCovered, Collecting
<1>5. QED
    BY <1>1, <1>2, <1>3, <1>4 DEF ApiNext

(* ArxivApiCollector: whatever arXiv indexes between two pages, a source that *)
(* ends without a cut or a failure has taken every paper that can be parsed   *)
(* and that its window listed when the first page was asked for, down to the  *)
(* place where the server stopped short, if it did.                           *)
THEOREM WindowsCovered == ApiSpec => []WindowCovered
<1>1. WindowInv => WindowCovered
    BY DEF WindowInv
<1>2. QED
    BY PagesStart, PagesStep, <1>1, PTL DEF ApiSpec

-----------------------------------------------------------------------------
(* The validators of a source *)

(* The sources RowCovered speaks of: no item page writes into their row.      *)
Vouched == (UsesEtag \cup UsesDate) \ Undated

Tags == Nat \cup {NoTag}
Rows == [etag: Tags, modified: Tags, status: ReplyKinds \cup {"none"}]
Processes ==
    [pc: {"down", "next", "fetch", "parse", "pages", "upsert"}, cur: Nat, got: Nat, hit: BOOLEAN,
     todo: SUBSET Nat, pages: SUBSET Nat]
OnSource == run.pc \in {"fetch", "parse", "pages", "upsert"}

IngestTyped ==
    /\ version \in [Sources -> Nat] /\ row \in [Sources -> Rows]
    /\ stored \in [Sources -> SUBSET Nat] /\ dropped \in [Sources -> SUBSET Nat]
    /\ run \in Processes /\ (OnSource => run.cur \in 1..Len(Order))
    /\ run.pc = "next" => run.cur \in Nat \ {0}

(* RowCovered reads the row: it is not inductive, for it does not say that    *)
(* the page in hand is the one the row names, nor that both validators of a   *)
(* row come from one version of the page.  A 304 that mixed two would make    *)
(* the row name a version nobody has collected.                               *)
Stamped(r, s, v) == r.etag = ListEtag(s, v) /\ r.modified = Dated(s, v)
Blank(r) == r.etag = NoTag /\ r.modified = NoTag
RowsStamped ==
    \A s \in Sources \cap Vouched : Blank(row[s]) \/ \E v \in 0..version[s] : Stamped(row[s], s, v)
InHand ==
    /\ run.pc = "pages" => Current \notin Vouched
    /\ Current \in Vouched /\ run.pc = "parse" /\ ~run.hit => Stamped(row[Current], Current, run.got)
    /\ Current \in Vouched /\ run.pc = "upsert" =>
          /\ Stamped(row[Current], Current, run.got)
          /\ Kept(Listing(run.got)) \subseteq stored[Current] \cup run.todo

IngestInv == IngestTyped /\ RowsStamped /\ InHand /\ RowCovered

LEMMA IngestStarts == IngestInit => IngestInv
<1> SUFFICES ASSUME IngestInit PROVE IngestInv
    OBVIOUS
<1>1. IngestTyped
    BY DEF IngestInit, IngestTyped, Rows, Tags, NewRow, Processes, Down, OnSource
<1>2. RowsStamped /\ InHand
    BY DEF IngestInit, RowsStamped, InHand, Blank, NewRow, Down
<1>3. RowCovered
    BY IngestAssumption DEF IngestInit, RowCovered, Names, NewRow, ListEtag, Dated
<1>4. QED
    BY <1>1, <1>2, <1>3 DEF IngestInv

LEMMA ListingNumbers == ASSUME NEW v \in Nat PROVE Listing(v) \subseteq Nat
BY DEF Listing

LEMMA SomeOfThem == \A n, S : Largest(n, S) \subseteq S
BY DEF Largest

(* What a server at version w takes for unchanged was stamped by w.           *)
LEMMA UnchangedIsCurrent ==
    ASSUME NEW s \in Vouched, NEW r, NEW w \in Nat,
           Blank(r) \/ \E v \in 0..w : Stamped(r, s, v),
           NotModified(Conditional(r), ListEtag(s, w), Dated(s, w))
    PROVE  Stamped(r, s, w)
<1>1. NoTag \notin Nat \ {0}
    BY IngestAssumption
<1>2. ~Blank(r)
    BY DEF Blank, NotModified, Conditional
<1>3. PICK v \in 0..w : Stamped(r, s, v)
    BY <1>2
<1>4. CASE r.etag # NoTag /\ ListEtag(s, w) # NoTag
  <2>1. r.etag = ListEtag(s, w)
      BY <1>4 DEF NotModified, Conditional
  <2>2. r.etag = 2 * v /\ r.etag = 2 * w
      BY <1>3, <1>4, <2>1 DEF Stamped, ListEtag
  <2>3. v = w
      BY <2>2
  <2>4. QED
      BY <1>3, <2>3
<1>5. CASE ~(r.etag # NoTag /\ ListEtag(s, w) # NoTag)
  <2>1. r.modified # NoTag /\ Dated(s, w) # NoTag /\ Dated(s, w) <= r.modified
      BY <1>5 DEF NotModified, Conditional
  <2>2. Dated(s, w) = w /\ r.modified = v
      BY <1>3, <2>1 DEF Stamped, Dated
  <2>3. v = w
      BY <2>1, <2>2
  <2>4. QED
      BY <1>3, <2>3
<1>6. QED
    BY <1>4, <1>5

(* A row names the one version that stamped it.                               *)
LEMMA NamesOne ==
    ASSUME NEW s \in Vouched, NEW r, NEW w \in Nat, Stamped(r, s, w),
           NEW v \in Nat \ {0}, Names(r, s, v)
    PROVE  v = w
<1>1. NoTag \notin Nat \ {0}
    BY IngestAssumption
<1>2. CASE s \in UsesEtag
  <2>1. r.etag = 2 * v /\ 2 * v \in Nat \ {0}
      BY <1>2 DEF Names, ListEtag
  <2>2. CASE w > 0
    <3>1. r.etag = 2 * w
        BY <1>2, <2>2 DEF Stamped, ListEtag
    <3>2. QED
        BY <2>1, <3>1
  <2>3. CASE ~(w > 0)
    <3>1. r.etag = NoTag
        BY <2>3 DEF Stamped, ListEtag
    <3>2. QED
        BY <1>1, <2>1, <3>1
  <2>4. QED
      BY <2>2, <2>3
<1>3. CASE s \notin UsesEtag
    BY <1>3 DEF Names, Stamped, Dated, Vouched
<1>4. QED
    BY <1>2, <1>3

LEMMA BlankNamesNone ==
    ASSUME NEW s \in Vouched, NEW r, Blank(r), NEW v \in Nat \ {0} PROVE ~Names(r, s, v)
<1>1. NoTag \notin Nat \ {0} /\ 2 * v \in Nat \ {0}
    BY IngestAssumption
<1>2. QED
    BY <1>1 DEF Names, Blank, ListEtag, Dated, Vouched

(* While a page is in hand the row names that page and no other, and what it  *)
(* keeps of it is stored or in hand.                                          *)
LEMMA PageInHand ==
    ASSUME IngestInv, Accepted, Current \in Vouched, NEW v \in 1..MaxVersion,
           Names(row[Current], Current, v)
    PROVE  Kept(Listing(v)) \subseteq stored[Current] \cup Hand
<1>1. /\ run.pc \in {"parse", "upsert"}
      /\ Stamped(row[Current], Current, run.got)
    BY DEF IngestInv, InHand, Accepted
<1>2. run.got \in Nat /\ v \in Nat \ {0}
    BY IngestAssumption DEF IngestInv, IngestTyped, Processes
<1>3. v = run.got
    BY <1>1, <1>2, NamesOne
<1>4. CASE run.pc = "parse"
    BY <1>3, <1>4 DEF Hand
<1>5. CASE run.pc = "upsert"
  <2>1. Kept(Listing(run.got)) \subseteq stored[Current] \cup run.todo
      BY <1>5 DEF IngestInv, InHand
  <2>2. run.todo \subseteq Hand
      BY <1>5 DEF Hand
  <2>3. QED
      BY <1>3, <2>1, <2>2
<1>6. QED
    BY <1>1, <1>4, <1>5

(* What the list page's server answers is a reply, and it bears the version.  *)
LEMMA Answered ==
    ASSUME IngestTyped, NEW s \in Sources, NEW reply \in ListAnswers(s)
    PROVE  /\ reply.kind \in {"ok", "not_modified", "server_error"}
           /\ reply.kind # "server_error" => Stamped(reply, s, version[s])
           /\ reply.kind = "not_modified" =>
                 NotModified(Conditional(row[s]), ListEtag(s, version[s]), Dated(s, version[s]))
           /\ reply.etag \in Tags /\ reply.modified \in Tags
<1>1. /\ ListEtag(s, version[s]) \in Tags /\ Dated(s, version[s]) \in Tags
    BY DEF IngestTyped, ListEtag, Dated, Tags
<1> DEFINE etag == ListEtag(s, version[s])
           date == Dated(s, version[s])
           headers == Conditional(row[s])
<1> HIDE DEF etag, date, headers
<1>2. \/ reply = [kind |-> IF NotModified(headers, etag, date) THEN "not_modified" ELSE "ok",
                  etag |-> etag, modified |-> date]
      \/ reply = [kind |-> "server_error", etag |-> NoTag, modified |-> NoTag]
    BY DEF ListAnswers, Answers, etag, date, headers
<1>3. QED
    BY <1>1, <1>2 DEF Stamped, Tags, etag, date, headers

(* What UpdateFromResult leaves in the row.                                   *)
LEMMA RowWritten ==
    ASSUME NEW r \in Rows, NEW reply, reply.kind \in {"ok", "not_modified", "server_error"},
           reply.etag \in Tags, reply.modified \in Tags
    PROVE  LET after == UpdateFromResult(r, reply) IN
             /\ after \in Rows
             /\ reply.kind = "server_error" => Blank(after)
             /\ reply.kind = "ok" => after.etag = reply.etag /\ after.modified = reply.modified
             /\ reply.kind = "not_modified" =>
                   after.etag = Or(reply.etag, r.etag) /\ after.modified = Or(reply.modified, r.modified)
<1>1. LastStatus(reply) \in ReplyKinds \cup {"none"}
    BY DEF LastStatus, ReplyKinds, CleanKinds, TransientKinds
<1>2. CASE reply.kind = "server_error"
    BY <1>1, <1>2 DEF UpdateFromResult, IsError, CleanKinds, NewRow, Blank, Rows, Tags
<1>3. CASE reply.kind = "ok"
    BY <1>1, <1>3 DEF UpdateFromResult, IsError, CacheHit, CleanKinds, Rows
<1>4. CASE reply.kind = "not_modified"
    BY <1>1, <1>4 DEF UpdateFromResult, IsError, CacheHit, CleanKinds, Rows, Or, Tags
<1>5. QED
    BY <1>2, <1>3, <1>4

(* The row of a source after its list page: a 200 stamps it, a 304 leaves it  *)
(* as the version stamped it, an error blanks it.                             *)
LEMMA RowAfterList ==
    ASSUME IngestTyped, RowsStamped, NEW s \in Sources, NEW reply \in ListAnswers(s)
    PROVE  LET after == UpdateFromResult(row[s], reply) IN
             /\ after \in Rows
             /\ s \in Vouched /\ IsSuccess(reply) => Stamped(after, s, version[s])
             /\ s \in Vouched /\ CacheHit(reply) =>
                   /\ Stamped(after, s, version[s])
                   /\ after.etag = row[s].etag /\ after.modified = row[s].modified
             /\ ~IsSuccess(reply) /\ ~CacheHit(reply) => Blank(after)
<1> DEFINE after == UpdateFromResult(row[s], reply)
<1>1. row[s] \in Rows /\ version[s] \in Nat
    BY DEF IngestTyped
<1>2. /\ reply.kind \in {"ok", "not_modified", "server_error"}
      /\ reply.kind # "server_error" => Stamped(reply, s, version[s])
      /\ reply.kind = "not_modified" =>
            NotModified(Conditional(row[s]), ListEtag(s, version[s]), Dated(s, version[s]))
      /\ reply.etag \in Tags /\ reply.modified \in Tags
    BY Answered
<1>3. /\ after \in Rows
      /\ reply.kind = "server_error" => Blank(after)
      /\ reply.kind = "ok" => after.etag = reply.etag /\ after.modified = reply.modified
      /\ reply.kind = "not_modified" =>
            after.etag = Or(reply.etag, row[s].etag) /\ after.modified = Or(reply.modified, row[s].modified)
    BY <1>1, <1>2, RowWritten
<1> HIDE DEF after
<1>4. ASSUME s \in Vouched, reply.kind = "not_modified"
      PROVE  /\ Stamped(after, s, version[s])
             /\ after.etag = row[s].etag /\ after.modified = row[s].modified
  <2>1. Stamped(row[s], s, version[s])
      BY <1>1, <1>2, <1>4, UnchangedIsCurrent DEF RowsStamped
  <2>2. Stamped(reply, s, version[s])
      BY <1>2, <1>4
  <2>3. QED
      BY <1>3, <1>4, <2>1, <2>2 DEF Stamped, Or
<1>5. ASSUME s \in Vouched, reply.kind = "ok" PROVE Stamped(after, s, version[s])
    BY <1>2, <1>3, <1>5 DEF Stamped
<1>6. QED
    BY <1>2, <1>3, <1>4, <1>5 DEF IsSuccess, CacheHit, after

(* The commit of the row, before anything is parsed.                          *)
LEMMA ListFetched ==
    ASSUME IngestInv, NEW typed \in BOOLEAN, NEW reply \in ListAnswers(Current), FetchList(reply, typed)
    PROVE  IngestInv'
<1> DEFINE s == Current
           after == UpdateFromResult(row[s], reply)
<1>1. /\ run.pc = "fetch" /\ run.cur \in 1..Len(Order) /\ s \in Sources
      /\ row' = [row EXCEPT ![s] = after] /\ dropped' = [dropped EXCEPT ![s] = IF IsSuccess(reply) THEN {} ELSE @]
      /\ UNCHANGED <<version, stored>>
      /\ \/ run' = [Down EXCEPT !.pc = "next", !.cur = run.cur + 1]
         \/ /\ run' = [run EXCEPT !.pc = "parse", !.hit = CacheHit(reply), !.got = version[s]]
            /\ ~IsError(reply)
      /\ IsSuccess(reply) => run' = [run EXCEPT !.pc = "parse", !.hit = CacheHit(reply), !.got = version[s]]
  <2>1. run.pc = "fetch" /\ run.cur \in 1..Len(Order)
      BY DEF FetchList, IngestInv, IngestTyped, OnSource
  <2>2. s \in Sources
      BY <2>1 DEF Sources, Current
  <2>3. /\ row' = [row EXCEPT ![s] = after] /\ dropped' = [dropped EXCEPT ![s] = IF IsSuccess(reply) THEN {} ELSE @]
        /\ UNCHANGED <<version, stored>>
      BY DEF FetchList
  <2>4. \/ run' = [Down EXCEPT !.pc = "next", !.cur = run.cur + 1]
        \/ /\ run' = [run EXCEPT !.pc = "parse", !.hit = CacheHit(reply), !.got = version[s]]
           /\ ~IsError(reply)
      BY DEF FetchList, NextSource, Refuses
  <2>5. IsSuccess(reply) => ~Refuses(s, reply, typed)
      BY DEF Refuses, IsSuccess, IsError, CacheHit, CleanKinds
  <2>6. IsSuccess(reply) => run' = [run EXCEPT !.pc = "parse", !.hit = CacheHit(reply), !.got = version[s]]
      BY <2>5 DEF FetchList
  <2>7. QED
      BY <2>1, <2>2, <2>3, <2>4, <2>6
<1>2. /\ after \in Rows
      /\ s \in Vouched /\ IsSuccess(reply) => Stamped(after, s, version[s])
      /\ s \in Vouched /\ CacheHit(reply) =>
            after.etag = row[s].etag /\ after.modified = row[s].modified
      /\ s \in Vouched /\ CacheHit(reply) => Stamped(after, s, version[s])
      /\ ~IsSuccess(reply) /\ ~CacheHit(reply) => Blank(after)
    BY <1>1, RowAfterList DEF IngestInv
<1>3. reply.kind \in {"ok", "not_modified", "server_error"}
    BY <1>1, Answered DEF IngestInv
<1> HIDE DEF s, after
<1>4. /\ version \in [Sources -> Nat] /\ row \in [Sources -> Rows] /\ stored \in [Sources -> SUBSET Nat]
      /\ dropped \in [Sources -> SUBSET Nat] /\ run \in Processes /\ version[s] \in Nat
    BY <1>1 DEF IngestInv, IngestTyped
<1>5. /\ row' \in [Sources -> Rows] /\ row'[s] = after
      /\ \A t \in Sources : t # s => row'[t] = row[t] /\ dropped'[t] = dropped[t]
      /\ dropped' \in [Sources -> SUBSET Nat] /\ (~IsSuccess(reply) => dropped'[s] = dropped[s])
    BY <1>1, <1>2, <1>4
<1>6. /\ run' \in Processes /\ (OnSource' => run'.cur \in 1..Len(Order))
      /\ run'.pc = "next" => run'.cur \in Nat \ {0}
  <2>1. run.cur \in Nat /\ CacheHit(reply) \in BOOLEAN
      BY <1>4 DEF Processes, CacheHit
  <2>2. CASE run' = [Down EXCEPT !.pc = "next", !.cur = run.cur + 1]
    <3>1. run.cur + 1 \in Nat
        BY <2>1
    <3>2. run' \in Processes /\ run'.pc = "next" /\ run'.cur = run.cur + 1
        BY <2>2, <3>1 DEF Processes, Down
    <3>3. QED
        BY <1>1, <3>2 DEF OnSource
  <2>3. CASE run' = [run EXCEPT !.pc = "parse", !.hit = CacheHit(reply), !.got = version[s]]
    <3>1. run'.cur = run.cur
        BY <1>4, <2>3 DEF Processes
    <3>2. run' \in Processes /\ run'.pc = "parse"
        BY <1>4, <2>1, <2>3 DEF Processes
    <3>3. QED
        BY <1>1, <3>1, <3>2
  <2>4. QED
      BY <1>1, <2>2, <2>3
<1>7. IngestTyped'
    BY <1>1, <1>4, <1>5, <1>6 DEF IngestTyped
<1>8. RowsStamped'
    BY <1>1, <1>2, <1>4, <1>5 DEF RowsStamped, IngestInv
<1>9. InHand'
  <2>1. run'.pc \in {"next", "parse"}
      BY <1>1, <1>4 DEF Processes, Down
  <2>2. CASE run'.pc = "parse" /\ ~run'.hit
    <3>1. run'.got = version[s] /\ IsSuccess(reply) /\ Current' = s
        BY <1>1, <1>3, <1>4, <2>2 DEF Processes, Down, IsError, CleanKinds, CacheHit, IsSuccess, Current, s
    <3>2. QED
        BY <1>2, <1>5, <2>2, <3>1 DEF InHand
  <2>3. QED
      BY <2>1, <2>2 DEF InHand
<1>10. RowCovered'
  <2> SUFFICES ASSUME NEW t \in Sources \cap Vouched, NEW v \in 1..MaxVersion,
                      Names(row'[t], t, v)
               PROVE  Kept(Listing(v)) \subseteq stored[t] \cup Unfinished(t)'
      BY <1>1, <1>5 DEF RowCovered, Vouched
  <2>1. t \in DOMAIN row /\ v \in Nat \ {0}
      BY <1>4, IngestAssumption
  <2>2. ~Accepted
      BY <1>1 DEF Accepted
  <2>3. CASE t # s
    <3>1. Names(row[t], t, v) /\ dropped'[t] = dropped[t]
        BY <1>5, <2>3
    <3>2. Kept(Listing(v)) \subseteq stored[t] \cup dropped[t]
        BY <2>1, <2>2, <3>1 DEF RowCovered, IngestInv, Vouched, Unfinished
    <3>3. QED
        BY <3>1, <3>2 DEF Unfinished
  <2>4. CASE t = s /\ ~IsSuccess(reply)
    <3>1. CacheHit(reply)
        BY <1>2, <1>5, <2>1, <2>4, BlankNamesNone
    <3>2. Names(row[s], s, v)
        BY <1>2, <1>5, <2>4, <3>1 DEF Names
    <3>3. Kept(Listing(v)) \subseteq stored[s] \cup dropped[s]
        BY <2>1, <2>2, <2>4, <3>2 DEF RowCovered, IngestInv, Vouched, Unfinished
    <3>4. QED
        BY <1>5, <2>4, <3>3 DEF Unfinished
  <2>5. CASE t = s /\ IsSuccess(reply)
    <3>1. v = version[s]
        BY <1>2, <1>4, <1>5, <2>1, <2>5, NamesOne
    <3>2. /\ run'.pc = "parse" /\ ~run'.hit /\ run'.got = version[s] /\ Current' = s
      <4>1. run' = [run EXCEPT !.pc = "parse", !.hit = CacheHit(reply), !.got = version[s]]
          BY <1>1, <2>5
      <4>2. ~CacheHit(reply)
          BY <2>5 DEF IsSuccess, CacheHit
      <4>3. QED
          BY <1>4, <4>1, <4>2 DEF Processes, Current, s
    <3>3. Hand' = Kept(Listing(version[s])) /\ Accepted'
        BY <3>2 DEF Hand, Accepted
    <3>4. Kept(Listing(v)) \subseteq Unfinished(t)'
        BY <2>5, <3>1, <3>2, <3>3 DEF Unfinished
    <3>5. QED
        BY <3>4
  <2>6. QED
      BY <2>3, <2>4, <2>5
<1>11. QED
    BY <1>7, <1>8, <1>9, <1>10 DEF IngestInv

(* Steps that leave the rows and the items, and after which the process has   *)
(* no page in hand: it had none, or it drops what it held.                    *)
LEMMA HandsEmpty ==
    ASSUME IngestInv, UNCHANGED <<version, row, stored>>,
           Drop \/ (UNCHANGED dropped /\ ~Accepted),
           run' \in Processes, run'.pc \in {"down", "next", "fetch"},
           run'.pc = "fetch" => run'.cur \in 1..Len(Order),
           run'.pc = "next" => run'.cur \in Nat \ {0}
    PROVE  IngestInv'
<1>1. /\ dropped \in [Sources -> SUBSET Nat] /\ run \in Processes /\ DOMAIN row = Sources
      /\ Accepted => Current \in Sources
    BY DEF IngestInv, IngestTyped, Accepted, OnSource, Sources, Current
<1>2. Hand \in SUBSET Nat
  <2>1. run.got \in Nat /\ run.todo \in SUBSET Nat /\ run.pages \in SUBSET Nat
      BY <1>1 DEF Processes
  <2>2. Kept(Listing(run.got)) \subseteq Nat
      BY <2>1, ListingNumbers, SomeOfThem DEF Kept
  <2>3. QED
      BY <2>1, <2>2 DEF Hand
<1>3. dropped' = IF Accepted THEN [dropped EXCEPT ![Current] = Hand] ELSE dropped
    BY DEF Drop
<1>4. dropped' \in [Sources -> SUBSET Nat]
    BY <1>1, <1>2, <1>3
<1>5. IngestTyped'
    BY <1>4 DEF IngestInv, IngestTyped, OnSource
<1>6. RowsStamped' /\ InHand'
    BY DEF IngestInv, RowsStamped, InHand
<1>7. RowCovered'
  <2> SUFFICES ASSUME NEW t \in Sources \cap Vouched, NEW v \in 1..MaxVersion, Names(row[t], t, v)
               PROVE  Kept(Listing(v)) \subseteq stored[t] \cup dropped'[t]
      BY <1>1 DEF RowCovered, Vouched, Unfinished
  <2>1. CASE Accepted /\ t = Current
      BY <1>1, <1>3, <2>1, PageInHand
  <2>2. CASE ~(Accepted /\ t = Current)
    <3>1. dropped'[t] = dropped[t]
        BY <1>1, <1>3, <2>2
    <3>2. Kept(Listing(v)) \subseteq stored[t] \cup Unfinished(t) /\ Unfinished(t) = dropped[t]
        BY <1>1, <2>2 DEF IngestInv, RowCovered, Vouched, Unfinished
    <3>3. QED
        BY <3>1, <3>2
  <2>3. QED
      BY <2>1, <2>2
<1>8. QED
    BY <1>5, <1>6, <1>7 DEF IngestInv

LEMMA NothingHeld ==
    ASSUME NEW n \in Nat
    PROVE  /\ Down \in Processes /\ Down.pc = "down"
           /\ [Down EXCEPT !.pc = "next", !.cur = n] \in Processes
           /\ [Down EXCEPT !.pc = "next", !.cur = n].pc = "next"
           /\ [Down EXCEPT !.pc = "next", !.cur = n].cur = n
BY DEF Down, Processes

(* What is parsed is what was accepted.                                       *)
LEMMA ListParsed == IngestInv /\ ParseList => IngestInv'
<1> SUFFICES ASSUME IngestInv, ParseList PROVE IngestInv'
    OBVIOUS
<1>1. /\ run.pc = "parse" /\ ~run.hit /\ run \in Processes /\ run.cur \in 1..Len(Order)
      /\ UNCHANGED <<version, row, stored, dropped>>
    BY DEF ParseList, IngestInv, IngestTyped, OnSource
<1>2. run.got \in Nat /\ Listing(run.got) \subseteq Nat
    BY <1>1, ListingNumbers DEF Processes
<1>3. Largest(PageCap, Listing(run.got)) \subseteq Nat /\ Kept(Listing(run.got)) \subseteq Nat
    BY <1>2, SomeOfThem DEF Kept
<1>4. /\ Current \in Vouched => Stamped(row[Current], Current, run.got)
      /\ DOMAIN row = Sources
    BY <1>1 DEF IngestInv, InHand, IngestTyped
<1>5. CASE /\ Current \in Undated
           /\ run' = [run EXCEPT !.pc = "pages", !.pages = Largest(PageCap, Listing(run.got))]
  <2>1. run' \in Processes /\ run'.cur = run.cur /\ run'.pc = "pages"
      BY <1>1, <1>3, <1>5 DEF Processes
  <2>2. IngestTyped'
      BY <1>1, <2>1 DEF IngestInv, IngestTyped
  <2>3. RowsStamped' /\ InHand'
      BY <1>1, <1>5, <2>1 DEF IngestInv, RowsStamped, InHand, Current, Vouched
  <2>4. \A t \in Vouched : Unfinished(t) \subseteq Unfinished(t)'
      BY <1>1, <1>5, <2>1 DEF Unfinished, Current, Vouched
  <2>5. RowCovered'
      BY <1>1, <1>4, <2>4 DEF IngestInv, RowCovered, Vouched
  <2>6. QED
      BY <2>2, <2>3, <2>5 DEF IngestInv
<1>6. CASE run' = [run EXCEPT !.pc = "upsert", !.todo = Kept(Listing(run.got))]
  <2>1. /\ run' \in Processes /\ run'.cur = run.cur /\ run'.pc = "upsert" /\ run'.got = run.got
        /\ run'.todo = Kept(Listing(run.got))
      BY <1>1, <1>3, <1>6 DEF Processes
  <2>2. IngestTyped'
      BY <1>1, <2>1 DEF IngestInv, IngestTyped
  <2>3. RowsStamped' /\ InHand'
      BY <1>1, <1>4, <2>1 DEF IngestInv, RowsStamped, InHand, Current
  <2>4. \A t \in Vouched : Unfinished(t) \subseteq Unfinished(t)'
      BY <1>1, <1>6, <2>1 DEF Unfinished, Current, Hand, Accepted
  <2>5. RowCovered'
      BY <1>1, <1>4, <2>4 DEF IngestInv, RowCovered, Vouched
  <2>6. QED
      BY <2>2, <2>3, <2>5 DEF IngestInv
<1>7. QED
    BY <1>5, <1>6 DEF ParseList, NeedsDates

(* An item page writes into the row of a source RowCovered does not speak of. *)
LEMMA PageFetched ==
    ASSUME IngestInv, NEW n \in run.pages, NEW reply \in PageAnswers(Current, n), FetchPage(n, reply)
    PROVE  IngestInv'
<1> DEFINE s == Current
           after == UpdateFromResult(row[s], reply)
<1>1. /\ run.pc = "pages" /\ run \in Processes /\ run.cur \in 1..Len(Order) /\ s \notin Vouched
      /\ row' = [row EXCEPT ![s] = after] /\ UNCHANGED <<version, stored, dropped>>
      /\ run' = [run EXCEPT !.pages = @ \ {n}, !.todo = IF IsSuccess(reply) THEN @ \cup {n} ELSE @]
    BY DEF FetchPage, IngestInv, IngestTyped, OnSource, InHand
<1>2. s \in Sources
    BY <1>1 DEF Sources, Current
<1>3. /\ run.pages \in SUBSET Nat /\ run.todo \in SUBSET Nat /\ n \in Nat
    BY <1>1 DEF Processes
<1>4. /\ row[s] \in Rows
      /\ reply.kind \in {"ok", "not_modified", "server_error"}
      /\ reply.etag \in Tags /\ reply.modified \in Tags
  <2>1. row[s] \in Rows /\ version[s] \in Nat
      BY <1>2 DEF IngestInv, IngestTyped
  <2>2. PageEtag(s, n) \in Tags /\ Dated(s, n) \in Tags
      BY <1>3 DEF PageEtag, Dated, Tags
  <2>3. QED
      BY <2>1, <2>2 DEF PageAnswers, Answers, Tags
<1>5. after \in Rows
    BY <1>4, RowWritten
<1>6. /\ run' \in Processes /\ run'.pc = "pages" /\ run'.cur = run.cur
    BY <1>1, <1>3 DEF Processes
<1> HIDE DEF s, after
<1>7. /\ row' \in [Sources -> Rows] /\ \A t \in Sources : t # s => row'[t] = row[t]
    BY <1>1, <1>2, <1>5 DEF IngestInv, IngestTyped
<1>8. IngestTyped'
    BY <1>1, <1>6, <1>7 DEF IngestInv, IngestTyped
<1>9. RowsStamped' /\ RowCovered'
  <2>1. s = Current /\ s = Current'
      BY <1>6 DEF Current, s
  <2>2. \A u \in Vouched : Unfinished(u)' = Unfinished(u)
      BY <1>1, <2>1 DEF Unfinished
  <2>3. QED
      BY <1>1, <1>7, <2>2 DEF IngestInv, RowsStamped, RowCovered, Vouched, IngestTyped
<1>10. InHand'
    BY <1>1, <1>6 DEF InHand, Current, s
<1>11. QED
    BY <1>8, <1>9, <1>10 DEF IngestInv

LEMMA ItemStored ==
    ASSUME IngestInv, NEW n \in run.todo, Upsert(n) PROVE IngestInv'
<1> DEFINE s == Current
<1>1. /\ run.pc = "upsert" /\ run \in Processes /\ run.cur \in 1..Len(Order) /\ s \in Sources
      /\ stored \in [Sources -> SUBSET Nat]
    BY DEF Upsert, IngestInv, IngestTyped, OnSource, Sources, Current
<1>2. /\ stored' = [stored EXCEPT ![s] = @ \cup {n}]
      /\ run' = [run EXCEPT !.todo = @ \ {n}] /\ UNCHANGED <<version, row, dropped>>
    BY DEF Upsert
<1>3. n \in Nat /\ run.todo \in SUBSET Nat
    BY <1>1 DEF Processes
<1>4. /\ run' \in Processes /\ run'.pc = "upsert" /\ run'.cur = run.cur /\ run'.got = run.got
      /\ run'.todo = run.todo \ {n} /\ run'.pages = run.pages
    BY <1>1, <1>2, <1>3 DEF Processes
<1> HIDE DEF s
<1>5. /\ stored' \in [Sources -> SUBSET Nat] /\ stored'[s] = stored[s] \cup {n}
      /\ \A t \in Sources : stored[t] \subseteq stored'[t]
    BY <1>1, <1>2, <1>3
<1>6. IngestTyped'
    BY <1>1, <1>2, <1>4, <1>5 DEF IngestInv, IngestTyped
<1>7. RowsStamped'
    BY <1>2 DEF IngestInv, RowsStamped
<1>8. InHand'
    BY <1>1, <1>2, <1>4, <1>5 DEF IngestInv, InHand, Current, s
<1>9. RowCovered'
  <2>1. DOMAIN row = Sources
      BY DEF IngestInv, IngestTyped
  <2>2. Hand \subseteq Hand' \cup {n} /\ Current' = s /\ Current = s /\ Accepted'
      BY <1>1, <1>4 DEF Hand, Current, Accepted, s
  <2>3. \A t \in Sources : stored[t] \cup Unfinished(t) \subseteq stored'[t] \cup Unfinished(t)'
      BY <1>2, <1>5, <2>2 DEF Unfinished
  <2>4. QED
      BY <1>2, <2>1, <2>3 DEF IngestInv, RowCovered
<1>10. QED
    BY <1>6, <1>7, <1>8, <1>9 DEF IngestInv

(* A source is done when nothing of the page in hand is left to store.        *)
LEMMA PageStored == IngestInv /\ SourceDone => IngestInv'
<1> SUFFICES ASSUME IngestInv, SourceDone PROVE IngestInv'
    OBVIOUS
<1> DEFINE s == Current
<1>1. /\ run.pc = "upsert" /\ run.todo = {} /\ run \in Processes /\ run.cur \in 1..Len(Order)
      /\ run.cur \in Nat /\ run.got \in Nat /\ DOMAIN row = Sources
    BY DEF SourceDone, IngestInv, IngestTyped, OnSource, Processes
<1>2. s \in Sources
    BY <1>1 DEF Sources, Current
<1>3. /\ UNCHANGED <<version, row, stored, dropped>>
      /\ run' \in Processes /\ run'.pc = "next" /\ run'.cur \in Nat \ {0}
  <2>1. run' = [Down EXCEPT !.pc = "next", !.cur = run.cur + 1] /\ run.cur + 1 \in Nat
      BY <1>1 DEF SourceDone, NextSource
  <2>2. run' \in Processes /\ run'.pc = "next" /\ run'.cur \in Nat \ {0}
    <3>1. run.cur + 1 \in Nat \ {0}
        BY <1>1
    <3>2. QED
        BY <2>1, <3>1, NothingHeld
  <2>3. QED
      BY <2>2 DEF SourceDone
<1>4. s \in Vouched => Stamped(row[s], s, run.got) /\ Kept(Listing(run.got)) \subseteq stored[s]
    BY <1>1 DEF IngestInv, InHand
<1> HIDE DEF s
<1>5. IngestTyped' /\ RowsStamped' /\ InHand'
    BY <1>3 DEF IngestInv, IngestTyped, OnSource, RowsStamped, InHand
<1>6. RowCovered'
  <2> SUFFICES ASSUME NEW t \in Sources \cap Vouched, NEW v \in 1..MaxVersion, Names(row[t], t, v)
               PROVE  Kept(Listing(v)) \subseteq stored[t] \cup dropped[t]
      BY <1>1, <1>3 DEF RowCovered, Vouched, Unfinished
  <2>1. v \in Nat \ {0} /\ t \in DOMAIN row
      BY <1>1, IngestAssumption
  <2>2. CASE t = s
      BY <1>1, <1>4, <2>1, <2>2, NamesOne
  <2>3. CASE t # s
      BY <2>1, <2>3 DEF IngestInv, RowCovered, Vouched, Unfinished, s
  <2>4. QED
      BY <2>2, <2>3
<1>7. QED
    BY <1>5, <1>6 DEF IngestInv

LEMMA IngestSteps == IngestInv /\ [IngestNext]_ingestVars => IngestInv'
<1> SUFFICES ASSUME IngestInv, [IngestNext]_ingestVars PROVE IngestInv'
    OBVIOUS
<1>1. run \in Processes /\ run.cur \in Nat /\ run.cur + 1 \in Nat \ {0}
    BY DEF IngestInv, IngestTyped, Processes
<1>2. ASSUME \/ run' = Down
             \/ run' = [Down EXCEPT !.pc = "next", !.cur = 1]
             \/ run' = [Down EXCEPT !.pc = "next", !.cur = run.cur + 1],
             UNCHANGED <<version, row, stored>>, Drop \/ (UNCHANGED dropped /\ ~Accepted)
      PROVE  IngestInv'
  <2>1. /\ run' \in Processes /\ run'.pc \in {"down", "next"}
        /\ run'.pc = "next" => run'.cur \in Nat \ {0}
    <3>1. CASE run' = Down
      <4>1. 1 \in Nat
          OBVIOUS
      <4>2. Down \in Processes /\ Down.pc = "down"
          BY <4>1, NothingHeld
      <4>3. QED
          BY <3>1, <4>2
    <3>2. CASE run' = [Down EXCEPT !.pc = "next", !.cur = 1]
      <4>1. 1 \in Nat \ {0}
          OBVIOUS
      <4>2. QED
          BY <3>2, <4>1, NothingHeld
    <3>3. CASE run' = [Down EXCEPT !.pc = "next", !.cur = run.cur + 1]
        BY <1>1, <3>3, NothingHeld
    <3>4. QED
        BY <1>2, <3>1, <3>2, <3>3
  <2>2. QED
      BY <1>2, <2>1, HandsEmpty
<1>3. CASE StartRun \/ FinishRun \/ UpsertRaises \/ ParseRaises \/ Kill \/ NothingNew \/ ParseFails
    BY <1>2, <1>3
       DEF StartRun, FinishRun, UpsertRaises, ParseRaises, Kill, NothingNew, ParseFails, Raise, NextSource, Accepted
<1>4. CASE StartSource
  <2>1. run' = [run EXCEPT !.pc = "fetch"] /\ UNCHANGED <<version, row, stored, dropped>>
        /\ run.cur <= Len(Order) /\ run.cur \in Nat \ {0} /\ ~Accepted
      BY <1>4 DEF StartSource, IngestInv, IngestTyped, Accepted
  <2>2. run' \in Processes /\ run'.pc = "fetch" /\ run'.cur = run.cur
      BY <1>1, <2>1 DEF Processes
  <2>3. QED
      BY <2>1, <2>2, IngestAssumption, HandsEmpty
<1>5. ASSUME NEW typed \in BOOLEAN, NEW reply \in ListAnswers(Current), FetchList(reply, typed)
      PROVE  IngestInv'
    BY <1>5, ListFetched
<1>6. CASE ParseList
    BY <1>6, ListParsed
<1>7. ASSUME NEW n \in run.pages, NEW reply \in PageAnswers(Current, n), FetchPage(n, reply)
      PROVE  IngestInv'
    BY <1>7, PageFetched
<1>8. CASE PagesDone
  <2>1. /\ run.pc = "pages" /\ run' = [run EXCEPT !.pc = "upsert", !.todo = Kept(run.todo)]
        /\ UNCHANGED <<version, row, stored, dropped>> /\ run.cur \in 1..Len(Order) /\ Current \notin Vouched
        /\ DOMAIN row = Sources
      BY <1>8 DEF PagesDone, IngestInv, IngestTyped, OnSource, InHand
  <2>2. Kept(run.todo) \in SUBSET Nat
      BY <1>1, SomeOfThem DEF Processes, Kept
  <2>3. run' \in Processes /\ run'.pc = "upsert" /\ run'.cur = run.cur
      BY <1>1, <2>1, <2>2 DEF Processes
  <2>4. IngestTyped'
      BY <2>1, <2>3 DEF IngestInv, IngestTyped
  <2>5. RowsStamped' /\ InHand'
      BY <2>1, <2>3 DEF IngestInv, RowsStamped, InHand, Current
  <2>6. \A t \in Vouched : Unfinished(t)' = Unfinished(t)
      BY <2>1, <2>3 DEF Unfinished, Current
  <2>7. RowCovered'
      BY <2>1, <2>6 DEF IngestInv, RowCovered, Vouched
  <2>8. QED
      BY <2>4, <2>5, <2>7 DEF IngestInv
<1>9. ASSUME NEW n \in run.todo, Upsert(n) PROVE IngestInv'
    BY <1>9, ItemStored
<1>10. CASE SourceDone
    BY <1>10, PageStored
<1>11. ASSUME NEW s \in Sources, Publish(s) PROVE IngestInv'
  <2>1. /\ version \in [Sources -> Nat] /\ version' = [version EXCEPT ![s] = @ + 1]
        /\ UNCHANGED <<row, stored, run, dropped>>
      BY <1>11 DEF Publish, IngestInv, IngestTyped
  <2>2. version' \in [Sources -> Nat] /\ \A t \in Sources : version[t] <= version'[t]
      BY <2>1
  <2>3. IngestTyped' /\ InHand' /\ RowCovered'
      BY <2>1, <2>2 DEF IngestInv, IngestTyped, OnSource, InHand, RowCovered, Current, Unfinished, Accepted, Hand
  <2>4. RowsStamped'
      BY <2>1, <2>2 DEF IngestInv, RowsStamped
  <2>5. QED
      BY <2>3, <2>4 DEF IngestInv
<1>12. CASE UNCHANGED ingestVars
  <2>1. UNCHANGED <<version, row, stored, run, dropped>>
      BY <1>12 DEF ingestVars
  <2>2. QED
      BY <2>1 DEF IngestInv, IngestTyped, OnSource, RowsStamped, InHand, RowCovered, Current, Unfinished, Accepted, Hand
<1>13. QED
    BY <1>3, <1>4, <1>5, <1>6, <1>7, <1>8, <1>9, <1>10, <1>11, <1>12 DEF IngestNext, ProcessStep

(* CacheManager and the runner: the row is committed before the page is even  *)
(* parsed; whatever is published, fails or is killed in between, what the     *)
(* validators of a row name is in the items table, but for what the run that  *)
(* accepted that very page had in hand when it was stopped.  For any sources, *)
(* validators, windows and caps.                                              *)
THEOREM RowsPromise == IngestSpec => []RowCovered
<1>1. IngestInv => RowCovered
    BY DEF IngestInv
<1>2. QED
    BY IngestStarts, IngestSteps, <1>1, PTL DEF IngestSpec
=============================================================================
