----------------------------- MODULE HttpFetcher -----------------------------
(***************************************************************************)
(* One HttpFetcher.fetch call after another for one source                 *)
(* (src/src/features/fetch/client.py): conditional headers from the cache  *)
(* row, attempts with exponential backoff and Retry-After, one cache       *)
(* update at the end.  Times are milliseconds in the code and abstract     *)
(* units here; the jitter is either end of its range.                      *)
(***************************************************************************)
EXTENDS HttpCache

CONSTANTS
    Tags,             \* ETag and Last-Modified values, NoTag included
    Replies,          \* what a server and the network can answer
    Budgets,          \* max_retries: the policy's, or the caller's override
    BaseDelay,        \* RetryPolicy.base_delay_ms
    MaxDelay,         \* RetryPolicy.max_delay_ms
    JitterPercent,    \* RetryPolicy.jitter_factor
    MaxRetryAfter     \* MAX_RETRY_AFTER_SECONDS

(* The powers of two a budget leads to are numbers; the provers have no       *)
(* definition of ^ to know it from.                                          *)
ASSUME FetcherAssumption ==
    /\ Budgets \subseteq Nat /\ Budgets # {}
    /\ BaseDelay \in Nat /\ MaxDelay \in Nat /\ JitterPercent \in 0..100
    /\ MaxRetryAfter \in Nat
    /\ \A budget \in Budgets : \A n \in 0..budget : 2 ^ n \in Nat
    /\ NoTag \in Tags
    /\ Replies # {}
    /\ \A r \in Replies : r.kind \in ReplyKinds /\ r.retryAfter \in Int
                          /\ r.etag \in Tags /\ r.modified \in Tags

VARIABLES
    row,         \* the http_cache row of the source
    call,        \* the fetch in progress and the reply of its last attempt
    delivered,   \* the FetchResult the caller got last
    requests,    \* requests sent by this call
    slept        \* time this call has slept

vars == <<row, call, delivered, requests, slept>>

AtRest(reply) == [pc |-> "idle", budget |-> 0, attempt |-> 0,
                  sent |-> Unconditional, reply |-> reply]

Init ==
    /\ row = NewRow
    /\ delivered = CHOOSE reply \in Replies : TRUE
    /\ call = AtRest(delivered)
    /\ requests = 0 /\ slept = 0

(* fetch(): the conditional headers are read once, before the first attempt. *)
Call(budget) ==
    /\ call.pc = "idle"
    /\ call' = [call EXCEPT !.pc = "ready", !.budget = budget, !.sent = Conditional(row)]
    /\ requests' = 0 /\ slept' = 0
    /\ UNCHANGED <<row, delivered>>

(* The loop ends here: the policy refuses the last attempt, so what follows  *)
(* the loop, record_failure among it, is never reached.                      *)
Again(reply) == ShouldRetry(reply, call.attempt, call.budget)

\* Faulty variant: the cache row is written after every attempt.
AttemptSaving(reply) ==
    /\ call.pc = "ready"
    /\ requests' = requests + 1
    /\ call' = [call EXCEPT !.reply = reply, !.pc = IF Again(reply) THEN "backoff" ELSE "answered"]
    /\ row' = UpdateFromResult(row, reply)
    /\ UNCHANGED <<delivered, slept>>

(* _execute_single, and what the loop makes of its result. *)
Attempt(reply) ==
    /\ call.pc = "ready"
    /\ requests' = requests + 1
    /\ call' = [call EXCEPT !.reply = reply, !.pc = IF Again(reply) THEN "backoff" ELSE "answered"]
    /\ UNCHANGED <<row, delivered, slept>>

Lower(a, b) == IF a < b THEN a ELSE b

(* get_delay_ms: the cap comes first, the jitter is added on top of it. *)
Delay(attempt) == Lower(BaseDelay * 2 ^ attempt, MaxDelay)
Jitter(delay) == {0, (delay * JitterPercent) \div 100}

\* Faulty variant: the server says how long to wait, whatever it says.
RetryAfterUncapped(reply) ==
    IF reply.kind = "rate_limited" /\ reply.retryAfter > 0 THEN reply.retryAfter ELSE 0

(* A positive Retry-After of a 429, capped. *)
RetryAfterWait(reply) ==
    IF reply.kind = "rate_limited" /\ reply.retryAfter > 0
    THEN Lower(reply.retryAfter, MaxRetryAfter) ELSE 0

(* Both sleeps between two attempts: Retry-After, then the backoff. *)
Backoff ==
    /\ call.pc = "backoff"
    /\ \E jitter \in Jitter(Delay(call.attempt)) :
         slept' = slept + RetryAfterWait(call.reply) + Delay(call.attempt) + jitter
    /\ call' = [call EXCEPT !.pc = "ready", !.attempt = @ + 1]
    /\ UNCHANGED <<row, delivered, requests>>

(* The cache row is committed, then the result is returned. *)
Finish ==
    /\ call.pc = "answered"
    /\ row' = UpdateFromResult(row, call.reply)
    /\ delivered' = call.reply
    /\ call' = AtRest(delivered')
    /\ UNCHANGED <<requests, slept>>

(* The process dies, or the store refuses the row and fetch raises. *)
Die ==
    /\ call.pc # "idle"
    /\ call' = AtRest(delivered)
    /\ UNCHANGED <<row, delivered, requests, slept>>

Step == (\E reply \in Replies : Attempt(reply)) \/ Backoff \/ Finish

Next == (\E budget \in Budgets : Call(budget)) \/ Step \/ Die

Spec == Init /\ [][Next]_vars

-----------------------------------------------------------------------------
Headers == [etag: Tags, modified: Tags]

TypeOK ==
    /\ row \in [etag: Tags, modified: Tags, status: ReplyKinds \cup {"none"}]
    /\ call \in [pc: {"idle", "ready", "backoff", "answered"}, budget: Budgets \cup {0},
                 attempt: Nat, sent: Headers, reply: Replies]
    /\ delivered \in Replies
    /\ call.attempt <= call.budget
    /\ requests \in Nat

(* A transient error reaches the caller only when every attempt of the      *)
(* budget met one; anything else reaches it without a further request.      *)
GivesUpLate ==
    call.pc = "answered" =>
        IF call.reply.kind \in TransientKinds
        THEN requests = call.budget + 1
        ELSE requests <= call.budget + 1

(* No request follows a reply that settles the call: a success, a 304 or a  *)
(* permanent error is asked for once.                                       *)
AsksOnlyAfterTransient ==
    [][requests' > requests /\ requests > 0 => call.reply.kind \in TransientKinds]_vars

(* How long a call can hold up the run that made it, and with it the lock:  *)
(* each retry costs at most a capped, jittered delay and a capped           *)
(* Retry-After.                                                             *)
SleepBounded ==
    slept * 100 <= call.attempt * (MaxDelay * (100 + JitterPercent) + MaxRetryAfter * 100)
        \/ call.pc = "idle"

(* Retries stutter: to its caller a fetch is one reply and one row update.  *)
Abstract == INSTANCE CachedFetch
    WITH phase <- IF call.pc = "idle" THEN "idle" ELSE "busy"
RefinesCachedFetch == Abstract!FetchSpec

(* Not so, see the README.  cache.py:95 says "For errors, only updates       *)
(* last_status for tracking": the validators of a row would survive an error.*)
ErrorKeepsValidators ==
    [][call.pc = "answered" /\ call'.pc = "idle" /\ row' # row /\ IsError(call.reply)
         => row'.etag = row.etag /\ row'.modified = row.modified]_vars
=============================================================================
