------------------------------ MODULE HttpCache ------------------------------
(***************************************************************************)
(* What a fetch can come back with (src/src/features/fetch/client.py) and  *)
(* what it does to the http_cache row of its source                        *)
(* (src/src/features/fetch/cache.py).  A reply keeps what the callers tell *)
(* apart: its class, the two validators of its headers and Retry-After.    *)
(***************************************************************************)
EXTENDS Integers

CONSTANT NoTag     \* a header, or a column, that is absent

(* Replies with error = None: 2xx, 304, and any other 1xx or 3xx status.   *)
CleanKinds == {"ok", "not_modified", "other_status"}
TransientKinds == {"timeout", "connection", "server_error", "rate_limited"}
PermanentKinds == {"client_error", "too_large", "too_large_304", "unknown"}
ReplyKinds == CleanKinds \cup TransientKinds \cup PermanentKinds

IsError(reply) == reply.kind \notin CleanKinds
IsSuccess(reply) == reply.kind = "ok"
CacheHit(reply) == reply.kind = "not_modified"

\* Faulty variant: every error is worth another try.
ShouldRetryAnyError(reply, attempt, budget) == attempt < budget /\ IsError(reply)
\* Faulty variant: 429 is taken for one more client error.
ShouldRetryNot429(reply, attempt, budget) ==
    attempt < budget /\ reply.kind \in TransientKinds \ {"rate_limited"}

(* RetryPolicy.should_retry *)
ShouldRetry(reply, attempt, budget) ==
    attempt < budget /\ reply.kind \in TransientKinds

(* An http_cache row; a source without one sends no validators either. *)
NewRow == [etag |-> NoTag, modified |-> NoTag, status |-> "none"]

(* The headers of the next request. *)
Conditional(row) == [etag |-> row.etag, modified |-> row.modified]
Unconditional == [etag |-> NoTag, modified |-> NoTag]

Or(tag, default) == IF tag # NoTag THEN tag ELSE default

(* A reply without an HTTP status is stored with last_status NULL. *)
LastStatus(reply) ==
    IF reply.kind \in {"timeout", "connection", "unknown"} THEN "none" ELSE reply.kind

(* CacheManager.update_from_result: the row that is written.  An error with *)
(* status 304, for the length it announces, leaves the row its validators.  *)
UpdateFromResult(row, reply) ==
    IF IsError(reply) /\ reply.kind # "too_large_304"
    THEN [NewRow EXCEPT !.status = LastStatus(reply)]
    ELSE IF CacheHit(reply) \/ reply.kind = "too_large_304"
    THEN [etag |-> Or(reply.etag, row.etag),
          modified |-> Or(reply.modified, row.modified),
          status |-> LastStatus(reply)]
    ELSE [etag |-> reply.etag, modified |-> reply.modified, status |-> LastStatus(reply)]
=============================================================================
