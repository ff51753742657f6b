------------------------------ MODULE ArxivApi ------------------------------
(***************************************************************************)
(* The collector of arXiv keyword queries, src/src/collectors/arxiv/api.py:*)
(* the paging through a query window, the retries of a page and the rate   *)
(* limiter that all queries of a process share.  Sources are visited one   *)
(* after the other, in one thread.                                         *)
(***************************************************************************)
EXTENDS Integers, Sequences, FiniteSets, SequencesExt

CONSTANTS
    Backfill,           \* per source: a keyword query over more than a day
    PageSize,           \* fetch_max_items
    PageLimit,          \* ARXIV_API_MAX_PAGES
    BackfillPageLimit,  \* ARXIV_API_MAX_KEYWORD_BACKFILL_PAGES
    Attempts,           \* ARXIV_API_MAX_FETCH_ATTEMPTS
    MinInterval, MaxPerWindow, WindowDuration, Warmup, Cooldown,    \* the limiter's
    Backoff,            \* attempt -> the seconds slept after a failure
    RetryAfters,        \* what a 429 may ask for, 0 for nothing
    Gaps,               \* how long a request and its processing may take
    MaxListed,          \* bounds the papers of one window
    Unparsed            \* the papers whose entry cannot be parsed

ASSUME ApiAssumption ==
    /\ {PageSize, PageLimit, BackfillPageLimit, Attempts} \subseteq Nat \ {0}
    /\ {MinInterval, MaxPerWindow, WindowDuration, Warmup, Cooldown, MaxListed} \subseteq Nat
    /\ Backfill \in Seq(BOOLEAN) /\ Backoff \in [0..Attempts - 1 -> Nat]
    /\ RetryAfters \subseteq Nat /\ Gaps \subseteq Nat

VARIABLES
    now, limiter,
    source,             \* the source being collected, 0 before the first
    listed,             \* what the server lists for its window, newest first
    page, attempt,
    found,              \* seen_urls: the papers collected
    outcome,            \* per source visited: "done", "partial", "cut", "failed"
    sent,               \* history: when the last requests were sent
    quietUntil,         \* history: what the last 429 that was heeded asked for
    promised,           \* history: the papers listed when the source began
    withheld            \* history: what the server should have sent and did not

queryVars == <<source, listed, page, attempt, found, outcome, promised, withheld>>
clockVars == <<now, limiter, sent, quietUntil>>
apiVars == <<queryVars, clockVars>>

Later(a, b) == IF a > b THEN a ELSE b

-----------------------------------------------------------------------------
(* ArxivApiRateLimiter, created with the class.                               *)
Limiter == [first |-> TRUE, last |-> 0, count |-> 0, start |-> 0, blocked |-> 0]

(* Faulty variant: the window's cooldown replaces the spacing.                *)
WaitWithoutSpacing(l, t) ==
    LET free == IF t < l.blocked THEN [at |-> l.blocked, count |-> 0, start |-> l.blocked]
                ELSE [at |-> t, count |-> l.count, start |-> l.start]
        at == IF l.first THEN t + Warmup
              ELSE IF free.count >= MaxPerWindow THEN Later(free.at, free.start + WindowDuration) ELSE free.at
        count == IF l.first \/ free.count >= MaxPerWindow THEN 0 ELSE free.count
    IN  [first |-> FALSE, last |-> at, blocked |-> l.blocked, count |-> count + 1,
         start |-> IF count = 0 THEN at ELSE free.start]

(* wait_if_needed at time t; the request is sent at the new last.  A blocked  *)
(* time that has passed leaves the count as it is, a full window is waited    *)
(* for and begins anew, and the spacing comes last.                           *)
WaitIfNeeded(l, t) ==
    LET free == IF t < l.blocked THEN [at |-> l.blocked, count |-> 0, start |-> l.blocked]
                ELSE [at |-> t, count |-> l.count, start |-> l.start]
        full == free.count >= MaxPerWindow
        spaced == Later(IF full THEN Later(free.at, free.start + WindowDuration) ELSE free.at, l.last + MinInterval)
        at == IF l.first THEN t + Warmup ELSE spaced
        count == IF l.first \/ full THEN 0 ELSE free.count
    IN  [first |-> FALSE, last |-> at, blocked |-> l.blocked, count |-> count + 1,
         start |-> IF count = 0 THEN at ELSE free.start]

(* notify_rate_limited at time t.                                             *)
NotifyRateLimited(l, t, retryAfter) ==
    LET until == Later(l.blocked, t + Later(retryAfter, Cooldown))
    IN  [l EXCEPT !.blocked = until, !.count = 0, !.start = until, !.last = until]

-----------------------------------------------------------------------------
ApiInit ==
    /\ now = 0 /\ limiter = Limiter
    /\ source = 0 /\ listed = <<>> /\ page = 0 /\ attempt = 0 /\ found = {}
    /\ outcome = <<>> /\ sent = <<>> /\ quietUntil = 0 /\ promised = {} /\ withheld = {}

Collecting == source > Len(outcome)
ResolveMaxPages == IF Backfill[source] THEN BackfillPageLimit ELSE PageLimit

StartQuery ==
    /\ ~Collecting /\ source < Len(Backfill)
    /\ source' = source + 1
    /\ \E n \in 0..MaxListed : listed' = [i \in 1..n |-> i]
    /\ page' = 0 /\ attempt' = 0 /\ found' = {}
    /\ promised' = ToSet(listed') /\ withheld' = {}
    /\ UNCHANGED <<outcome, clockVars>>

(* arXiv indexes papers late: the rest of the list moves down meanwhile.      *)
LateIndexed ==
    /\ Collecting /\ Len(listed) < MaxListed
    /\ \E i \in 1..(Len(listed) + 1) : listed' = InsertAt(listed, i, Len(listed) + 1)
    /\ UNCHANGED <<source, page, attempt, found, outcome, promised, withheld, clockVars>>

(* A request of the page, sent when the limiter lets it.                      *)
Sent(l) == sent' = Append(IF Len(sent) > MaxPerWindow THEN Tail(sent) ELSE sent, l.last)
Send(l, gap) ==
    /\ now' = l.last + gap
    /\ Sent(l)

Settle(how) ==
    /\ outcome' = Append(outcome, how)
    /\ UNCHANGED <<source, listed, page, attempt, found, promised, withheld>>

(* Faulty variant: the items of a page are counted, not its entries.          *)
NewOf(papers) == ToSet(papers) \ (found \cup Unparsed)
IsLastPageByItems(entries, total) ==
    \/ total # -1 /\ page * PageSize + Cardinality(NewOf(entries)) >= total
    \/ Cardinality(NewOf(entries)) < PageSize

(* After the end of the results as the server counts them, if it does, or     *)
(* after a page that is not full.                                             *)
IsLastPage(entries, total) ==
    \/ total # -1 /\ page * PageSize + Len(entries) >= total
    \/ Len(entries) < PageSize

(* What the server sends for the page: its stretch of the list, or, when it   *)
(* falters, only the n papers it begins with (cron-dispatch.sh:12 "empty      *)
(* feeds").                                                                   *)
Stretch ==
    LET end == (page + 1) * PageSize
    IN  SubSeq(listed, page * PageSize + 1, IF end < Len(listed) THEN end ELSE Len(listed))
Entries(n) == SubSeq(Stretch, 1, n)

(* A page arrives and is parsed; an empty or short one ends the query.        *)
Answer(l, gap) ==
    /\ Send(l, gap) /\ limiter' = l /\ UNCHANGED quietUntil
    /\ \E n \in 0..Len(Stretch) : \E total \in {-1, Len(listed)} :
             /\ found' = found \cup NewOf(Entries(n))
             /\ withheld' = IF n < Len(Stretch) THEN {listed[i] : i \in page * PageSize + n + 1..Len(listed)} ELSE {}
             /\ IF Entries(n) = <<>> \/ IsLastPage(Entries(n), total)
                  THEN outcome' = Append(outcome, "done") /\ UNCHANGED <<page, attempt>>
                  ELSE IF page + 1 = ResolveMaxPages
                    THEN outcome' = Append(outcome, "cut") /\ UNCHANGED <<page, attempt>>
                    ELSE page' = page + 1 /\ attempt' = 0 /\ UNCHANGED outcome
             /\ UNCHANGED <<source, listed, promised>>

(* A feed that is no XML fails the source, a partial result notwithstanding.  *)
Malformed(l, gap) ==
    /\ Send(l, gap) /\ limiter' = l /\ UNCHANGED quietUntil
    /\ Settle("failed")

(* A page that cannot be had: a backfill keeps what earlier pages gave.       *)
GiveUp ==
    Settle(IF Backfill[source] /\ page > 0 /\ found # {} THEN "partial" ELSE "failed")

Retry == attempt' = attempt + 1 /\ UNCHANGED <<source, listed, page, found, outcome, promised, withheld>>
LastAttempt == attempt = Attempts - 1

(* _should_retry_api_fetch: a refusal other than 429 is final.                *)
RefusedRequest(l, gap) ==
    /\ Send(l, gap) /\ limiter' = l /\ UNCHANGED quietUntil
    /\ GiveUp

(* A 429 is passed on to the limiter, unless it was the last attempt.         *)
RateLimited(l, gap) ==
    /\ Send(l, gap)
    /\ IF LastAttempt THEN GiveUp /\ limiter' = l /\ UNCHANGED quietUntil
       ELSE \E retryAfter \in RetryAfters :
              /\ limiter' = NotifyRateLimited(l, now', retryAfter)
              /\ quietUntil' = now' + Later(retryAfter, Cooldown)
              /\ Retry

(* A server error, a timeout, no connection, an exception: back off.          *)
Failed(l, gap) ==
    /\ Sent(l) /\ limiter' = l /\ UNCHANGED quietUntil
    /\ IF LastAttempt THEN now' = l.last + gap /\ GiveUp
       ELSE now' = l.last + gap + Backoff[attempt] /\ Retry

Request ==
    /\ Collecting
    /\ LET l == WaitIfNeeded(limiter, now) IN
       \E gap \in Gaps :
          \/ Answer(l, gap) \/ Malformed(l, gap) \/ RefusedRequest(l, gap) \/ RateLimited(l, gap) \/ Failed(l, gap)

ApiNext == StartQuery \/ Request \/ LateIndexed

ApiSpec == ApiInit /\ [][ApiNext]_apiVars

-----------------------------------------------------------------------------
(* A source that is done, without a cut or a failure, lacks a paper that was  *)
(* in its window when it began and can be parsed only where the server        *)
(* stopped short of it: whatever arXiv indexed between two pages, no paper is *)
(* skipped above that place, and none at all if every page came whole         *)
(* (api.py:719-739).                                                          *)
WindowCovered ==
    outcome # <<>> /\ ~Collecting /\ outcome[source] = "done" => promised \ Unparsed \subseteq found \cup withheld

(* api.py:641 "until the lookback window is covered": not so when a feed is   *)
(* empty or short that should not be, see the README.                         *)
WholeWindow ==
    outcome # <<>> /\ ~Collecting /\ outcome[source] = "done" => promised \ Unparsed \subseteq found

(* Two requests of a process are never closer than the interval, whatever     *)
(* retries, pages and sources lie between them, and none is sent in the       *)
(* cooldown of a 429 (api.py:133-138, 213-218).                               *)
SendPolitely ==
    sent' # sent => LET n == Len(sent') IN
        /\ n > 1 => sent'[n] - sent'[n - 1] >= MinInterval
        /\ sent'[n] >= quietUntil
Polite == [][SendPolitely]_apiVars

(* api.py:135 "Enforces a sliding window of max_requests_per_window API calls *)
(* per window_duration seconds".  Not so, see the README.                     *)
SlidingWindow ==
    \A i \in DOMAIN sent :
        i + MaxPerWindow \in DOMAIN sent => sent[i + MaxPerWindow] - sent[i] >= WindowDuration
=============================================================================
