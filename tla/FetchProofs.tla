----------------------------- MODULE FetchProofs -----------------------------
(***************************************************************************)
(* Proofs about HttpFetcher, for any set of replies, any budgets and any   *)
(* delays: how often a call asks, and that retries do not show; and about  *)
(* Platforms, which makes items of what is fetched, for any configurations *)
(* whose sources list things of one kind, any things, caps and edits: what *)
(* the rows hold of an edit, what the linker makes of the rows of a paper, *)
(* what is said of a source.                                               *)
(***************************************************************************)
EXTENDS HttpFetcher, Platforms, FiniteSetTheorems, TLAPS

Calls == [pc: {"idle", "ready", "backoff", "answered"}, budget: Budgets \cup {0},
          attempt: Nat, sent: Headers, reply: Replies]

(* How the requests sent, the attempt and the reply of a call hang together. *)
Progress ==
    /\ call.pc = "ready" =>
         /\ requests = call.attempt /\ call.attempt <= call.budget
         /\ call.attempt > 0 => call.reply.kind \in TransientKinds
    /\ call.pc = "backoff" =>
         /\ requests = call.attempt + 1 /\ call.attempt < call.budget
         /\ call.reply.kind \in TransientKinds
    /\ call.pc = "answered" =>
         requests = call.attempt + 1 /\ call.attempt <= call.budget /\ ~Again(call.reply)
    /\ call.pc = "idle" => call.attempt = 0

Rows == [etag: Tags, modified: Tags, status: ReplyKinds \cup {"none"}]

IInv ==
    /\ row \in Rows /\ call \in Calls /\ delivered \in Replies /\ requests \in Nat
    /\ Progress

LEMMA Updated ==
    ASSUME row \in Rows, NEW reply \in Replies
    PROVE  UpdateFromResult(row, reply) \in Rows
<1>1. reply.kind \in ReplyKinds /\ reply.etag \in Tags /\ reply.modified \in Tags /\ NoTag \in Tags
    BY FetcherAssumption
<1>2. LastStatus(reply) \in ReplyKinds \cup {"none"}
    BY <1>1 DEF LastStatus
<1>3. \A tag, default \in Tags : Or(tag, default) \in Tags
    BY DEF Or
<1>4. row.etag \in Tags /\ row.modified \in Tags
    BY DEF Rows
<1>5. QED
    BY <1>1, <1>2, <1>3, <1>4 DEF UpdateFromResult, NewRow, Rows

LEMMA Rested == ASSUME NEW reply \in Replies PROVE AtRest(reply) \in Calls
BY FetcherAssumption DEF AtRest, Calls, Headers, Unconditional

LEMMA CallNumbers == call \in Calls => call.budget \in Nat /\ call.attempt \in Nat
<1> SUFFICES ASSUME call \in Calls PROVE call.budget \in Nat /\ call.attempt \in Nat
    OBVIOUS
<1>1. call.budget \in Budgets \cup {0} /\ call.attempt \in Nat
    BY DEF Calls
<1>2. Budgets \subseteq Nat
    BY FetcherAssumption
<1>3. 0 \in Nat
    OBVIOUS
<1>4. QED
    BY <1>1, <1>2, <1>3, Zenon

LEMMA InitIInv == Init => IInv
<1> SUFFICES ASSUME Init PROVE IInv
    OBVIOUS
<1>1. delivered \in Replies
    BY FetcherAssumption DEF Init
<1>2. row \in Rows
    BY FetcherAssumption DEF Init, NewRow, Rows
<1>3. QED
    BY <1>1, <1>2, Rested DEF Init, IInv, Progress, AtRest

LEMMA StepIInv == IInv /\ [Next]_vars => IInv'
<1> SUFFICES ASSUME IInv, [Next]_vars PROVE IInv'
    OBVIOUS
<1> USE DEF IInv
<1>1. ASSUME NEW budget \in Budgets, Call(budget) PROVE IInv'
  <2>1. Conditional(row) \in Headers /\ budget \in Nat
      BY FetcherAssumption DEF Conditional, Rows, Headers
  <2>2. call' \in Calls /\ call'.pc = "ready" /\ call'.attempt = call.attempt /\ call'.budget = budget
      BY <1>1, <2>1 DEF Call, Calls
  <2>3. QED
      BY <1>1, <2>1, <2>2 DEF Call, Progress
<1>2. ASSUME NEW reply \in Replies, Attempt(reply) PROVE IInv'
  <2>1. requests' = requests + 1 /\ UNCHANGED <<row, delivered>> /\ call.pc = "ready"
      BY <1>2 DEF Attempt
  <2>2. /\ call' \in Calls
        /\ call'.attempt = call.attempt /\ call'.budget = call.budget /\ call'.reply = reply
        /\ call'.pc = IF Again(reply) THEN "backoff" ELSE "answered"
      BY <1>2 DEF Attempt, Calls
  <2>3. Again(reply)' = Again(reply)
      BY <2>2 DEF Again, ShouldRetry
  <2>4. Progress'
      BY <2>1, <2>2, <2>3 DEF Progress, Again, ShouldRetry
  <2>5. QED
      BY <2>1, <2>2, <2>4
<1>3. CASE Backoff
  <2>1. UNCHANGED <<row, delivered, requests>> /\ call.pc = "backoff"
      BY <1>3 DEF Backoff
  <2>2. /\ call' \in Calls /\ call'.pc = "ready"
        /\ call'.attempt = call.attempt + 1 /\ call'.budget = call.budget
        /\ call'.reply = call.reply
    <3>1. call' = [call EXCEPT !.pc = "ready", !.attempt = call.attempt + 1]
        BY <1>3 DEF Backoff
    <3>2. call.attempt + 1 \in Nat
        BY CallNumbers
    <3>3. QED
        BY <3>1, <3>2 DEF Calls
  <2>3. call.budget \in Nat /\ call.attempt \in Nat
      BY CallNumbers
  <2>4. QED
      BY <2>1, <2>2, <2>3 DEF Progress
<1>4. CASE Finish
  <2>1. call.reply \in Replies
      BY DEF Calls
  <2>2. QED
      BY <1>4, <2>1, Updated, Rested DEF Finish, Progress, AtRest
<1>5. CASE Die
    BY <1>5, Rested DEF Die, Progress, AtRest
<1>6. CASE UNCHANGED vars
    BY <1>6 DEF vars, Progress, Again, ShouldRetry
<1>7. QED
    BY <1>1, <1>2, <1>3, <1>4, <1>5, <1>6 DEF Next, Step

(* Every state of every fetch keeps its count of requests. *)
LEMMA Inductive == Spec => []IInv
BY InitIInv, StepIInv, PTL DEF Spec

(* A call, its reply and the cache row are always what they should be.       *)
THEOREM FetcherTypes == Spec => []TypeOK
<1>1. IInv => TypeOK
  <2> SUFFICES ASSUME IInv PROVE TypeOK
      OBVIOUS
  <2>1. call.budget \in Nat /\ call.attempt \in Nat
      BY CallNumbers DEF IInv
  <2>2. call.attempt <= call.budget
      BY <2>1 DEF IInv, Calls, Progress
  <2>3. QED
      BY <2>2 DEF IInv, TypeOK, Calls, Rows
<1>2. QED
    BY <1>1, Inductive, PTL

(* _execute_with_retry uses its whole budget before it hands a transient     *)
(* error to the caller, and never asks more often.                           *)
THEOREM BudgetIsUsed == Spec => []GivesUpLate
<1>1. IInv => GivesUpLate
  <2> SUFFICES ASSUME IInv, call.pc = "answered"
               PROVE  /\ call.reply.kind \in TransientKinds => requests = call.budget + 1
                      /\ requests <= call.budget + 1
      BY DEF GivesUpLate
  <2>1. call.budget \in Nat /\ call.attempt \in Nat
      BY CallNumbers DEF IInv
  <2>2. QED
      BY <2>1 DEF IInv, Progress, Again, ShouldRetry
<1>2. QED
    BY <1>1, Inductive, PTL

(* A further request follows a transient error only: no reply that settles   *)
(* the call is asked for again.                                              *)
THEOREM SettledIsNotAsked == Spec => AsksOnlyAfterTransient
<1>1. IInv /\ [Next]_vars
        => [requests' > requests /\ requests > 0 => call.reply.kind \in TransientKinds]_vars
  <2> SUFFICES ASSUME IInv, [Next]_vars, requests' > requests, requests > 0
               PROVE  call.reply.kind \in TransientKinds
      OBVIOUS
  <2>1. requests \in Nat
      BY DEF IInv
  <2>2. call.pc = "ready"
    <3>1. requests' # requests /\ requests' # 0
        BY <2>1
    <3>2. \E reply \in Replies : Attempt(reply)
        BY <3>1 DEF Next, Step, Call, Backoff, Finish, Die, vars
    <3>3. QED
        BY <3>2 DEF Attempt
  <2>3. QED
      BY <2>2 DEF IInv, Progress
<1>2. QED
    BY <1>1, Inductive, PTL DEF Spec, AsksOnlyAfterTransient

LEMMA FetchStarts == Init => Abstract!FetchInit
BY FetcherAssumption
   DEF Init, AtRest, Abstract!FetchInit, NewRow, Abstract!NewRow

LEMMA FetchSteps ==
    IInv /\ [Next]_vars
      => [Abstract!Start \/ Abstract!Deliver \/ Abstract!Abandon]_(Abstract!fetchVars)
<1> SUFFICES ASSUME IInv, [Next]_vars
             PROVE  [Abstract!Start \/ Abstract!Deliver \/ Abstract!Abandon]_(Abstract!fetchVars)
    OBVIOUS
<1> USE DEF Abstract!fetchVars, IInv
<1>1. ASSUME NEW budget \in Budgets, Call(budget) PROVE Abstract!Start
    BY <1>1 DEF Call, Calls, Abstract!Start
<1>2. ASSUME NEW reply \in Replies, Attempt(reply) PROVE UNCHANGED Abstract!fetchVars
    BY <1>2 DEF Attempt, Calls
<1>3. CASE Backoff
    BY <1>3 DEF Backoff, Calls
<1>4. CASE Finish
  <2>1. call.reply \in Replies /\ call.pc = "answered"
      BY <1>4 DEF Finish, Calls
  <2>2. row' = Abstract!UpdateFromResult(row, call.reply) /\ delivered' = call.reply
      BY <1>4 DEF Finish, UpdateFromResult, Abstract!UpdateFromResult, IsError, Abstract!IsError,
         CacheHit, Abstract!CacheHit, NewRow, Abstract!NewRow, LastStatus, Abstract!LastStatus,
         Or, Abstract!Or, CleanKinds, Abstract!CleanKinds
  <2>3. call'.pc = "idle"
      BY <1>4 DEF Finish, AtRest
  <2>4. Abstract!Deliver
      BY <2>1, <2>2, <2>3 DEF Abstract!Deliver
  <2>5. QED
      BY <2>4
<1>5. CASE Die
    BY <1>5 DEF Die, AtRest, Abstract!Abandon
<1>6. CASE UNCHANGED vars
    BY <1>6 DEF vars
<1>7. QED
    BY <1>1, <1>2, <1>3, <1>4, <1>5, <1>6 DEF Next, Step

(* HttpFetcher.fetch with its retries implements the fetch its callers rely  *)
(* on: one reply, and one change of the cache row, by that reply.            *)
THEOREM RetriesStutter == Spec => RefinesCachedFetch
BY FetchStarts, FetchSteps, Inductive, PTL DEF Spec, RefinesCachedFetch, Abstract!FetchSpec

-----------------------------------------------------------------------------
(* The most one retry can cost, a hundred times over.                         *)
RetryCost == MaxDelay * (100 + JitterPercent) + MaxRetryAfter * 100

LEMMA Monotone ==
    ASSUME NEW a \in Nat, NEW b \in Nat, NEW c \in Nat, a <= b
    PROVE  a * c \in Nat /\ b * c \in Nat /\ a * c <= b * c
OBVIOUS

LEMMA Hundredths == ASSUME NEW m \in Nat PROVE m \div 100 \in Nat /\ (m \div 100) * 100 <= m
OBVIOUS

LEMMA NextMultiple ==
    ASSUME NEW n \in Nat, NEW c \in Nat
    PROVE  n * c \in Nat /\ (n + 1) * c = n * c + c
OBVIOUS

LEMMA Spread == ASSUME NEW d \in Nat, NEW p \in Nat PROVE d * (100 + p) = d * 100 + d * p /\ d * p \in Nat
OBVIOUS

LEMMA CostIsNumber == RetryCost \in Nat
<1>1. MaxDelay \in Nat /\ JitterPercent \in Nat /\ MaxRetryAfter \in Nat
    BY FetcherAssumption
<1>2. MaxDelay * (100 + JitterPercent) \in Nat
    BY <1>1, Spread
<1>3. QED
    BY <1>1, <1>2 DEF RetryCost

LEMMA DelayCapped ==
    ASSUME NEW budget \in Budgets, NEW n \in 0..budget
    PROVE  Delay(n) \in Nat /\ Delay(n) <= MaxDelay
<1>1. 2 ^ n \in Nat /\ BaseDelay \in Nat /\ MaxDelay \in Nat
    BY FetcherAssumption
<1> DEFINE power == 2 ^ n
<1>2. power \in Nat
    BY <1>1
<1> HIDE DEF power
<1>3. BaseDelay * power \in Nat
    BY <1>1, <1>2
<1>4. Delay(n) = IF BaseDelay * power < MaxDelay THEN BaseDelay * power ELSE MaxDelay
    BY DEF Delay, Lower, power
<1>5. QED
    BY <1>1, <1>3, <1>4

LEMMA WaitCapped ==
    ASSUME NEW reply \in Replies
    PROVE  RetryAfterWait(reply) \in Nat /\ RetryAfterWait(reply) <= MaxRetryAfter
BY FetcherAssumption DEF RetryAfterWait, Lower

LEMMA RetryCosts ==
    ASSUME NEW budget \in Budgets, NEW n \in 0..budget, NEW jitter \in Jitter(Delay(n)), NEW reply \in Replies
    PROVE  LET time == RetryAfterWait(reply) + Delay(n) + jitter IN
           time \in Nat /\ time * 100 <= RetryCost
<1> DEFINE d == Delay(n)
           w == RetryAfterWait(reply)
<1>1. d \in Nat /\ d <= MaxDelay /\ w \in Nat /\ w <= MaxRetryAfter
    BY DelayCapped, WaitCapped
<1>2. MaxDelay \in Nat /\ JitterPercent \in Nat /\ MaxRetryAfter \in Nat
    BY FetcherAssumption
<1>3. jitter = 0 \/ jitter = (d * JitterPercent) \div 100
    BY DEF Jitter
<1> HIDE DEF d, w
<1>4. d * JitterPercent \in Nat /\ MaxDelay * JitterPercent \in Nat
      /\ d * JitterPercent <= MaxDelay * JitterPercent
    BY <1>1, <1>2, Monotone
<1>5. jitter \in Nat /\ jitter * 100 <= MaxDelay * JitterPercent
    BY <1>3, <1>4, Hundredths
<1>6. MaxDelay * (100 + JitterPercent) = MaxDelay * 100 + MaxDelay * JitterPercent
    BY <1>2, Spread
<1>7. RetryCost = MaxDelay * 100 + MaxDelay * JitterPercent + MaxRetryAfter * 100
    BY <1>6 DEF RetryCost
<1>8. (w + d + jitter) * 100 = w * 100 + d * 100 + jitter * 100
    BY <1>1, <1>5
<1>9. w + d + jitter \in Nat /\ (w + d + jitter) * 100 <= RetryCost
    BY <1>1, <1>2, <1>4, <1>5, <1>7, <1>8
<1>10. QED
    BY <1>9 DEF d, w

(* What a call has slept is paid for by its attempts.                         *)
SleepInv == IInv /\ slept \in Nat /\ (call.pc # "idle" => slept * 100 <= call.attempt * RetryCost)

LEMMA SleepStep == SleepInv /\ [Next]_vars => SleepInv'
<1> SUFFICES ASSUME SleepInv, [Next]_vars PROVE SleepInv'
    OBVIOUS
<1>0. /\ IInv /\ IInv' /\ slept \in Nat /\ call \in Calls
      /\ call.pc # "idle" => slept * 100 <= call.attempt * RetryCost
      /\ RetryCost \in Nat /\ call.attempt \in Nat /\ call.budget \in Nat
    BY StepIInv, CostIsNumber, CallNumbers DEF SleepInv, IInv
<1>1. ASSUME NEW budget \in Budgets, Call(budget) PROVE SleepInv'
  <2>1. slept' = 0 /\ call'.attempt = call.attempt
      BY <1>0, <1>1 DEF Call, Calls
  <2>2. call.attempt * RetryCost \in Nat
      BY <1>0, NextMultiple
  <2>3. QED
      BY <1>0, <2>1, <2>2 DEF SleepInv
<1>2. ASSUME NEW reply \in Replies, Attempt(reply) PROVE SleepInv'
  <2>1. slept' = slept /\ call'.attempt = call.attempt /\ call.pc = "ready"
      BY <1>0, <1>2 DEF Attempt, Calls
  <2>2. QED
      BY <1>0, <2>1 DEF SleepInv
<1>3. CASE Backoff
  <2>1. call.pc = "backoff" /\ call'.attempt = call.attempt + 1
      BY <1>0, <1>3 DEF Backoff, Calls
  <2>2. PICK jitter \in Jitter(Delay(call.attempt)) :
            slept' = slept + RetryAfterWait(call.reply) + Delay(call.attempt) + jitter
      BY <1>3 DEF Backoff
  <2>3. call.budget \in Budgets /\ call.attempt \in 0..call.budget /\ call.reply \in Replies
    <3>1. call.attempt < call.budget
        BY <1>0, <2>1 DEF IInv, Progress
    <3>2. QED
        BY <1>0, <3>1 DEF Calls
  <2> DEFINE time == RetryAfterWait(call.reply) + Delay(call.attempt) + jitter
  <2>4. time \in Nat /\ time * 100 <= RetryCost
      BY <2>3, RetryCosts
  <2>5. slept' = slept + time
    <3>1. RetryAfterWait(call.reply) \in Nat /\ Delay(call.attempt) \in Nat
        BY <2>3, WaitCapped, DelayCapped
    <3>2. jitter \in Int
        BY <2>3, RetryCosts, <2>4, <3>1 DEF Jitter
    <3>3. QED
        BY <1>0, <2>2, <3>1, <3>2
  <2> HIDE DEF time
  <2>6. /\ call.attempt * RetryCost \in Nat
        /\ (call.attempt + 1) * RetryCost = call.attempt * RetryCost + RetryCost
      BY <1>0, NextMultiple
  <2>7. slept' * 100 <= call'.attempt * RetryCost
      BY <1>0, <2>1, <2>4, <2>5, <2>6
  <2>8. QED
      BY <1>0, <2>4, <2>5, <2>7 DEF SleepInv
<1>4. CASE Finish
    BY <1>0, <1>4 DEF Finish, AtRest, SleepInv
<1>5. CASE Die
    BY <1>0, <1>5 DEF Die, AtRest, SleepInv
<1>6. CASE UNCHANGED vars
    BY <1>0, <1>6 DEF vars, SleepInv
<1>7. QED
    BY <1>1, <1>2, <1>3, <1>4, <1>5, <1>6 DEF Next, Step

(* Every retry of a call holds up the run, and the lock it has, for at most   *)
(* the capped delay with its jitter and the capped Retry-After (client.py).   *)
THEOREM SleepIsBounded == Spec => []SleepBounded
<1>1. Init => SleepInv
    BY InitIInv DEF Init, AtRest, SleepInv
<1>2. SleepInv => SleepBounded
    BY DEF SleepInv, SleepBounded, RetryCost
<1>3. QED
    BY <1>1, <1>2, SleepStep, PTL DEF Spec

-----------------------------------------------------------------------------
(* Platforms.                                                                 *)
FieldNames == {"published", "updated", "word", "letters", "body", "rest", "label", "extra", "readme"}
ItemFields == {"url", "source", "thing", "title", "date", "hash", "raw"}
ResultFields == {"items", "error", "state", "new", "updated", "read", "wrote"}

(* Two polls meet in one row when their hashes are equal, and the hash need   *)
(* not hold what the row shows.  So an item is described by what its hash     *)
(* pins down: the fields in it, and, when the time of the last edit is among  *)
(* them, the fields a server dates every edit of, a README apart.             *)
HashedBy ==
    [github |-> {"label", "body", "published"}, hf |-> {"updated", "label"}, openreview |-> {"updated"},
     rss |-> {"body", "label", "updated"}, api |-> {"body", "label", "updated"}, daily |-> {}, pwc |-> {},
     blog |-> {"body", "date"}, list |-> {"date"}]
Followed == Dating[KindOfThings] \ {"readme"}
From(a) == Platform[a.source]

(* The date an item has unless a page of its own gave it one.                 *)
DateOf(a) ==
    CASE From(a) \in {"github", "daily", "pwc"} -> thing[a.thing]["published"]
      [] From(a) \in {"hf", "openreview"} -> a.hash[3]["updated"]
      [] From(a) \in {"rss", "api"} ->
            IF thing[a.thing]["published"] # 0 THEN thing[a.thing]["published"] ELSE a.hash[3]["updated"]
      [] From(a) \in {"blog", "list"} -> a.hash[3]["date"]

(* What is true of an item or a row however long ago it was made: what it     *)
(* shows is what its hash says, and if its time of the last edit is still the *)
(* thing's then so is all that moves that time.                               *)
Made(a) ==
    /\ DOMAIN a = ItemFields /\ DOMAIN a.raw = {"platform", "arxiv", "shows"}
    /\ a.thing \in Known /\ a.url[2] = a.thing
    /\ From(a) \in DOMAIN Kinds /\ Kinds[From(a)] = KindOfThings
    /\ a.hash[1] = a.url /\ a.hash[2] = a.title[1] /\ DOMAIN a.hash[3] = HashedBy[From(a)]
    /\ Noticed[From(a)] \subseteq DOMAIN a.raw.shows
    /\ "word" \in DOMAIN a.raw.shows => a.raw.shows["word"] = a.title[1]
    /\ "published" \in DOMAIN a.raw.shows => a.raw.shows["published"] = thing[a.thing]["published"]
    /\ \A f \in HashedBy[From(a)] \cap DOMAIN a.raw.shows : a.raw.shows[f] = a.hash[3][f]
    /\ "updated" \in HashedBy[From(a)] =>
         /\ a.hash[3]["updated"] \in Nat /\ a.hash[3]["updated"] <= thing[a.thing]["updated"]
         /\ a.hash[3]["updated"] = thing[a.thing]["updated"] =>
              \A f \in Followed \cap DOMAIN a.raw.shows : a.raw.shows[f] = thing[a.thing][f]
    /\ \/ a.date = DateOf(a)
       \/ "recovered" \in DOMAIN a.raw.shows /\ From(a) = "list" /\ a.hash[3]["date"] = 0
    /\ KindOfThings = "paper" => a.raw.arxiv \in {a.thing, None} /\ a.url[1] \in {"arxiv.org", "paperswithcode.com"}

(* b shows what a does, in the fields a's collector is answerable for.        *)
Agree(a, b) == \A f \in Noticed[From(a)] : b.raw.shows[f] = a.raw.shows[f]

-----------------------------------------------------------------------------
(* The invariant                                                              *)

(* The items of the source at hand: being completed, or given to the store.   *)
Kept(pc) == pc \in {"upsert", "polled"}
Handled == poll.plain \cup poll.todo \cup (IF Kept(poll.pc) THEN results[Polled].items ELSE {})

PollTyped ==
    /\ moment \in Nat /\ thing \in [Things -> [FieldNames -> 0..moment]]
    /\ sources \in SourceLists
    /\ DOMAIN poll = {"pc", "cur", "plain", "todo"}
    /\ poll.pc \in {"down", "fetch", "readme", "pages", "upsert", "polled"}
    /\ poll.pc # "down" => poll.cur \in DOMAIN sources
    /\ poll.pc \in {"down", "fetch", "upsert", "polled"} => poll.plain = {}
    /\ poll.pc \in {"down", "fetch", "polled"} => poll.todo = {}
    /\ poll.pc = "readme" => Here = "hf"
    /\ poll.pc = "pages" => Here = "list"
    /\ Kept(poll.pc) => Polled \in DOMAIN results
    /\ poll.pc = "upsert" => poll.todo \subseteq results[Polled].items
    /\ \A s \in DOMAIN results : DOMAIN results[s] = ResultFields

(* A source gives one item of a thing, with a date once pages were asked.     *)
HandInv ==
    /\ \A a \in Handled : Made(a) /\ a.source = Polled /\ (poll.pc # "pages" => a.date # 0)
    /\ \A a, b \in Handled : a.thing = b.thing => a = b
    /\ poll.plain \cap poll.todo = {}
    /\ poll.pc = "pages" => \A a \in poll.plain : a.date = 0
RowInv == \A u \in DOMAIN rows : Made(rows[u]) /\ rows[u].url = u

(* Servers edit while a source is polled, so both may be out of date, yet     *)
(* agree with each other.                                                     *)
PairInv == \A a \in Handled : \A u \in DOMAIN rows : rows[u].hash = a.hash => Agree(a, rows[u])
DoneInv ==
    Kept(poll.pc) =>
      \A a \in results[Polled].items \ poll.todo : a.url \in DOMAIN rows /\ rows[a.url].hash = a.hash
EditInv == PollTyped /\ HandInv /\ RowInv /\ PairInv /\ DoneInv

(* A result that says whether rows were written, and of a failure that there  *)
(* was nothing to write.                                                      *)
Told(r) ==
    /\ r.new \in Nat /\ r.updated \in Nat
    /\ r.wrote <=> r.new > 0 \/ r.updated > 0
    /\ \/ r.state = "SOURCE_DONE" /\ r.error = "none"
       \/ r.state = "SOURCE_FAILED" /\ r.items = {} /\ ~r.wrote /\ r.error \in {"none", "FETCH", "PARSE", "SCHEMA"}
ToldInv ==
    /\ \A s \in DOMAIN results : Told(results[s]) /\ Platform[s] \in DOMAIN Kinds
    /\ poll.pc = "upsert" => results[Polled].state = "SOURCE_DONE"

-----------------------------------------------------------------------------
(* What equal hashes say                                                      *)

LEMMA SameKindSameHash ==
    ASSUME NEW p \in DOMAIN Kinds, NEW q \in DOMAIN Kinds, Kinds[p] = Kinds[q], HashedBy[p] = HashedBy[q]
    PROVE  /\ Noticed[p] = Noticed[q]
           /\ p \in {"hf", "openreview"} => q \in {"hf", "openreview"}
           /\ p \in {"rss", "api"} => q \in {"rss", "api"}
           /\ p \in {"github", "daily", "pwc"} => q \in {"github", "daily", "pwc"}
           /\ p \in {"blog", "list"} => q = p
BY DEF Kinds, HashedBy, Noticed

(* A noticed field is in the hash, or dated by it, or never edited.          *)
LEMMA NoticedHow ==
    ASSUME NEW p \in DOMAIN Kinds, NEW f \in Noticed[p]
    PROVE  \/ f \in {"word", "published"} \cup HashedBy[p]
           \/ "updated" \in HashedBy[p] /\ f \in Dating[Kinds[p]] \ {"readme"}
BY DEF Kinds, HashedBy, Noticed, Dating

(* An item just made agrees with every row of its hash.                      *)
LEMMA SameHashAgrees ==
    ASSUME NEW a, NEW b, Made(a), Made(b), a.hash = b.hash,
           "updated" \in HashedBy[From(a)] => a.hash[3]["updated"] = thing[a.thing]["updated"]
    PROVE  Agree(a, b)
<1>1. a.thing = b.thing /\ HashedBy[From(a)] = HashedBy[From(b)] /\ Noticed[From(a)] = Noticed[From(b)]
    BY SameKindSameHash DEF Made
<1>2. SUFFICES ASSUME NEW f \in Noticed[From(a)] PROVE b.raw.shows[f] = a.raw.shows[f]
    BY DEF Agree
<1>3. f \in DOMAIN a.raw.shows /\ f \in DOMAIN b.raw.shows
    BY <1>1 DEF Made
<1>4. CASE f = "word"
    BY <1>3, <1>4 DEF Made
<1>5. CASE f = "published"
    BY <1>1, <1>3, <1>5 DEF Made
<1>6. CASE f \in HashedBy[From(a)]
    BY <1>1, <1>3, <1>6 DEF Made
<1>7. CASE "updated" \in HashedBy[From(a)] /\ f \in Followed
    BY <1>1, <1>3, <1>7 DEF Made
<1>8. QED
    BY <1>4, <1>5, <1>6, <1>7, NoticedHow DEF Made, Followed

LEMMA SameHashSameDate ==
    ASSUME NEW a, NEW b, Made(a), Made(b), a.hash = b.hash, a.date # 0
    PROVE  b.date = a.date \/ "recovered" \in DOMAIN a.raw.shows
<1>1. a.thing = b.thing /\ HashedBy[From(a)] = HashedBy[From(b)]
    BY DEF Made
<1>2. DateOf(a) = DateOf(b)
    BY <1>1, SameKindSameHash DEF Made, DateOf, Kinds
<1>3. CASE a.date = DateOf(a) /\ From(b) = "list" /\ b.hash[3]["date"] = 0
  <2>1. From(a) = "list"
      BY <1>1, <1>3, SameKindSameHash DEF Made, Kinds, HashedBy
  <2>2. QED
      BY <1>3, <2>1 DEF DateOf
<1>4. QED
    BY <1>2, <1>3 DEF Made

-----------------------------------------------------------------------------
(* What each collector makes of an entry                                      *)

LEMMA HereListed ==
    ASSUME PollTyped, poll.pc # "down"
    PROVE  Here \in DOMAIN Kinds /\ Kinds[Here] = KindOfThings
BY PlatformsAssumption DEF PollTyped, Here, Polled, KindOfThings

LEMMA ThingFields ==
    ASSUME PollTyped, NEW t \in Known
    PROVE  /\ t \in Things /\ \A f \in FieldNames : thing[t][f] \in Nat
           /\ thing[t]["updated"] # 0
BY DEF PollTyped, Known, FieldNames

(* An item of t as the source at hand has just made it.                       *)
Latest(a) == "updated" \in HashedBy[From(a)] => a.hash[3]["updated"] = thing[a.thing]["updated"]
New(a, t) == Made(a) /\ Latest(a) /\ a.source = Polled /\ a.thing = t

(* Every collector makes such items of the things the servers know.           *)
LEMMA ItemsMade ==
    ASSUME PollTyped, poll.pc # "down", NEW t \in Known
    PROVE  /\ Here = "github" => New(ParseRelease(t), t)
           /\ Here = "hf" => New(ParseModel(t), t)
           /\ Here = "openreview" => New(ParseNote(t), t)
           /\ Here = "rss" => New(ParseEntry(t), t)
           /\ Here = "api" => New(ParseApiEntry(t), t)
           /\ Here = "daily" => New(ParseDailyPaper(t), t)
           /\ Here = "pwc" => \A given : New(ParsePwcPaper(t, given), t)
           /\ Here = "blog" => New(ParseFeedEntry(t), t)
           /\ Here = "list" => New(ParseContainer(t), t) /\ New(ParseLink(t), t)
<1> USE HereListed, ThingFields
        DEF New, Made, Latest, From, DateOf, ItemFields, FieldNames, HashedBy, Noticed, Kinds, Followed, Dating, Here,
            Item, Hash, HashPost, Raw
<1>1. Here = "github" => New(ParseRelease(t), t)
    BY DEF ParseRelease, HashRelease, ReleaseUrl, RawRelease
<1>2. Here = "hf" => New(ParseModel(t), t)
    BY DEF ParseModel, HashModel, ModelUrl, RawModel
<1>3. Here = "openreview" => New(ParseNote(t), t)
    BY DEF ParseNote, HashNote, NoteUrl, RawNote
<1>4. Here = "rss" => New(ParseEntry(t), t)
    BY DEF ParseEntry, HashEntry, AbsUrl, RawEntry, ExtractDate
<1>5. Here = "api" => New(ParseApiEntry(t), t)
    BY DEF ParseApiEntry, HashApiEntry, AbsUrl, RawApiEntry, ExtractApiDates
<1>6. Here = "daily" => New(ParseDailyPaper(t), t)
    BY SMTT(60) DEF ParseDailyPaper, AbsUrl
<1>7. Here = "pwc" => \A given : New(ParsePwcPaper(t, given), t)
  <2> SUFFICES ASSUME Here = "pwc", NEW given PROVE New(ParsePwcPaper(t, given), t)
      OBVIOUS
  <2>1. ExtractArxivId(t, given) \in {t, None}
      BY DEF ExtractArxivId, IdIn, PwcUrl, AbsUrlWithVersion
  <2>2. QED
      BY <2>1, SMTT(60) DEF ParsePwcPaper, PwcUrl, AbsUrlWithVersion
<1>8. Here = "blog" => New(ParseFeedEntry(t), t)
    BY DEF ParseFeedEntry, PostUrl, ExtractFeedDate
<1>9. Here = "list" => New(ParseContainer(t), t) /\ New(ParseLink(t), t)
    BY DEF ParseContainer, ParseLink, PostUrl
<1>10. QED
    BY <1>1, <1>2, <1>3, <1>4, <1>5, <1>6, <1>7, <1>8, <1>9

-----------------------------------------------------------------------------
(* The steps of a poll                                                        *)

(* Filters and caps only leave items out.                                     *)
LEMMA Taken ==
    /\ \A items : EnforceMaxItems(items) \subseteq items
    /\ \A items : \A kept \in EnforceMaxItemsUnsorted(items) : kept \subseteq items
    /\ \A items : FilterItemsByTime(items) \subseteq items /\ \A a \in FilterItemsByTime(items) : a.date # 0
    /\ \A field : LastBy(field) \subseteq Known
<1>1. \A items : EnforceMaxItems(items) \subseteq items
    BY DEF EnforceMaxItems, FirstBy
<1>2. \A items : \A kept \in EnforceMaxItemsUnsorted(items) : kept \subseteq items
    BY DEF EnforceMaxItemsUnsorted
<1>3. \A items : FilterItemsByTime(items) \subseteq items /\ \A a \in FilterItemsByTime(items) : a.date # 0
    BY DEF FilterItemsByTime
<1>4. \A field : LastBy(field) \subseteq Known
    BY DEF LastBy, FirstBy
<1>5. QED
    BY <1>1, <1>2, <1>3, <1>4

LEMMA StillMade ==
    ASSUME NEW a, Made(a), UNCHANGED <<sources, thing>>
    PROVE  Made(a)'
BY DEF Made, DateOf, From, Known, Followed, KindOfThings

(* What a poll may go on with.                                                *)
Sound(S) ==
    /\ \A a \in S : Made(a) /\ a.source = Polled
    /\ \A a, b \in S : a.thing = b.thing => a = b
    /\ \A a \in S : \A u \in DOMAIN rows : rows[u].hash = a.hash => Agree(a, rows[u])

LEMMA SoundPart == ASSUME NEW S, Sound(S), NEW T \in SUBSET S PROVE Sound(T)
BY DEF Sound

LEMMA SoundLatest ==
    ASSUME RowInv, NEW S, \A a \in S : New(a, a.thing), \A a, b \in S : a.thing = b.thing => a = b
    PROVE  Sound(S)
BY SameHashAgrees DEF Sound, New, RowInv, Latest

(* The items of a source, all dated, go to the upserts.                       *)
LEMMA Given ==
    ASSUME EditInv, poll.pc \in {"fetch", "readme", "pages"}, poll.plain = {}, NEW S, Sound(S),
           \A a \in S : a.date # 0, Give(S), Unfetched
    PROVE  EditInv'
<1>1. Polled' = Polled /\ Here' = Here /\ results'[Polled] = [NoResult EXCEPT !.items = S]
      /\ Polled \in DOMAIN results' /\ results'[Polled].items = S
    BY DEF EditInv, PollTyped, Give, Result, Unfetched, Polled, Here, NoResult
<1>2. poll'.pc = "upsert" /\ poll'.todo = S /\ poll'.plain = {} /\ poll'.cur = poll.cur
      /\ DOMAIN poll' = {"pc", "cur", "plain", "todo"}
    BY DEF EditInv, PollTyped, Give
<1>3. PollTyped'
  <2>1. \A s \in DOMAIN results' : DOMAIN results'[s] = ResultFields
      BY DEF EditInv, PollTyped, Give, Result, NoResult, ResultFields
  <2>2. QED
      BY <1>1, <1>2, <2>1 DEF EditInv, PollTyped, Unfetched, Kept
<1>4. Handled' = S
    BY <1>1, <1>2 DEF Handled, Kept
<1>5. HandInv'
    BY <1>1, <1>2, <1>4, StillMade DEF HandInv, Sound, Unfetched
<1>6. RowInv'
    BY StillMade DEF EditInv, RowInv, Unfetched
<1>7. PairInv'
    BY <1>4 DEF PairInv, Sound, Unfetched, Agree, From
<1>8. DoneInv'
    BY <1>1, <1>2 DEF DoneInv
<1>9. QED
    BY <1>3, <1>5, <1>6, <1>7, <1>8 DEF EditInv

(* What the collector of the source at hand makes of an entry of t; given are *)
(* the papers whose entry has an arxiv_id.                                    *)
ParsedHere(a, t, given) ==
    \/ Here = "github" /\ a = ParseRelease(t)
    \/ Here = "hf" /\ a = ParseModel(t)
    \/ Here = "openreview" /\ a = ParseNote(t)
    \/ Here = "rss" /\ a = ParseEntry(t)
    \/ Here = "api" /\ a = ParseApiEntry(t)
    \/ Here = "daily" /\ a = ParseDailyPaper(t)
    \/ Here = "pwc" /\ a = ParsePwcPaper(t, given)
    \/ Here = "blog" /\ a = ParseFeedEntry(t)

(* One item of a thing, agreeing with the rows, whatever the collector.       *)
LEMMA ParsedOne ==
    ASSUME EditInv, poll.pc = "fetch", NEW S, NEW given,
           \A a \in S : \E t \in Known : ParsedHere(a, t, given)
    PROVE  Sound(S)
<1>1. \A a \in S : \E t \in Known : New(a, t) /\ ParsedHere(a, t, given)
    BY ItemsMade DEF EditInv, ParsedHere
<1>2. \A a \in S : New(a, a.thing)
    BY <1>1 DEF New
<1>3. \A a, b \in S : a.thing = b.thing => a = b
    BY <1>1 DEF New, ParsedHere
<1>4. QED
    BY <1>2, <1>3, SoundLatest DEF EditInv

LEMMA CollectGiven ==
    ASSUME EditInv, poll.pc = "fetch", NEW S, Sound(S), NEW T, T \subseteq FilterItemsByTime(S), Give(T), Unfetched
    PROVE  EditInv'
<1>1. T \in SUBSET S /\ \A a \in T : a.date # 0
    BY Taken
<1>2. Sound(T)
    BY <1>1, SoundPart
<1>3. poll.plain = {}
    BY DEF EditInv, PollTyped
<1>4. QED
    BY <1>1, <1>2, <1>3, Given

(* The collectors that ask for nothing more than their list.                  *)
Collect ==
    \/ CollectReleases \/ CollectNotes \/ CollectFeed \/ CollectQuery
    \/ CollectDailyPapers \/ CollectPwcPapers \/ CollectPosts
LEMMA CollectStep == EditInv /\ Collect => EditInv'
<1> SUFFICES ASSUME EditInv, Collect PROVE EditInv'
    OBVIOUS
<1>0. poll.pc = "fetch"
    BY DEF Collect, CollectReleases, CollectNotes, CollectFeed, CollectQuery, CollectDailyPapers, CollectPwcPapers,
           CollectPosts, Poll
<1>1. PICK S, T, given : /\ T \subseteq FilterItemsByTime(S) /\ Give(T) /\ Unfetched
                         /\ \A a \in S : \E t \in Known : ParsedHere(a, t, given)
  <2> DEFINE Of(S) == \A a \in S : \E t \in Known : ParsedHere(a, t, {})
  <2>1. CASE CollectReleases
    <3>1. Of(Releases)
        BY <2>1, Taken DEF CollectReleases, Poll, Releases, ParsedHere
    <3>2. QED
        BY <2>1, <3>1, Taken DEF CollectReleases
  <2>2. CASE CollectNotes
    <3>1. Of(Notes)
        BY <2>2, Taken DEF CollectNotes, Poll, Notes, ParsedHere
    <3>2. QED
        BY <2>2, <3>1, Taken DEF CollectNotes
  <2>3. CASE CollectFeed
    <3>1. Of(FeedEntries)
        BY <2>3 DEF CollectFeed, Poll, FeedEntries, ParsedHere
    <3>2. QED
        BY <2>3, <3>1, Taken DEF CollectFeed
  <2>4. CASE CollectQuery
    <3>1. Of({ParseApiEntry(t) : t \in Known})
        BY <2>4 DEF CollectQuery, Poll, ParsedHere
    <3>2. QED
        BY <2>4, <3>1, Taken DEF CollectQuery
  <2>5. CASE CollectDailyPapers
    <3>1. Of(DailyPapers)
        BY <2>5 DEF CollectDailyPapers, Poll, DailyPapers, ParsedHere
    <3>2. QED
        BY <2>5, <3>1, Taken DEF CollectDailyPapers
  <2>6. CASE CollectPwcPapers
    <3>1. PICK given \in SUBSET Known :
             \E items \in EnforceMaxItemsUnsorted(FilterItemsByTime(PwcPapers(given))) : Give(items)
        BY <2>6 DEF CollectPwcPapers
    <3>2. \A a \in PwcPapers(given) : \E t \in Known : ParsedHere(a, t, given)
        BY <2>6 DEF CollectPwcPapers, Poll, PwcPapers, ParsedHere
    <3>3. QED
        BY <2>6, <3>1, <3>2, Taken DEF CollectPwcPapers
  <2>7. CASE CollectPosts
    <3>1. Of({ParseFeedEntry(t) : t \in Known})
        BY <2>7 DEF CollectPosts, Poll, ParsedHere
    <3>2. QED
        BY <2>7, <3>1, Taken DEF CollectPosts
  <2>8. QED
      BY <2>1, <2>2, <2>3, <2>4, <2>5, <2>6, <2>7 DEF Collect
<1>2. Sound(S)
    BY <1>0, <1>1, ParsedOne
<1>3. QED
    BY <1>0, <1>1, <1>2, CollectGiven

(* Items still to be completed, by a README or a page.                        *)
LEMMA Laid ==
    ASSUME EditInv, poll.pc \in {"fetch", "readme", "pages"}, NEW pc \in {"readme", "pages"}, NEW S, NEW T,
           Sound(S \cup T), S \cap T = {}, pc = "readme" => Here = "hf", pc = "pages" => Here = "list",
           pc # "pages" => \A a \in S \cup T : a.date # 0, pc = "pages" => \A a \in S : a.date = 0,
           poll' = [poll EXCEPT !.pc = pc, !.plain = S, !.todo = T], UNCHANGED results, Unfetched
    PROVE  EditInv'
<1>1. Polled' = Polled /\ Here' = Here
    BY DEF EditInv, PollTyped, Unfetched, Polled, Here
<1>2. poll'.pc = pc /\ poll'.todo = T /\ poll'.plain = S /\ poll'.cur = poll.cur
      /\ DOMAIN poll' = {"pc", "cur", "plain", "todo"}
    BY DEF EditInv, PollTyped
<1>3. PollTyped'
    BY <1>1, <1>2 DEF EditInv, PollTyped, Unfetched, Kept
<1>4. Handled' = S \cup T
    BY <1>1, <1>2 DEF Handled, Kept
<1>5. HandInv'
    BY <1>1, <1>2, <1>4, StillMade DEF HandInv, Sound, Unfetched
<1>6. RowInv'
    BY StillMade DEF EditInv, RowInv, Unfetched
<1>7. PairInv'
    BY <1>4 DEF PairInv, Sound, Unfetched, Agree, From
<1>8. DoneInv'
    BY <1>1, <1>2 DEF DoneInv, Kept
<1>9. QED
    BY <1>3, <1>5, <1>6, <1>7, <1>8 DEF EditInv

LEMMA ModelsStep == EditInv /\ CollectModels => EditInv'
<1> SUFFICES ASSUME EditInv, CollectModels PROVE EditInv'
    OBVIOUS
<1> DEFINE S == EnforceMaxItems(FilterItemsByTime(Models))
<1>1. poll.pc = "fetch" /\ Here = "hf" /\ poll.todo = {} /\ poll.plain = {}
    BY DEF CollectModels, Poll, EditInv, PollTyped
<1>2. Sound(Models)
  <2>1. \A a \in Models : \E t \in Known : ParsedHere(a, t, {})
      BY <1>1, Taken DEF Models, ParsedHere
  <2>2. QED
      BY <1>1, <2>1, ParsedOne
<1>3. S \in SUBSET Models /\ \A a \in S : a.date # 0
    BY Taken
<1>4. Sound(S) /\ S \cup {} = S
    BY <1>2, <1>3, SoundPart
<1>5. poll' = [poll EXCEPT !.pc = "readme", !.plain = S, !.todo = {}]
    BY <1>1 DEF CollectModels, EditInv, PollTyped
<1>6. UNCHANGED results /\ Unfetched
    BY DEF CollectModels
<1> HIDE DEF S
<1>7. PICK R : R = S
    OBVIOUS
<1>8. QED
    BY <1>1, <1>3, <1>4, <1>5, <1>6, <1>7, Laid

LEMMA ListSound ==
    ASSUME EditInv, poll.pc = "fetch", Here = "list", NEW S \in ListItems
    PROVE  Sound(S)
<1>1. \A a \in S : New(a, a.thing)
    BY ItemsMade DEF ListItems, EditInv, New
<1>2. \A a, b \in S : a.thing = b.thing => a = b
    BY ItemsMade DEF ListItems, EditInv, New
<1>3. QED
    BY <1>1, <1>2, SoundLatest DEF EditInv

LEMMA ListStep == EditInv /\ CollectList => EditInv'
<1> SUFFICES ASSUME EditInv, CollectList PROVE EditInv'
    OBVIOUS
<1>1. poll.pc = "fetch" /\ Here = "list"
    BY DEF CollectList, Poll
<1>2. PICK S \in ListItems : \E asked \in SUBSET {a \in S : a.date = 0} :
        poll' = [poll EXCEPT !.pc = "pages", !.plain = asked, !.todo = S \ asked]
    BY DEF CollectList
<1>3. PICK asked \in SUBSET S : /\ \A a \in asked : a.date = 0
                                /\ poll' = [poll EXCEPT !.pc = "pages", !.plain = asked, !.todo = S \ asked]
    BY <1>2
<1>4. asked \cup (S \ asked) = S /\ asked \cap (S \ asked) = {}
    OBVIOUS
<1>5. PICK T : T = S \ asked
    OBVIOUS
<1>6. Sound(asked \cup T) /\ asked \cap T = {}
    BY <1>1, <1>4, <1>5, ListSound
<1>7. UNCHANGED results /\ Unfetched
    BY DEF CollectList
<1>8. QED
    BY <1>1, <1>3, <1>5, <1>6, <1>7, Laid

(* One of them is: its hash stays what it was.                                *)
LEMMA Completed ==
    ASSUME EditInv, poll.pc \in {"readme", "pages"}, NEW a \in poll.plain, NEW b,
           Made(b), b.source = a.source, b.thing = a.thing, b.hash = a.hash, Agree(a, b),
           poll.pc = "readme" => b.date = a.date,
           poll' = [poll EXCEPT !.plain = @ \ {a}, !.todo = @ \cup {b}], UNCHANGED results, Unfetched
    PROVE  EditInv'
<1> DEFINE S == poll.plain \ {a}
           T == poll.todo \cup {b}
<1>1. Handled = poll.plain \cup poll.todo /\ poll.plain \cap poll.todo = {}
    BY DEF Handled, Kept, EditInv, HandInv
<1>2. Sound(S \cup T)
  <2>1. \A c \in S \cup T : Made(c) /\ c.source = Polled
      BY <1>1 DEF EditInv, HandInv
  <2>2. \A c, d \in S \cup T : c.thing = d.thing => c = d
    <3>1. \A c \in S \cup poll.todo : c \in Handled /\ c # a
        BY <1>1
    <3>2. \A c \in S \cup poll.todo : c.thing # b.thing
        BY <1>1, <3>1 DEF EditInv, HandInv
    <3>3. QED
        BY <1>1, <3>1, <3>2 DEF EditInv, HandInv
  <2>3. \A u \in DOMAIN rows : rows[u].hash = b.hash => Agree(b, rows[u])
      BY <1>1 DEF EditInv, PairInv, Agree, From
  <2>4. \A c \in S \cup T : \A u \in DOMAIN rows : rows[u].hash = c.hash => Agree(c, rows[u])
      BY <1>1, <2>3 DEF EditInv, PairInv
  <2>5. QED
      BY <2>1, <2>2, <2>4 DEF Sound
<1>3. S \cap T = {}
    BY <1>1 DEF EditInv, HandInv
<1>4. /\ poll.pc # "pages" => \A c \in S \cup T : c.date # 0
      /\ poll.pc = "pages" => \A c \in S : c.date = 0
    BY <1>1 DEF EditInv, HandInv
<1>5. poll' = [poll EXCEPT !.pc = poll.pc, !.plain = S, !.todo = T]
    BY DEF EditInv, PollTyped
<1> HIDE DEF S, T
<1>6. PICK P, Q, pc : P = S /\ Q = T /\ pc = poll.pc
    OBVIOUS
<1>7. pc = "readme" => Here = "hf"
    BY <1>6 DEF EditInv, PollTyped
<1>8. pc = "pages" => Here = "list"
    BY <1>6 DEF EditInv, PollTyped
<1>9. QED
    BY <1>2, <1>3, <1>4, <1>5, <1>6, <1>7, <1>8, Laid

LEMMA ReadmeStep ==
    ASSUME EditInv, NEW a \in poll.plain, NEW readme, ReadReadme(a, readme)
    PROVE  EditInv'
<1> DEFINE shows == IF readme = 0 THEN a.raw.shows
                    ELSE [f \in DOMAIN a.raw.shows \cup {"readme"} |-> IF f = "readme" THEN readme ELSE a.raw.shows[f]]
           b == [a EXCEPT !.raw.shows = shows]
<1>1. Made(a) /\ From(a) = "hf" /\ poll.pc = "readme"
    BY DEF ReadReadme, EditInv, HandInv, PollTyped, Handled, From, Here
<1>2. /\ \A f \in DOMAIN a.raw.shows : f # "readme" => f \in DOMAIN shows /\ shows[f] = a.raw.shows[f]
      /\ \A f \in DOMAIN shows : f # "readme" => f \in DOMAIN a.raw.shows
    OBVIOUS
<1>3. "readme" \notin HashedBy[From(a)] /\ "readme" \notin Noticed[From(a)] /\ "readme" \notin Followed
    BY <1>1 DEF HashedBy, Noticed, Followed
<1> HIDE DEF shows
<1>4. /\ DOMAIN b = ItemFields /\ DOMAIN b.raw = {"platform", "arxiv", "shows"} /\ b.raw.shows = shows
      /\ b.source = a.source /\ b.thing = a.thing /\ b.hash = a.hash /\ b.date = a.date /\ b.url = a.url
      /\ b.title = a.title /\ b.raw.arxiv = a.raw.arxiv
    BY <1>1 DEF Made, ItemFields
<1>5. PICK c : c = b
    OBVIOUS
<1>6. poll' = [poll EXCEPT !.plain = @ \ {a}, !.todo = @ \cup {c}] /\ UNCHANGED results /\ Unfetched
    BY <1>5 DEF ReadReadme, shows
<1> HIDE DEF b
<1>7. Made(c) /\ Agree(a, c)
  <2>1. From(c) = From(a)
      BY <1>4, <1>5 DEF From
  <2>2. Agree(a, c)
      BY <1>1, <1>2, <1>3, <1>4, <1>5 DEF Agree, Made
  <2>3. DateOf(c) = DateOf(a)
      BY <1>4, <1>5, <2>1 DEF DateOf
  <2>4. Made(c)
      BY <1>1, <1>2, <1>3, <1>4, <1>5, <2>1, <2>3 DEF Made
  <2>5. QED
      BY <2>2, <2>4
<1>8. QED
    BY <1>1, <1>4, <1>5, <1>6, <1>7, Completed

LEMMA PageStep ==
    ASSUME EditInv, NEW a \in poll.plain, NEW date, RecoverDate(a, date)
    PROVE  EditInv'
<1> DEFINE shows == [f \in DOMAIN a.raw.shows \cup {"recovered"} |-> IF f = "recovered" THEN TRUE ELSE a.raw.shows[f]]
           b == [a EXCEPT !.date = date, !.raw.shows = shows]
<1>0. Made(a) /\ From(a) = "list" /\ poll.pc = "pages"
    BY DEF RecoverDate, EditInv, HandInv, PollTyped, Handled, From, Here
<1>1. a.hash[3]["date"] = 0
    BY <1>0 DEF Made, DateOf, EditInv, HandInv
<1>2. /\ \A f \in DOMAIN a.raw.shows : f # "recovered" => f \in DOMAIN shows /\ shows[f] = a.raw.shows[f]
      /\ \A f \in DOMAIN shows : f # "recovered" => f \in DOMAIN a.raw.shows
      /\ "recovered" \in DOMAIN shows
    OBVIOUS
<1>3. "recovered" \notin HashedBy[From(a)] /\ "recovered" \notin Noticed[From(a)] /\ "updated" \notin HashedBy[From(a)]
    BY <1>0 DEF HashedBy, Noticed
<1>4. /\ DOMAIN b = ItemFields /\ DOMAIN b.raw = {"platform", "arxiv", "shows"} /\ b.raw.shows = shows
      /\ b.source = a.source /\ b.thing = a.thing /\ b.hash = a.hash /\ b.url = a.url
      /\ b.title = a.title /\ b.raw.arxiv = a.raw.arxiv
    BY <1>0 DEF Made, ItemFields
<1>5. PICK c : c = IF date = 0 THEN a ELSE b
    OBVIOUS
<1>6. poll' = [poll EXCEPT !.plain = @ \ {a}, !.todo = @ \cup {c}] /\ UNCHANGED results /\ Unfetched
    BY <1>5 DEF RecoverDate
<1> HIDE DEF b
<1>7. c.source = a.source /\ c.thing = a.thing /\ c.hash = a.hash
    BY <1>4, <1>5
<1>8. Made(c) /\ Agree(a, c)
  <2>1. CASE date = 0
      BY <1>0, <1>5, <2>1 DEF Agree
  <2>2. CASE date # 0
    <3>1. From(c) = From(a) /\ c = b
        BY <1>4, <1>5, <2>2 DEF From
    <3>2. Agree(a, c)
      <4>1. Noticed[From(a)] \subseteq DOMAIN a.raw.shows /\ c.raw.shows = shows
          BY <1>0, <1>4, <3>1 DEF Made
      <4> HIDE DEF shows
      <4>2. \A f \in Noticed[From(a)] : shows[f] = a.raw.shows[f]
          BY <1>2, <1>3, <4>1
      <4>3. QED
          BY <4>1, <4>2 DEF Agree
    <3> HIDE DEF shows
    <3>3. \A f \in HashedBy[From(a)] \cap DOMAIN shows : shows[f] = a.hash[3][f]
        BY <1>0, <1>2, <1>3 DEF Made
    <3>4. Noticed[From(a)] \subseteq DOMAIN shows
        BY <1>0, <1>2, <1>3 DEF Made
    <3>5. Made(c)
        BY <1>0, <1>1, <1>2, <1>3, <1>4, <3>1, <3>3, <3>4 DEF Made
    <3>6. QED
        BY <3>2, <3>5
  <2>3. QED
      BY <2>1, <2>2
<1>9. QED
    BY <1>0, <1>6, <1>7, <1>8, Completed

LEMMA AllEnriched == EditInv /\ EnrichedAll => EditInv'
<1> SUFFICES ASSUME EditInv, EnrichedAll PROVE EditInv'
    OBVIOUS
<1>1. PICK S : S = poll.todo
    OBVIOUS
<1>2. S \subseteq Handled /\ poll.pc = "readme" /\ poll.plain = {}
    BY <1>1 DEF Handled, EnrichedAll
<1>3. Sound(S) /\ \A a \in S : a.date # 0
    BY <1>2 DEF EditInv, HandInv, PairInv, Sound
<1>4. Give(S) /\ Unfetched
    BY <1>1 DEF EnrichedAll
<1>5. QED
    BY <1>2, <1>3, <1>4, Given

LEMMA AllDated == EditInv /\ DatedAll => EditInv'
<1> SUFFICES ASSUME EditInv, DatedAll PROVE EditInv'
    OBVIOUS
<1>1. PICK S : S = EnforceMaxItems(FilterItemsByTime(poll.todo))
    OBVIOUS
<1>2. S \subseteq Handled /\ poll.pc = "pages" /\ poll.plain = {} /\ \A a \in S : a.date # 0
    BY <1>1, Taken DEF Handled, DatedAll
<1>3. Sound(S)
    BY <1>2 DEF EditInv, HandInv, PairInv, Sound
<1>4. Give(S) /\ Unfetched
    BY <1>1 DEF DatedAll
<1>5. QED
    BY <1>2, <1>3, <1>4, Given

(* A refusal, or a body nobody could read.                                    *)
LEMMA NothingGiven ==
    ASSUME EditInv, poll.pc = "fetch", NEW r, DOMAIN r = ResultFields, r.items = {}, Result(r),
           poll' = [poll EXCEPT !.pc = "polled"], Unfetched
    PROVE  EditInv'
<1>1. /\ Polled' = Polled /\ Here' = Here /\ Polled \in DOMAIN results' /\ results'[Polled] = r
      /\ \A s \in DOMAIN results' : DOMAIN results'[s] = ResultFields
    BY DEF EditInv, PollTyped, Result, Unfetched, Polled, Here
<1>2. poll'.pc = "polled" /\ poll'.todo = {} /\ poll'.plain = {} /\ poll'.cur = poll.cur
      /\ DOMAIN poll' = {"pc", "cur", "plain", "todo"}
    BY DEF EditInv, PollTyped
<1>3. PollTyped'
    BY <1>1, <1>2 DEF EditInv, PollTyped, Unfetched, Kept
<1>4. Handled' = {} /\ results'[Polled].items = {}
    BY <1>1, <1>2 DEF Handled, Kept
<1>5. HandInv' /\ PairInv' /\ DoneInv'
    BY <1>1, <1>2, <1>4 DEF HandInv, PairInv, DoneInv
<1>6. RowInv'
    BY StillMade DEF EditInv, RowInv, Unfetched
<1>7. QED
    BY <1>3, <1>5, <1>6 DEF EditInv

Refused ==
    ReleasesFail \/ ModelsFail \/ NotesFail \/ FeedFails \/ QueryFails \/ DailyPapersFail \/ PwcPapersFail
    \/ PostsFail \/ ListFails \/ BodyUnread
LEMMA RefusedStep == EditInv /\ Refused => EditInv'
<1> SUFFICES ASSUME EditInv, Refused PROVE EditInv'
    OBVIOUS
<1>1. poll.pc = "fetch" /\ poll' = [poll EXCEPT !.pc = "polled"] /\ Unfetched
    BY DEF Refused, ReleasesFail, ModelsFail, NotesFail, FeedFails, QueryFails, DailyPapersFail, PwcPapersFail,
           PostsFail, ListFails, Fail, BodyUnread, Poll
<1>2. PICK r : DOMAIN r = ResultFields /\ r.items = {} /\ Result(r)
  <2>1. CASE BodyUnread
    <3> DEFINE r == [NoResult EXCEPT !.read = FALSE]
    <3>1. DOMAIN r = ResultFields /\ r.items = {} /\ Result(r)
        BY <2>1 DEF BodyUnread, NoResult, ResultFields
    <3>2. QED
        BY <3>1
  <2>2. CASE \E reasons : Fail(reasons)
    <3>1. PICK reason : Result([NoResult EXCEPT !.error = reason, !.state = "SOURCE_FAILED"])
        BY <2>2 DEF Fail
    <3> DEFINE r == [NoResult EXCEPT !.error = reason, !.state = "SOURCE_FAILED"]
    <3>2. DOMAIN r = ResultFields /\ r.items = {} /\ Result(r)
        BY <3>1 DEF NoResult, ResultFields
    <3>3. QED
        BY <3>2
  <2>3. QED
      BY <2>1, <2>2 DEF Refused, ReleasesFail, ModelsFail, NotesFail, FeedFails, QueryFails, DailyPapersFail,
                        PwcPapersFail, PostsFail, ListFails
<1>3. QED
    BY <1>1, <1>2, NothingGiven

(* Between two sources nothing is in hand.                                    *)
LEMMA Moved ==
    ASSUME EditInv, poll'.pc \in {"down", "fetch"}, poll'.plain = {}, poll'.todo = {},
           DOMAIN poll' = {"pc", "cur", "plain", "todo"}, poll'.pc # "down" => poll'.cur \in DOMAIN sources,
           UNCHANGED results \/ results' = <<>>, Unfetched
    PROVE  EditInv'
<1>1. \A s \in DOMAIN results' : DOMAIN results'[s] = ResultFields
    BY DEF EditInv, PollTyped
<1>2. PollTyped'
    BY <1>1 DEF EditInv, PollTyped, Unfetched, Kept
<1>3. Handled' = {}
    BY DEF Handled, Kept
<1>4. HandInv' /\ PairInv' /\ DoneInv'
    BY <1>3 DEF HandInv, PairInv, DoneInv, Kept
<1>5. RowInv'
    BY StillMade DEF EditInv, RowInv, Unfetched
<1>6. QED
    BY <1>2, <1>4, <1>5 DEF EditInv

LEMMA MovedStep == EditInv /\ (StartPolls \/ NextPoll) => EditInv'
<1>1. ASSUME EditInv, StartPolls PROVE EditInv'
  <2>1. 1 \in DOMAIN sources
      BY <1>1, PlatformsAssumption DEF EditInv, PollTyped
  <2>2. QED
      BY <1>1, <2>1, Moved DEF StartPolls, NotPolling
<1>2. ASSUME EditInv, NextPoll PROVE EditInv'
  <2>1. sources \in Seq(DOMAIN Platform) /\ poll.cur \in DOMAIN sources
      BY <1>2, PlatformsAssumption DEF EditInv, PollTyped, NextPoll
  <2>2. poll.cur < Len(sources) => poll.cur + 1 \in DOMAIN sources
      BY <2>1
  <2>3. QED
      BY <1>2, <2>2, Moved DEF NextPoll, NotPolling
<1>3. QED
    BY <1>1, <1>2

LEMMA UpsertedStep == EditInv /\ Upserted => EditInv'
<1> SUFFICES ASSUME EditInv, Upserted PROVE EditInv'
    OBVIOUS
<1>1. /\ Polled' = Polled /\ Here' = Here /\ results' = results
      /\ poll'.pc = "polled" /\ poll'.todo = {} /\ poll'.plain = {} /\ poll'.cur = poll.cur
      /\ poll.pc = "upsert" /\ poll.todo = {}
      /\ DOMAIN poll' = {"pc", "cur", "plain", "todo"}
    BY DEF EditInv, PollTyped, Upserted, Unfetched, Polled, Here
<1>2. PollTyped'
    BY <1>1 DEF EditInv, PollTyped, Upserted, Unfetched, Kept
<1>3. Handled' = Handled
    BY <1>1 DEF Handled, Kept, EditInv, PollTyped
<1>4. HandInv'
    BY <1>1, <1>3, StillMade DEF EditInv, HandInv, Upserted, Unfetched
<1>5. RowInv'
    BY StillMade DEF EditInv, RowInv, Upserted, Unfetched
<1>6. PairInv'
    BY <1>3 DEF EditInv, PairInv, Upserted, Unfetched, Agree, From
<1>7. DoneInv'
    BY <1>1 DEF EditInv, DoneInv, Upserted, Unfetched, Kept
<1>8. QED
    BY <1>2, <1>4, <1>5, <1>6, <1>7 DEF EditInv

(* The row written has the hash of no other item in hand.                     *)
LEMMA UpsertStep ==
    ASSUME EditInv, NEW a \in poll.todo, UpsertItem(a)
    PROVE  EditInv'
<1>1. /\ Polled' = Polled /\ Here' = Here
      /\ poll'.pc = "upsert" /\ poll'.todo = poll.todo \ {a} /\ poll'.plain = {} /\ poll'.cur = poll.cur
      /\ poll.pc = "upsert" /\ poll.plain = {} /\ poll.todo \subseteq results[Polled].items
      /\ DOMAIN poll' = {"pc", "cur", "plain", "todo"} /\ Polled \in DOMAIN results
    BY DEF EditInv, PollTyped, UpsertItem, Polled, Here, Kept
<1>2. /\ DOMAIN results' = DOMAIN results /\ results'[Polled].items = results[Polled].items
      /\ \A s \in DOMAIN results' : DOMAIN results'[s] = ResultFields
  <2>1. PICK r : /\ DOMAIN r = ResultFields /\ r.items = results[Polled].items
                 /\ results' = [s \in DOMAIN results \cup {Polled} |-> IF s = Polled THEN r ELSE results[s]]
    <3> DEFINE old == results[Polled]
               r == [old EXCEPT !.new = IF Event(a) = "new" THEN @ + 1 ELSE @,
                               !.updated = IF Event(a) = "updated" THEN @ + 1 ELSE @,
                               !.wrote = @ \/ rows' # rows]
    <3>1. results' = [s \in DOMAIN results \cup {Polled} |-> IF s = Polled THEN r ELSE results[s]]
        BY DEF UpsertItem, Result
    <3>2. DOMAIN old = ResultFields
        BY <1>1 DEF EditInv, PollTyped
    <3> HIDE DEF old
    <3>3. DOMAIN r = ResultFields /\ r.items = old.items
        BY <3>2 DEF ResultFields
    <3>4. QED
        BY <3>1, <3>3 DEF old
  <2>2. QED
      BY <1>1, <2>1 DEF EditInv, PollTyped
<1>3. PollTyped'
  <2>1. Polled' \in DOMAIN results' /\ poll'.todo \subseteq results'[Polled'].items
      BY <1>1, <1>2
  <2>2. UNCHANGED <<moment, sources, thing>> /\ poll'.cur \in DOMAIN sources
      BY <1>1 DEF EditInv, PollTyped, UpsertItem
  <2>3. QED
      BY <1>1, <1>2, <2>1, <2>2 DEF EditInv, PollTyped
<1>4. Handled = results[Polled].items /\ Handled' = Handled /\ a \in Handled
    BY <1>1, <1>2 DEF Handled, Kept, EditInv, PollTyped
<1>5. UNCHANGED <<sources, thing>>
    BY DEF UpsertItem
<1>6. HandInv'
    BY <1>1, <1>4, <1>5, StillMade DEF EditInv, HandInv
<1>7. /\ a.url \in DOMAIN rows' /\ rows'[a.url].hash = a.hash
      /\ rows'[a.url] = a \/ (a.url \in DOMAIN rows /\ rows'[a.url] = rows[a.url])
      /\ DOMAIN rows \subseteq DOMAIN rows' /\ DOMAIN rows' \subseteq DOMAIN rows \cup {a.url}
      /\ \A u \in DOMAIN rows : u # a.url => rows'[u] = rows[u]
  <2>1. CASE Event(a) = "unchanged"
      BY <2>1 DEF UpsertItem, Event
  <2>2. CASE Event(a) # "unchanged"
    <3>1. rows' = [u \in DOMAIN rows \cup {a.url} |-> IF u = a.url THEN a ELSE rows[u]]
        BY <2>2 DEF UpsertItem
    <3>2. QED
        BY <3>1
  <2>3. QED
      BY <2>1, <2>2
<1>8. RowInv'
  <2>1. \A u \in DOMAIN rows' : Made(rows'[u]) /\ rows'[u].url = u
      BY <1>4, <1>7 DEF EditInv, RowInv, HandInv
  <2>2. QED
      BY <1>5, <2>1, StillMade DEF RowInv
<1>9. \A b \in Handled : b.hash = a.hash => b = a
    BY <1>4 DEF EditInv, HandInv, Made
<1>10. \A b \in Handled : \A u \in DOMAIN rows' : rows'[u].hash = b.hash => Agree(b, rows'[u])
    BY <1>7, <1>9 DEF EditInv, PairInv, Agree
<1>11. PairInv'
    BY <1>4, <1>10 DEF PairInv, Agree, From
<1>12. DoneInv'
  <2>1. \A b \in Handled : b.url = a.url => b = a
      BY <1>4 DEF EditInv, HandInv, Made
  <2>2. QED
      BY <1>1, <1>2, <1>4, <1>7, <2>1 DEF EditInv, DoneInv, Kept
<1>13. QED
    BY <1>3, <1>6, <1>8, <1>11, <1>12 DEF EditInv

(* An edit that moves the time of the last one makes every item of the thing  *)
(* out of date; one that does not touches nothing an item is described by.    *)
LEMMA EditedSince ==
    ASSUME PollTyped, NEW t \in Known, NEW field \in Edited[KindOfThings], KindOfThings \in DOMAIN Edited,
           Edit(t, field), NEW a, Made(a)
    PROVE  Made(a)'
<1>1. field # "published" /\ field # "updated" /\ field \in FieldNames
    BY DEF Edited, FieldNames
<1>2. t \in Things /\ thing[t] \in [FieldNames -> 0..moment] /\ moment \in Nat /\ moment' = moment + 1
      /\ sources' = sources
    BY DEF PollTyped, Known, Edit
<1> DEFINE moved == {field} \cup (IF field \in Dating[KindOfThings] THEN {"updated"} ELSE {})
<1>3. thing' = [thing EXCEPT ![t] = [f \in FieldNames |-> IF f \in moved THEN moment + 1 ELSE thing[t][f]]]
    BY <1>2 DEF Edit
<1>4. /\ thing'[t]["published"] = thing[t]["published"]
      /\ \A f \in FieldNames : f # "updated" /\ f # field => thing'[t][f] = thing[t][f]
      /\ thing'[t]["updated"] = IF field \in Dating[KindOfThings] THEN moment + 1 ELSE thing[t]["updated"]
      /\ \A s \in Things : s # t => thing'[s] = thing[s]
      /\ DOMAIN thing' = Things
    BY <1>1, <1>2, <1>3 DEF PollTyped, FieldNames
<1>5. Known' = Known /\ KindOfThings' = KindOfThings /\ Followed' = Followed
    BY <1>2, <1>4 DEF Known, KindOfThings, Followed, FieldNames, PollTyped
<1>6. From(a)' = From(a) /\ a.thing \in Things
    BY DEF From, Made, Known
<1>7. thing'[a.thing]["published"] = thing[a.thing]["published"]
    BY <1>4, <1>6
<1>8. DateOf(a)' = DateOf(a)
    BY <1>6, <1>7 DEF DateOf
<1>9. "updated" \in HashedBy[From(a)] =>
         /\ a.hash[3]["updated"] <= thing'[a.thing]["updated"]
         /\ a.hash[3]["updated"] = thing'[a.thing]["updated"] =>
              \A f \in Followed \cap DOMAIN a.raw.shows : a.raw.shows[f] = thing'[a.thing][f]
  <2> SUFFICES ASSUME "updated" \in HashedBy[From(a)]
               PROVE  /\ a.hash[3]["updated"] <= thing'[a.thing]["updated"]
                      /\ a.hash[3]["updated"] = thing'[a.thing]["updated"] =>
                           \A f \in Followed \cap DOMAIN a.raw.shows : a.raw.shows[f] = thing'[a.thing][f]
      OBVIOUS
  <2>1. a.hash[3]["updated"] \in Nat /\ a.hash[3]["updated"] <= thing[a.thing]["updated"]
      BY DEF Made
  <2>2. thing[t]["updated"] \in 0..moment
      BY <1>2 DEF FieldNames
  <2>3. CASE a.thing # t
      BY <1>4, <1>6, <2>1, <2>3 DEF Made
  <2>4. CASE a.thing = t /\ field \in Dating[KindOfThings]
      BY <1>2, <1>4, <2>1, <2>2, <2>4
  <2>5. CASE a.thing = t /\ field \notin Dating[KindOfThings]
    <3>1. Followed \subseteq FieldNames \ {"updated"} /\ field \notin Followed
        BY <2>5 DEF Followed, Dating, Edited, FieldNames
    <3>2. QED
        BY <1>4, <2>1, <2>5, <3>1 DEF Made
  <2>6. QED
      BY <2>3, <2>4, <2>5
<1>10. QED
    BY <1>5, <1>6, <1>7, <1>8, <1>9 DEF Made

LEMMA PublishedSince ==
    ASSUME PollTyped, NEW t \in Things, PublishThing(t), NEW a, Made(a)
    PROVE  Made(a)'
<1>1. a.thing # t /\ a.thing \in Things /\ thing'[a.thing] = thing[a.thing]
    BY DEF Made, Known, PublishThing, PollTyped
<1>2. a.thing \in Known' /\ From(a)' = From(a) /\ KindOfThings' = KindOfThings /\ Followed' = Followed
    BY <1>1 DEF Known, From, KindOfThings, Followed, PublishThing, Made
<1>3. DateOf(a)' = DateOf(a)
    BY <1>1, <1>2 DEF DateOf
<1>4. QED
    BY <1>1, <1>2, <1>3 DEF Made

Served == \E t \in Things : PublishThing(t) \/ \E field \in Edited[KindOfThings] : Edit(t, field)
LEMMA ServedStep == EditInv /\ Served => EditInv'
<1> SUFFICES ASSUME EditInv, Served PROVE EditInv'
    OBVIOUS
<1>1. UNCHANGED <<sources, rows, poll, results>> /\ moment' = moment + 1 /\ moment \in Nat /\ PollTyped
    BY DEF Served, PublishThing, Edit, EditInv, PollTyped
<1>2. KindOfThings \in DOMAIN Edited
    BY PlatformsAssumption DEF KindOfThings, Kinds, Edited, EditInv, PollTyped
<1>3. \A a : Made(a) => Made(a)'
  <2>1. ASSUME NEW t \in Things, PublishThing(t), NEW a, Made(a) PROVE Made(a)'
      BY <1>1, <2>1, PublishedSince
  <2>2. ASSUME NEW t \in Things, NEW field \in Edited[KindOfThings], Edit(t, field), NEW a, Made(a) PROVE Made(a)'
      BY <1>1, <1>2, <2>2, EditedSince DEF Edit, Known
  <2>3. QED
      BY <2>1, <2>2 DEF Served
<1>4. thing' \in [Things -> [FieldNames -> 0..moment']]
  <2>1. ASSUME NEW t \in Things, PublishThing(t) PROVE thing' \in [Things -> [FieldNames -> 0..moment']]
    <3>1. PICK published \in {0, moment'} :
            thing' = [thing EXCEPT ![t] = [f \in DOMAIN @ |-> IF f = "published" THEN published ELSE moment']]
        BY <2>1 DEF PublishThing
    <3>2. 0..moment \subseteq 0..moment' /\ moment' \in 0..moment' /\ published \in 0..moment'
        BY <1>1
    <3>3. DOMAIN thing[t] = FieldNames /\ thing \in [Things -> [FieldNames -> 0..moment']]
        BY <1>1, <3>2 DEF PollTyped
    <3>4. QED
        BY <3>1, <3>2, <3>3
  <2>2. ASSUME NEW t \in Things, NEW field \in Edited[KindOfThings], Edit(t, field)
        PROVE  thing' \in [Things -> [FieldNames -> 0..moment']]
    <3> DEFINE moved == {field} \cup (IF field \in Dating[KindOfThings] THEN {"updated"} ELSE {})
    <3>1. thing' = [thing EXCEPT ![t] = [f \in DOMAIN thing[t] |-> IF f \in moved THEN moment' ELSE thing[t][f]]]
        BY <2>2 DEF Edit
    <3>2. 0..moment \subseteq 0..moment' /\ moment' \in 0..moment'
        BY <1>1
    <3>3. thing \in [Things -> [FieldNames -> 0..moment']]
        BY <1>1, <3>2 DEF PollTyped
    <3>4. QED
        BY <3>1, <3>2, <3>3
  <2>3. QED
      BY <2>1, <2>2 DEF Served
<1>5. PollTyped' /\ Handled' = Handled
    BY <1>1, <1>4 DEF PollTyped, Handled, Kept, Polled, Here
<1>6. HandInv'
    BY <1>1, <1>3, <1>5 DEF EditInv, HandInv, Polled
<1>7. RowInv'
    BY <1>1, <1>3 DEF EditInv, RowInv
<1>8. PairInv' /\ DoneInv'
    BY <1>1, <1>5 DEF EditInv, PairInv, DoneInv, Agree, From, Polled, Kept
<1>9. QED
    BY <1>5, <1>6, <1>7, <1>8 DEF EditInv

-----------------------------------------------------------------------------
LEMMA PlatformsStart == PlatformInit => EditInv
<1> SUFFICES ASSUME PlatformInit PROVE EditInv
    OBVIOUS
<1>1. PollTyped
    BY DEF PlatformInit, PollTyped, NotPolling, FieldNames, Kept
<1>2. Handled = {} /\ DOMAIN rows = {} /\ poll.pc = "down" /\ poll.plain = {}
    BY DEF PlatformInit, Handled, NotPolling, NoRows, Kept
<1>3. QED
    BY <1>1, <1>2 DEF EditInv, HandInv, RowInv, PairInv, DoneInv, Kept

LEMMA EditSteps == EditInv /\ [PlatformNext]_platformVars => EditInv'
<1> SUFFICES ASSUME EditInv, [PlatformNext]_platformVars PROVE EditInv'
    OBVIOUS
<1>1. CASE UNCHANGED platformVars
  <2>1. UNCHANGED <<PollTyped, Handled, HandInv, RowInv, PairInv, DoneInv>>
      BY <1>1 DEF platformVars, PollTyped, Handled, HandInv, RowInv, PairInv, DoneInv, Kept, Polled, Here, Made, Agree,
                  From, DateOf, Known, Followed, KindOfThings
  <2>2. QED
      BY <2>1 DEF EditInv
<1>2. CASE Served
    BY <1>2, ServedStep
<1>3. CASE StartPolls \/ NextPoll
    BY <1>3, MovedStep
<1>4. CASE Collect
    BY <1>4, CollectStep
<1>5. CASE Refused
    BY <1>5, RefusedStep
<1>6. CASE CollectModels
    BY <1>6, ModelsStep
<1>7. CASE CollectList
    BY <1>7, ListStep
<1>8. CASE \E item \in poll.plain : \E readme \in FetchReadmeSummary(item.thing) : ReadReadme(item, readme)
    BY <1>8, ReadmeStep
<1>9. CASE \E item \in poll.plain : \E date \in FetchAndExtractDate(item.thing) : RecoverDate(item, date)
    BY <1>9, PageStep
<1>10. CASE EnrichedAll
    BY <1>10, AllEnriched
<1>11. CASE DatedAll
    BY <1>11, AllDated
<1>12. CASE Upserted
    BY <1>12, UpsertedStep
<1>13. CASE \E item \in poll.todo : UpsertItem(item)
    BY <1>13, UpsertStep
<1>14. QED
    BY <1>1, <1>2, <1>3, <1>4, <1>5, <1>6, <1>7, <1>8, <1>9, <1>10, <1>11, <1>12, <1>13
       DEF PlatformNext, Served, Collect, Refused

LEMMA EditHolds == PlatformSpec => []EditInv
BY PlatformsStart, EditSteps, PTL DEF PlatformSpec

(* EditStored: UNCHANGED (store.py:435) hides no edit of what a collector     *)
(* notices, whichever source wrote the row and however many runs ago.         *)
THEOREM EditsStored == PlatformSpec => []EditStored
<1>1. EditInv => EditStored
  <2> SUFFICES ASSUME EditInv, poll.pc = "polled", NEW item \in results[Polled].items
               PROVE  LET held == rows[item.url] IN
                        /\ held.title[1] = item.title[1]
                        /\ held.date = item.date \/ "recovered" \in DOMAIN item.raw.shows
                        /\ \A f \in Noticed[Here] : held.raw.shows[f] = item.raw.shows[f]
      BY DEF EditStored
  <2>1. item \in Handled /\ Kept(poll.pc) /\ poll.todo = {}
      BY DEF Handled, Kept, EditInv, PollTyped
  <2>2. Made(item) /\ item.date # 0 /\ From(item) = Here
      BY <2>1 DEF EditInv, HandInv, From, Here
  <2>3. item.url \in DOMAIN rows /\ rows[item.url].hash = item.hash /\ Made(rows[item.url])
      BY <2>1 DEF EditInv, DoneInv, RowInv
  <2>4. Agree(item, rows[item.url])
      BY <2>1, <2>3 DEF EditInv, PairInv
  <2>5. rows[item.url].title[1] = item.title[1]
      BY <2>2, <2>3 DEF Made
  <2>6. rows[item.url].date = item.date \/ "recovered" \in DOMAIN item.raw.shows
      BY <2>2, <2>3, SameHashSameDate
  <2>7. QED
      BY <2>2, <2>4, <2>5, <2>6 DEF Agree
<1>2. QED
    BY <1>1, EditHolds, PTL

(* OneStory: the rows that name a paper have one stable id, and those of two  *)
(* papers have two (story_id.py:129), whichever sources wrote them, and       *)
(* whatever ids Papers With Code gives or leaves out from one poll to the     *)
(* next.                                                                      *)
THEOREM OneStoryOfRows == PlatformSpec => []OneStory
<1>1. EditInv => OneStory
  <2> SUFFICES ASSUME EditInv, KindOfThings = "paper", NEW u \in DOMAIN rows, NEW v \in DOMAIN rows,
                      NamesPaper(rows[u]), NamesPaper(rows[v])
               PROVE  (StableId(rows[u]) = StableId(rows[v])) <=> (rows[u].thing = rows[v].thing)
      BY DEF OneStory
  <2>1. \A w \in DOMAIN rows : /\ rows[w].raw.arxiv \in {rows[w].thing, None}
                               /\ rows[w].url[1] \in {"arxiv.org", "paperswithcode.com"}
      BY DEF EditInv, RowInv, Made
  <2>2. ASSUME NEW w \in DOMAIN rows, NamesPaper(rows[w])
        PROVE  StableId(rows[w]) = IF rows[w].thing # None THEN <<1, rows[w].thing, 0, 0>> ELSE NoId
    <3>1. IdsOfUrl(rows[w]) = [arxiv |-> IF rows[w].url[1] = "arxiv.org" THEN rows[w].thing ELSE None,
                               github |-> None, hf |-> None, ms |-> None]
        BY <2>1 DEF IdsOfUrl
    <3>2. QED
        BY <2>1, <2>2, <3>1 DEF StableId, ExtractStableId, NamesPaper
  <2>3. QED
      BY <2>2 DEF NoId
<1>2. QED
    BY <1>1, EditHolds, PTL

-----------------------------------------------------------------------------
(* What is told of the sources                                                *)

LEMMA HereKept ==
    ASSUME PollTyped, poll.pc # "down", UNCHANGED sources, poll'.cur = poll.cur
    PROVE  Polled' = Polled
BY DEF Polled

LEMMA ResultTold ==
    ASSUME EditInv, ToldInv, poll.pc # "down", NEW r, Told(r), Result(r), UNCHANGED sources, poll'.cur = poll.cur,
           poll'.pc = "upsert" => r.state = "SOURCE_DONE"
    PROVE  ToldInv'
<1>1. Polled' = Polled /\ Platform[Polled] \in DOMAIN Kinds
    BY HereKept, HereListed DEF EditInv, Here
<1>2. /\ results'[Polled] = r /\ DOMAIN results' = DOMAIN results \cup {Polled}
      /\ \A s \in DOMAIN results' : s # Polled => results'[s] = results[s]
    BY DEF Result
<1>3. \A s \in DOMAIN results' : Told(results'[s]) /\ Platform[s] \in DOMAIN Kinds
    BY <1>1, <1>2 DEF ToldInv
<1>4. QED
    BY <1>1, <1>2, <1>3 DEF ToldInv, Told

LEMMA NoResultTold ==
    /\ \A S : Told([NoResult EXCEPT !.items = S]) /\ [NoResult EXCEPT !.items = S].state = "SOURCE_DONE"
    /\ \A reason \in {"none", "FETCH", "PARSE", "SCHEMA"} :
         Told([NoResult EXCEPT !.error = reason, !.state = "SOURCE_FAILED"])
    /\ Told([NoResult EXCEPT !.read = FALSE])
BY DEF NoResult, Told

LEMMA GivenTold ==
    ASSUME EditInv, ToldInv, poll.pc # "down", NEW S, Give(S), UNCHANGED sources
    PROVE  ToldInv'
<1>1. PICK r : r = [NoResult EXCEPT !.items = S]
    OBVIOUS
<1>2. Told(r) /\ Result(r) /\ r.state = "SOURCE_DONE" /\ poll'.cur = poll.cur
    BY <1>1, NoResultTold DEF Give, EditInv, PollTyped
<1>3. QED
    BY <1>2, ResultTold

LEMMA UpsertTold ==
    ASSUME EditInv, ToldInv, NEW a \in poll.todo, UpsertItem(a)
    PROVE  ToldInv'
<1>1. /\ Polled' = Polled /\ poll.pc = "upsert" /\ poll'.pc = "upsert" /\ Polled \in DOMAIN results
      /\ DOMAIN results[Polled] = ResultFields
    BY DEF UpsertItem, EditInv, PollTyped, Polled, Kept
<1> DEFINE old == results[Polled]
           new == results'[Polled]
<1>2. /\ DOMAIN results' = DOMAIN results /\ \A s \in DOMAIN results : s # Polled => results'[s] = results[s]
      /\ new.items = old.items /\ new.error = old.error /\ new.state = old.state
      /\ new.new = IF Event(a) = "new" THEN old.new + 1 ELSE old.new
      /\ new.updated = IF Event(a) = "updated" THEN old.updated + 1 ELSE old.updated
      /\ new.wrote <=> (old.wrote \/ rows' # rows)
  <2>1. /\ DOMAIN results' = DOMAIN results /\ \A s \in DOMAIN results : s # Polled => results'[s] = results[s]
        /\ new = [old EXCEPT !.new = IF Event(a) = "new" THEN @ + 1 ELSE @,
                             !.updated = IF Event(a) = "updated" THEN @ + 1 ELSE @,
                             !.wrote = @ \/ rows' # rows]
      BY <1>1 DEF UpsertItem, Result
  <2> HIDE DEF old, new
  <2>2. DOMAIN old = ResultFields
      BY <1>1 DEF old
  <2>3. QED
      BY <2>1, <2>2 DEF ResultFields
<1>3. (rows' # rows) <=> Event(a) \in {"new", "updated"}
  <2>1. CASE Event(a) = "unchanged"
      BY <2>1 DEF UpsertItem
  <2>2. CASE Event(a) # "unchanged"
    <3>1. rows' = [u \in DOMAIN rows \cup {a.url} |-> IF u = a.url THEN a ELSE rows[u]]
        BY <2>2 DEF UpsertItem
    <3>2. rows'[a.url] = a /\ a.url \in DOMAIN rows'
        BY <3>1
    <3>3. rows' # rows
        BY <2>2, <3>2 DEF Event
    <3>4. QED
        BY <2>2, <3>3 DEF Event
  <2>3. QED
      BY <2>1, <2>2
<1>4. Told(old) /\ old.state = "SOURCE_DONE"
    BY <1>1 DEF ToldInv
<1>5. Told(new)
  <2>0. old.new \in Nat /\ old.updated \in Nat
      BY <1>4 DEF Told
  <2>1. CASE Event(a) = "new"
    <3>1. new.new = old.new + 1 /\ new.updated = old.updated /\ new.wrote
        BY <1>2, <1>3, <2>1
    <3>2. new.new \in Nat /\ new.new > 0
        BY <2>0, <3>1
    <3>3. QED
        BY <1>2, <1>4, <2>0, <3>1, <3>2 DEF Told
  <2>2. CASE Event(a) = "updated"
    <3>1. new.new = old.new /\ new.updated = old.updated + 1 /\ new.wrote
        BY <1>2, <1>3, <2>2
    <3>2. new.updated \in Nat /\ new.updated > 0
        BY <2>0, <3>1
    <3>3. QED
        BY <1>2, <1>4, <2>0, <3>1, <3>2 DEF Told
  <2>3. CASE Event(a) \notin {"new", "updated"}
      BY <1>2, <1>3, <1>4, <2>3 DEF Told
  <2>4. QED
      BY <2>1, <2>2, <2>3
<1>6. QED
    BY <1>1, <1>2, <1>4, <1>5 DEF ToldInv

LEMMA ToldSteps == EditInv /\ ToldInv /\ [PlatformNext]_platformVars => ToldInv'
<1> SUFFICES ASSUME EditInv, ToldInv, [PlatformNext]_platformVars PROVE ToldInv'
    OBVIOUS
<1>1. CASE UNCHANGED <<results, sources, poll>>
    BY <1>1 DEF ToldInv, Polled
<1>2. CASE Served
    BY <1>1, <1>2 DEF Served, PublishThing, Edit
<1>3. CASE StartPolls \/ NextPoll
  <2>1. poll'.pc \in {"down", "fetch"} /\ (results' = results \/ results' = <<>>)
    <3>1. CASE StartPolls
        BY <3>1 DEF StartPolls, NotPolling
    <3>2. CASE NextPoll
        BY <3>2 DEF NextPoll, NotPolling
    <3>3. QED
        BY <1>3, <3>1, <3>2
  <2>2. QED
      BY <2>1 DEF ToldInv
<1>4. CASE Collect \/ EnrichedAll \/ DatedAll
  <2>1. \E S : Give(S)
      BY <1>4 DEF Collect, CollectReleases, CollectNotes, CollectFeed, CollectQuery, CollectDailyPapers, CollectPwcPapers,
                  CollectPosts, EnrichedAll, DatedAll
  <2>2. poll.pc # "down" /\ UNCHANGED sources
      BY <1>4 DEF Collect, CollectReleases, CollectNotes, CollectFeed, CollectQuery, CollectDailyPapers, CollectPwcPapers,
                  CollectPosts, EnrichedAll, DatedAll, Poll, Unfetched
  <2>3. QED
      BY <2>1, <2>2, GivenTold
<1>5. CASE Refused
  <2>1. poll.pc = "fetch" /\ poll' = [poll EXCEPT !.pc = "polled"] /\ Unfetched
      BY <1>5 DEF Refused, ReleasesFail, ModelsFail, NotesFail, FeedFails, QueryFails, DailyPapersFail, PwcPapersFail,
                  PostsFail, ListFails, Fail, BodyUnread, Poll
  <2>2. PICK r : Told(r) /\ Result(r)
    <3>1. CASE BodyUnread
        BY <3>1, NoResultTold DEF BodyUnread
    <3>2. CASE \E reasons \in SUBSET {"none", "FETCH", "PARSE", "SCHEMA"} : Fail(reasons)
        BY <3>2, NoResultTold DEF Fail
    <3>3. \/ BodyUnread \/ Fail({"SCHEMA", "FETCH", "PARSE"}) \/ Fail({"FETCH", "PARSE"}) \/ Fail({"none"})
        BY <1>5 DEF Refused, ReleasesFail, ModelsFail, NotesFail, FeedFails, QueryFails, DailyPapersFail,
                    PwcPapersFail, PostsFail, ListFails
    <3>4. \A S \in {{"SCHEMA", "FETCH", "PARSE"}, {"FETCH", "PARSE"}, {"none"}} :
             S \in SUBSET {"none", "FETCH", "PARSE", "SCHEMA"}
        OBVIOUS
    <3>5. QED
        BY <3>1, <3>2, <3>3, <3>4
  <2>3. poll'.pc = "polled" /\ poll'.cur = poll.cur /\ UNCHANGED sources
      BY <2>1 DEF EditInv, PollTyped, Unfetched
  <2>4. QED
      BY <2>1, <2>2, <2>3, ResultTold
<1>6. CASE \/ CollectModels \/ CollectList \/ Upserted
           \/ \E item, readme : ReadReadme(item, readme)
           \/ \E item, date : RecoverDate(item, date)
  <2>1. UNCHANGED <<results, sources>> /\ poll'.pc # "upsert"
      BY <1>6 DEF CollectModels, CollectList, Upserted, ReadReadme, RecoverDate, Unfetched, EditInv, PollTyped
  <2>2. QED
      BY <2>1 DEF ToldInv
<1>7. CASE \E item \in poll.todo : UpsertItem(item)
    BY <1>7, UpsertTold
<1>8. QED
    BY <1>1, <1>2, <1>3, <1>4, <1>5, <1>6, <1>7 DEF PlatformNext, Served, Collect, Refused, platformVars

(* StatusTold: the status of a source agrees with what its poll wrote, and a  *)
(* failure is never shown as nothing new (computer.py:65).                    *)
THEOREM StatusesTold == PlatformSpec => []StatusTold
<1>1. PlatformInit => ToldInv
    BY DEF PlatformInit, ToldInv, NotPolling
<1>2. ToldInv => StatusTold
  <2> SUFFICES ASSUME ToldInv, NEW s \in DOMAIN results
               PROVE  /\ (Statuses[s].status = "HAS_UPDATE") <=> results[s].wrote
                      /\ results[s].state = "SOURCE_FAILED" => Statuses[s].status \in {"FETCH_FAILED", "PARSE_FAILED"}
      BY DEF StatusTold
  <2>1. Told(results[s]) /\ Methods[Platform[s]] # "status_only"
      BY DEF ToldInv, Kinds, Methods
  <2>2. Statuses[s].status = ClassifyStatus(results[s], Methods[Platform[s]])[1]
      BY DEF Statuses, ComputeAll, ComputeSingle
  <2>3. results[s].items = {} => Emitted(results[s]) = 0
      BY FS_EmptySet DEF Emitted
  <2>4. CASE results[s].state = "SOURCE_DONE"
    <3>1. ParseOk(results[s]) /\ FetchOk(results[s])
        BY <2>1, <2>4 DEF Told, ParseOk, FetchOk
    <3>2. QED
        BY <2>1, <2>2, <2>4, <3>1 DEF ClassifyStatus, Told
  <2>5. CASE results[s].state = "SOURCE_FAILED"
    <3>1. ~ParseOk(results[s]) /\ ~results[s].wrote
        BY <2>1, <2>3, <2>5 DEF Told, ParseOk
    <3>2. QED
        BY <2>1, <2>2, <3>1 DEF ClassifyStatus, FetchOk
  <2>6. QED
      BY <2>1, <2>4, <2>5 DEF Told
<1>3. QED
    BY <1>1, <1>2, ToldSteps, EditHolds, PTL DEF PlatformSpec
=============================================================================
