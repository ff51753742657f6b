------------------------------- MODULE Ingest -------------------------------
(***************************************************************************)
(* The collection phase: the sequential runner                             *)
(* (src/src/collectors/runner.py), the collectors it drives, one cache row *)
(* per source and the items they store, run after run, against servers     *)
(* whose pages change in between.  A fetch is one step (CachedFetch) and   *)
(* an upsert is one transaction (StateStore); a process can die anywhere.  *)
(*                                                                         *)
(* A server's list page at version v lists its newest items, numbered by   *)
(* the version that added them.  Validators are numbers: an ETag names one *)
(* version of one page, a Last-Modified is the version it dates from.      *)
(***************************************************************************)
EXTENDS HttpCache, FiniteSets, Sequences

CONSTANTS
    Order,        \* the enabled sources, in configuration order
    Kind,         \* source -> "rss", "html", "api" or "strict"
    UsesEtag,     \* sources whose pages carry an ETag
    UsesDate,     \* sources whose pages carry a Last-Modified
    Undated,      \* html sources whose list page shows no dates
    Window,       \* versions an item stays listed and inside the lookback
    MaxItems,     \* max_items of a source
    PageCap,      \* max_item_page_fetches of its domain profile
    MaxVersion,   \* bound on the number of changes of a page
    Failures      \* what can go wrong: "http", "parse", "store", "crash"

(* No validator is NoTag.                                                   *)
ASSUME IngestAssumption ==
    /\ Len(Order) \in Nat /\ NoTag \notin Nat \ {0}
    /\ {Window, MaxItems, PageCap, MaxVersion} \subseteq Nat

Sources == {Order[i] : i \in 1..Len(Order)}

VARIABLES
    version,   \* source -> version of its list page on the server
    row,       \* source -> its http_cache row
    stored,    \* source -> items of it in the items table
    state,     \* source -> SourceState in the current or last run
    run,       \* the process: where it is, and what it holds in memory
    dropped,   \* history: what was in hand of the page last accepted, and lost
    ended      \* how the last run ended

ingestVars == <<version, row, stored, state, run, dropped, ended>>

Down == [pc |-> "down", cur |-> 0, got |-> 0, hit |-> FALSE, todo |-> {}, pages |-> {}]
Current == Order[run.cur]

Largest(n, S) == {i \in S : Cardinality({j \in S : j > i}) < n}

\* Faulty variant: the sort ascending, so that the cap keeps the oldest items.
KeptOldest(S) == {i \in S : Cardinality({j \in S : j < i}) < MaxItems}

(* The items on the list page at version v; the ones a collector keeps of   *)
(* them after the time filter, the sort and enforce_max_items.              *)
Listing(v) == {n \in 1..v : n > v - Window}
Kept(S) == Largest(MaxItems, S)

ListEtag(s, v) == IF s \in UsesEtag /\ v > 0 THEN 2 * v ELSE NoTag
PageEtag(s, n) == IF s \in UsesEtag THEN 2 * n + 1 ELSE NoTag
Dated(s, v) == IF s \in UsesDate THEN v ELSE NoTag

(* If-None-Match decides when both sides have an ETag, otherwise            *)
(* If-Modified-Since: not changed since the date that was sent.             *)
NotModified(sent, etag, date) ==
    IF sent.etag # NoTag /\ etag # NoTag THEN sent.etag = etag
    ELSE sent.modified # NoTag /\ date # NoTag /\ date <= sent.modified

(* What can answer a GET of a page with these validators. *)
Answers(sent, etag, date) ==
    {[kind |-> IF NotModified(sent, etag, date) THEN "not_modified" ELSE "ok",
      etag |-> etag, modified |-> date]}
    \cup IF "http" \in Failures
         THEN {[kind |-> "server_error", etag |-> NoTag, modified |-> NoTag]} ELSE {}

IngestInit ==
    /\ version = [s \in Sources |-> 0]
    /\ row = [s \in Sources |-> NewRow]
    /\ stored = [s \in Sources |-> {}]
    /\ state = [s \in Sources |-> "PENDING"]
    /\ run = Down
    /\ dropped = [s \in Sources |-> {}]
    /\ ended = "none"

Publish(s) ==
    /\ version[s] < MaxVersion
    /\ version' = [version EXCEPT ![s] = @ + 1]
    /\ UNCHANGED <<row, stored, state, run, dropped, ended>>

-----------------------------------------------------------------------------
(* CollectorRunner.run *)

StartRun ==
    /\ run.pc = "down"
    /\ run' = [Down EXCEPT !.pc = "next", !.cur = 1]
    /\ state' = [s \in Sources |-> "PENDING"]
    /\ UNCHANGED <<version, row, stored, dropped, ended>>

StartSource ==
    /\ run.pc = "next"
    /\ run.cur <= Len(Order)
    /\ run' = [run EXCEPT !.pc = "fetch"]
    /\ state' = [state EXCEPT ![Current] = "FETCHING"]
    /\ UNCHANGED <<version, row, stored, dropped, ended>>

FinishRun ==
    /\ run.pc = "next"
    /\ run.cur > Len(Order)
    /\ run' = Down
    /\ ended' = "complete"
    /\ UNCHANGED <<version, row, stored, state, dropped>>

NextSource == run' = [Down EXCEPT !.pc = "next", !.cur = run.cur + 1]

(* The process has a page it accepted, and what it has still to store of it; *)
(* a process that stops there drops it.                                      *)
Accepted == run.pc \in {"pages", "upsert"} \/ (run.pc = "parse" /\ ~run.hit)
Hand == IF run.pc = "parse" THEN Kept(Listing(run.got)) ELSE run.todo \cup run.pages
Drop == dropped' = IF Accepted THEN [dropped EXCEPT ![Current] = Hand] ELSE dropped

(* Nothing between the sequential runner and the command line catches an    *)
(* exception that leaves a collector or an upsert: the process exits.       *)
Raise == run' = Down /\ ended' = "raised" /\ Drop

-----------------------------------------------------------------------------
(* collect(), one action per outside interaction *)

ParsingState(s) == IF Kind[s] = "html" THEN "PARSING_LIST" ELSE "PARSING"

(* A collector that wants is_success takes a 304 for a failure; the html    *)
(* collector looks at the Content-Type, which a 304 need not have, before   *)
(* it looks for the cache hit.                                              *)
Refuses(s, reply, typed) ==
    \/ IsError(reply)
    \/ Kind[s] = "strict" /\ ~IsSuccess(reply)
    \/ Kind[s] = "html" /\ CacheHit(reply) /\ ~typed

(* The fetch and its commit of the cache row, before anything is parsed. *)
FetchList(reply, typed) ==
    LET s == Current IN
    /\ run.pc = "fetch"
    /\ row' = [row EXCEPT ![s] = UpdateFromResult(@, reply)]
    /\ dropped' = [dropped EXCEPT ![s] = IF IsSuccess(reply) THEN {} ELSE @]
    /\ IF Refuses(s, reply, typed)
       THEN NextSource /\ state' = [state EXCEPT ![s] = "FAILED"]
       ELSE /\ state' = [state EXCEPT ![s] = ParsingState(s)]
            /\ run' = [run EXCEPT !.pc = "parse", !.hit = CacheHit(reply), !.got = version[s]]
    /\ UNCHANGED <<version, stored, ended>>

ListAnswers(s) ==
    Answers(Conditional(row[s]), ListEtag(s, version[s]), Dated(s, version[s]))

(* A 304 has no items: the rss and html collectors return, the api ones     *)
(* parse the empty body to an empty list with a warning.                    *)
NothingNew ==
    /\ run.pc = "parse" /\ run.hit
    /\ state' = [state EXCEPT ![Current] = "DONE"]
    /\ NextSource
    /\ UNCHANGED <<version, row, stored, dropped, ended>>

NeedsDates(s) == s \in Undated

ParseList ==
    LET s == Current IN
    /\ run.pc = "parse" /\ ~run.hit
    /\ IF NeedsDates(s) /\ Listing(run.got) # {}
       THEN /\ state' = [state EXCEPT ![s] = "PARSING_ITEM_PAGES"]
            /\ run' = [run EXCEPT !.pc = "pages", !.pages = Largest(PageCap, Listing(run.got))]
       ELSE /\ state' = [state EXCEPT ![s] = "DONE"]
            /\ run' = [run EXCEPT !.pc = "upsert", !.todo = Kept(Listing(run.got))]
    /\ UNCHANGED <<version, row, stored, dropped, ended>>

(* collect() catches what its parser raises and fails the source. *)
ParseFails ==
    /\ "parse" \in Failures
    /\ run.pc = "parse" /\ ~run.hit
    /\ Kind[Current] # "strict"
    /\ state' = [state EXCEPT ![Current] = "FAILED"]
    /\ NextSource /\ Drop
    /\ UNCHANGED <<version, row, stored, ended>>

(* The strict collectors catch three exception classes and let the others   *)
(* out, the document that is not an object for one.                         *)
ParseRaises ==
    /\ "parse" \in Failures
    /\ run.pc = "parse" /\ ~run.hit
    /\ Kind[Current] = "strict"
    /\ Raise
    /\ UNCHANGED <<version, row, stored, state>>

(* ItemPageFetcher: an item page is fetched under the source_id of the list *)
(* page, so with its cache row.  Only a 200 has a date to extract; items    *)
(* that stay undated are dropped by the time filter.                        *)
FetchPage(n, reply) ==
    LET s == Current IN
    /\ run.pc = "pages" /\ n \in run.pages
    /\ row' = [row EXCEPT ![s] = UpdateFromResult(@, reply)]
    /\ run' = [run EXCEPT !.pages = @ \ {n},
                          !.todo = IF IsSuccess(reply) THEN @ \cup {n} ELSE @]
    /\ UNCHANGED <<version, stored, state, dropped, ended>>

PageAnswers(s, n) == Answers(Conditional(row[s]), PageEtag(s, n), Dated(s, n))

PagesDone ==
    /\ run.pc = "pages" /\ run.pages = {}
    /\ run' = [run EXCEPT !.pc = "upsert", !.todo = Kept(@)]
    /\ state' = [state EXCEPT ![Current] = "DONE"]
    /\ UNCHANGED <<version, row, stored, dropped, ended>>

-----------------------------------------------------------------------------
(* The upserts of _run_single_source, one transaction each *)

Upsert(n) ==
    /\ run.pc = "upsert" /\ n \in run.todo
    /\ stored' = [stored EXCEPT ![Current] = @ \cup {n}]
    /\ run' = [run EXCEPT !.todo = @ \ {n}]
    /\ UNCHANGED <<version, row, state, dropped, ended>>

UpsertRaises ==
    /\ "store" \in Failures
    /\ run.pc = "upsert" /\ run.todo # {}
    /\ Raise
    /\ UNCHANGED <<version, row, stored, state>>

\* Faulty variant: the source is declared done before its last upsert.
SourceDoneEarly ==
    /\ run.pc = "upsert"
    /\ NextSource
    /\ UNCHANGED <<version, row, stored, state, dropped, ended>>

SourceDone ==
    /\ run.pc = "upsert" /\ run.todo = {}
    /\ NextSource
    /\ UNCHANGED <<version, row, stored, state, dropped, ended>>

Kill ==
    /\ "crash" \in Failures
    /\ run.pc # "down"
    /\ run' = Down /\ Drop
    /\ ended' = "crashed"
    /\ UNCHANGED <<version, row, stored, state>>

-----------------------------------------------------------------------------
ProcessStep ==
    \/ StartRun
    \/ StartSource
    \/ /\ run.pc = "fetch"
       /\ \E typed \in BOOLEAN : \E reply \in ListAnswers(Current) : FetchList(reply, typed)
    \/ NothingNew
    \/ ParseList
    \/ ParseFails
    \/ ParseRaises
    \/ \E n \in run.pages : \E reply \in PageAnswers(Current, n) : FetchPage(n, reply)
    \/ PagesDone
    \/ \E n \in run.todo : Upsert(n)
    \/ UpsertRaises
    \/ SourceDone
    \/ FinishRun

IngestNext == ProcessStep \/ Kill \/ \E s \in Sources : Publish(s)

(* The timer starts the next run, and a run that is not killed goes on. *)
IngestSpec == IngestInit /\ [][IngestNext]_ingestVars /\ WF_ingestVars(ProcessStep)

-----------------------------------------------------------------------------

(* The validators in a row say that what they name has been collected, but    *)
(* the row is committed first.  A 304 hides no more than what the run that    *)
(* accepted the page had in hand when it was killed, raised or could not      *)
(* parse it, whatever else was published, failed or refused before and after; *)
(* the next page that is accepted ends even that (CacheManager.update_from_   *)
(* result, runner.py:316).                                                    *)
Names(r, s, v) == IF s \in UsesEtag THEN r.etag = ListEtag(s, v) ELSE r.modified = Dated(s, v)
Unfinished(s) == dropped[s] \cup IF Accepted /\ s = Current THEN Hand ELSE {}
RowCovered ==
    \A s \in DOMAIN row \cap ((UsesEtag \cup UsesDate) \ Undated) : \A v \in 1..MaxVersion :
        Names(row[s], s, v) => Kept(Listing(v)) \subseteq stored[s] \cup Unfinished(s)

(* With servers that answer and runs that are left alone, the newest item of *)
(* a page that has stopped changing reaches the items table.                 *)
NewsArrive ==
    \A s \in Sources \ Undated :
        version[s] = MaxVersion ~> MaxVersion \in stored[s]

(* Not so, see the README.  Every item page within the cap that answers gives *)
(* its date, so its item is kept (item_fetcher.py:112 "Fetches up to K item   *)
(* pages to extract dates").                                                  *)
RecoverDates ==
    run.pc = "pages" /\ run'.pc = "upsert" => run'.todo = Kept(Largest(PageCap, Listing(run.got)))

(* Not so, see the README.  runner.py:77 promises "Failure isolation (one    *)
(* source failing doesn't stop others)": a run that ends by itself has tried *)
(* every source.                                                             *)
FailureIsolated ==
    ended = "raised" /\ run.pc = "down" => \A s \in Sources : state[s] # "PENDING"

(* Not so, see the README.  html_list.py:162 "Handle 304 Not Modified" ends  *)
(* the source in DONE: when every request is answered, no source fails.      *)
NotModifiedSucceeds == \A s \in Sources : state[s] # "FAILED"
=============================================================================
