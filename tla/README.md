# Verification of the daily paper report

TLA+ models of this repository, their TLC configurations and TLAPS proofs. Paths
are relative to the repository root; `digest.py` is `src/src/cli/digest.py`,
the renderer `src/src/renderer/`, the scripts `src/scripts/`.

    tlc -config Site.cfg Site.tla          # one run; each .cfg belongs to one module
    tlapm SiteProofs.tla                   # the proofs of one module

1. [The system](#1-the-system) – inventory
2. [The models](#2-the-models) – which module is which code
3. [The runs](#3-the-runs) – what is checked, bounds, fairness
4. [The proofs](#4-the-proofs)
5. [Where the documents and the code part](#5-where-the-documents-and-the-code-part)
6. [Not modelled, and the plan](#6-not-modelled-and-the-plan)

## 1. The system

Once a day a timer starts a job script on one host. The script takes
`pipeline.lock`, runs `main.py run` in a container, makes the output navigable,
pushes the state to one branch and the pages to another. Weekly and monthly jobs
aggregate the daily archives; operators regenerate ranges of past dates. Inside
`run`, sources are collected one after the other through a caching HTTP client
into a SQLite store, then linked, scored by an LLM, ranked, translated, rendered.

    timers / cron ──> job script (flock) ──> run ──> runner ──> collector ──> fetcher ──> server
                        │                     │        └──> store (items)        └──> store (http_cache)
                        │                     └──> linker, LLM, ranker, translation ──> renderer ──> output
                        └──> prepare-public ──> publish-state ──> publish-pages ──> site ──> browser

| Component | State | Operations | Hard part | Correct means |
|---|---|---|---|---|
| State store (`features/store/store.py`) | `runs`, `items`, `http_cache` tables; a connection per process | connect, close, begin/end run, upsert, prune, watermark queries | the SELECT of an upsert is outside its transaction; processes that skip the lock; a process that dies | timestamps ordered, content is the last one upserted, NEW once, no unsuccessful run lowers the watermark |
| HTTP fetcher and cache (`features/fetch/`) | one cache row per source; the attempt in progress | fetch: conditional headers, attempts, backoff, Retry-After, row update | two sleeps per retry; validators read once and written once | budget used exactly, permanent errors asked once, bounded waiting, one row change per fetch |
| Runner, collectors (`collectors/`) | source state machines; items | run, collect, item pages, upserts | the cache row is committed before the items; 304 answers; exceptions past `collect` | what a row's validators name is stored, but for what an interrupted run lost; new items arrive |
| `truncate_raw_json` (`collectors/base.py`) | the metadata being cut | shrinking loop | measure and progress differ | ends; fits or nothing is left to cut |
| Pipeline (`digest.py` run) | phase, run row, results | eleven phases | failures that are swallowed, raised or fatal | arXiv gate; exit status and run record agree; a run waits for nothing but its collectors |
| Run state machine (`features/store/state_machine.py`) | run state | transition | nobody calls it | the pipeline follows it anyway |
| Renderer (`renderer/`) | files of the output | archive, daily.json, placeholder, pruning | one file after another | see the site |
| Backfill (`digest.py` backfill) | archives | one date at a time, daily.json left alone | overwrites the past beside the present | the front page does not go back |
| Job and publication scripts (`scripts/`) | output, state branch, site | daily, report, range, retranslation; routes, truncation of daily.json, two pushes | death between any two steps; torn files | site navigable, saved, recovers |
| Timers and lock (`deploy/systemd/`, `cron-dispatch.sh`) | due and missed timers, the waiting jobs | fire, wait, give up, catch up | outages; a report depends on another job's archive | reports lack only what a failed run lost, and come in time |
| Reports (`reports/`) | report files, their index | period, scan, rank, write, index | a story in several archives; two writes in place | nothing of a period is missing, the best of it is chosen, the index tells what the reports say |
| arXiv queries (`collectors/arxiv/`) | pages, the limiter of the process | query a window page by page, retry, cool down | empty and refused pages, a listing that grows meanwhile | a query that is done skips nothing above the place where the server stopped; requests keep their distance |
| Platform collectors (`collectors/platform/`) | the row of a thing | poll, map, hash | which edits a hash notices; several sources, one row | the row shows what the source says; the rows that name a paper are one story |
| Rate limiter (`collectors/platform/rate_limiter.py`) | tokens | acquire, 429 | sleeps outside its lock | no burst above the bucket |
| Source status (`features/status/`) | none | classify a result of the runner | derived from lists and error records after the fact | the status agrees with the items table |
| Store migrations (`features/store/migrations.py`) | schema, recorded versions | one statement after another | deaths between two; two processes at once | who is connected finds every table |
| Full texts (`features/fulltext/`) | a text and a metadata file per paper | fetch, store, serve, prune | two writes for one fact | a text is served for its own paper |
| LLM relevance (`features/llm/`, `digest.py`) | `llm_scores.json`, threads | load, batch, retry, save | neutral, stale and cached scores meet; torn file | every story has a score; only answers are cached; nothing is paid for twice |
| Translation (`features/translation/`) | `translations_zh.json`, one dictionary for all threads | batch, split, retry, checkpoint | partial answers, a save beside other threads, deletion by a script | what was paid for is kept; the phase ends |
| Linker, ranker, quotas (`linker/`, `ranker/`) | the stories of a run | link, merge, score, select | caps that interact, ties, the order of items | nothing lost, quotas exact, no order but the ranking's |
| Configuration, evidence, observability, data model, e2e harness, front end, installers | see 6 | – | – | not modelled |

`PROJECT.json` lists each of them with its files, and under `hazards` each place
where the code could go wrong in a way a test hardly reaches, with the property
that covers it.

## 2. The models

| Module | Code | Composed with |
|---|---|---|
| `StateStore` (`MCStateStore`, `StateStoreProofs`) | `store.py`: runs, items, connections, the lock of the scripts | – |
| `HttpCache` | replies, retry policy, the cache row: operators only | extended by `CachedFetch`, `HttpFetcher`, `Ingest` |
| `CachedFetch` | what a caller may count on: one reply, one row update | abstract specification |
| `HttpFetcher` (`MCRun`, `FetchProofs`) | `client.py`: fetch with its retries | implements `CachedFetch` |
| `Ingest` (`CollectorProofs`) | runner + collectors + cache row + item upserts, run after run, against changing servers | takes a fetch to be one step (`CachedFetch`) and an upsert one step (`StateStore` under the lock) |
| `Platforms` (`FetchProofs`) | `collectors/platform/`, `rss_atom.py`, `html_list.py` and its `item_fetcher.py`, `arxiv/rss.py`, the entries of `arxiv/api.py`: what becomes of a thing that is edited | composes the collectors, the hash of an item, the upserts, `Linker` (identity) and `SourceStatus` |
| `SourceStatus` | `status/computer.py`, `error_mapper.py`: operators | extended by `Platforms` |
| `ArxivApi` (`CollectorProofs`) | `arxiv/api.py`: paging, retries, the shared limiter, backfills | – |
| `TokenBucket` (`CollectorProofs`) | `rate_limiter.py` | – |
| `Migrations` (`StateStoreProofs`) | `migrations.py` as `connect()` uses it | – |
| `FullText` | `fulltext/service.py` | extended by `Relevance` |
| `Relevance` (`CurationProofs`) | `_run_llm_phase`, `llm/processor.py`, `llm_scores.json` | runs over the files of `FullText` |
| `Translation` (`CurationProofs`) | `_run_translation_phase`, `translation/`, the deletion by `retranslate-cache.sh` | – |
| `Orders` | what `sorted`, comprehensions and dictionaries make of a list: operators only | extended by `Linker` and `Report` |
| `Linker`, `Ranker` | `linker/`, `ranker/`: functions | extended by `Selection` |
| `Selection` (`SelectionProofs`) | linking and ranking phases with their state machines, the loops of the quota filter | runs `Linker` and `Ranker` |
| `Report` (`CurationProofs`) | `build_report_from_archives`, `prepare-public.py`'s index | `Schedule` says which archives exist |
| `MCCollection` | extends `Ingest`, `ArxivApi`, `Platforms`, `TokenBucket`, `Migrations` and `StateStore` (without the lock) | see 3 |
| `MCRun` | extends `HttpFetcher` and `Pipeline` (through `MCPipeline`), and has a second `Ingest` as an instance, `News` | see 3 |
| `MCCuration` | extends `Relevance`, `Translation`, `Selection` and `Report` | see 3 |
| `RawJson` (`MCRawJson`) | `truncate_raw_json` | – |
| `RunLifecycle` | the transition table of `RunStateMachine` | abstract specification |
| `Pipeline` (`MCRun`, `MCPipeline`, `PipelineProofs`) | the run command | implements `RunLifecycle` |
| `Site` (`SiteProofs`) | renderer, backfill, scripts, state branch, published site | the write steps of a run that has passed `Pipeline` |
| `Schedule` (`MCSchedule`, `ScheduleProofs`) | timers, cron dispatcher, lock, lookback and report periods | jobs are one step long-lived holders of the lock |

How state and actions correspond:

**StateStore.** `items`, `runs` are the tables; an absent row has the hash
`NoHash` or the status `absent`. `conns[c]` is a process: what `upsert_item`
holds in its local variables between its three steps (clock, SELECT, write).
Python's `sqlite3` opens its transaction at the first INSERT or UPDATE, so the
SELECT is a step of its own: `UpsertCall`, `UpsertSelect`, then `UpsertInsert`,
`UpsertUpdate` or `UpsertFail`. `UseLock` is the flock of the job scripts; with
`UseLock = FALSE` it is any two processes an operator starts by hand. The
database's own write lock appears as the atomicity of each writing action. Two
history variables, `returned` and `newReports`, remember what callers were told.

**HttpFetcher.** `call` is one activation of `fetch`: `ready` before a request,
`backoff` between two, `answered` after the last. A reply is the class
`_execute_single` sorts it into with its validators and Retry-After. The jitter
is zero or maximal. Code after the retry loop is unreachable and has no action.

**Ingest.** A server's page is a version number; the items it lists are the last
`Window` versions. ETags name one version of one page, a Last-Modified is the
version it dates from, and 304 follows from HTTP's own rules. `run` is what the
process has in memory. Collectors are told apart by what they do with a
304 and an exception: `rss` and `api` take the one for an empty list and catch the
other, `html` looks at the Content-Type first and may visit item pages, `strict`
takes a 304 for a failure and lets some exceptions out.
`dropped` is a history variable: what the process had in hand, not yet stored, of the
page it accepted last, when it was killed, raised, or could not parse that page. The
next page that is accepted empties it.

**Platforms.** A thing is a release, model, note, paper or post as its server shows it
now: `thing[t]` has the fields the collectors read, and `Edit` changes one of
them between two polls. A row keeps the fields the collector writes and the
`hash` of those it hashes; the upsert keeps an old row when the hashes agree, as
`upsert_item` does. An index page is read as containers or, where no container
gives a post, as bare links; posts without a date are looked up on their own
pages, up to the profile's cap, before the filter. After the last source the statuses
are derived from the results, and a new poll begins. Papers with Code answers with an arXiv id for the
papers in `given`, and for another only if its URL has one (`ExtractArxivId`); a row
that names no paper, in its URL or by an id, is a story of its own.

**ArxivApi.** `page` and `attempt` are the loop variables, `limiter` the one
object all queries share; the clock advances by what the code sleeps and by
`Gaps`. Papers may be listed while a query pages. The server may send any prefix of
the page that was asked for, an empty feed among them, with or without a total.
`promised` remembers what it listed when the query began, `withheld` what it should
have sent from the place on where it last stopped short.

**TokenBucket.** `Acquire(w)` is one round of the loop under the lock, with the
refill; who has to wait is in `sleeping` and takes another round later. `since[t]` is a history of the
requests let through from tick `t` on.

**Migrations.** A process reads the version once, then executes and commits one
statement at a time and records the version last. A version that another process
recorded meanwhile is refused by its primary key; the connection fails, and the
next one starts again.

**FullText, Relevance.** A file is absent, torn or whole; opening it to write
tears it. A batch is one story, which is what `MAX_BATCH_SIZE = 1` says. Threads
of the executor hold a `job`, its story and attempt, and take the first of the places
in the list that `queue` has left. The main thread merges and writes at the end.
`answered` is the history of the documents the model scored.

**Translation.** The dictionary `entries` is shared by all threads; `stack` is
what the halving of an incomplete batch has still to ask for; `alone` says that
one thread or one batch needs no executor. A batch is the set of its stories, and
the first of them are the least, since only where a list is cut matters. A save
iterates over the dictionary, truncates the file and writes it (`Snapshot`,
`Truncate`, `Write`), and a thread may add a key in between. `script` is
`retranslate-cache.sh`, which deletes before it locks.

**Selection.** One action per state of the two state machines, and one per story in
the two loops of the quota filter: `place` is where the loop stands in `ranked`,
`used` the dictionary of its counts, and `verdict` says of every story whether it is
kept or which step dropped it, as `ScoredStory.dropped` does. A quota does not count a
story without a category (`PassOver`). The phases before and after the loops are
functions of lists. `Orders` says what Python's `sorted`, comprehensions and
dictionaries of lists make of a list by the places they select, so that no operator
recurses.

**Report.** `command` is the process between its writes: the report file, then
the index, each torn from its opening to its end. A candidate is the place of a
story, the day of its archive and where it stands in it; the dictionary of the code, in
which a better appearance replaces an earlier one, keeps for each key the first of
its best appearances, and the stable sort ends at the order of the keys' first
appearances (`KeyedBefore`). `basis` remembers the archives a report was made from.

**Pipeline.** One action per phase of `_execute_pipeline_phases`. What a phase
computes is a class of result; what it can do to the control flow is complete:
succeed, degrade, raise with the run row left as it is, or die with the process.
A rendering may also fail before its first file: the site stays `untouched`, and the
run goes on as if it had been written.

**Site.** Contents are version numbers: `day[d]` counts the writes of
`api/day/<d>.json`. `page[d]` is the placeholder of the renderer or the route of
`prepare-public.py`. A job is a record with its place, its kind, and the dates it
has still to do; every write of one file and every push is a step, and at any of
them the job may exit. `daily.whole` is FALSE between the truncation and the
filling of `daily.json` by `write_text`.

**Schedule.** Time is in slots. `made[d]` is when the run that wrote the archive
of day `d` started; its 24 hours of lookback are the slots before. A daily run may
end without an archive (`DailyFails`: the arXiv gate, an error); `failed` remembers
when it started. Jobs queue for
the lock, give up after `LockWait`, lose their place in an outage, and are
remembered (systemd) or forgotten (cron) when due during one.

## 3. The runs

The suite stays at a dozen runs so that it is run on every change. A run that
covers several modules chooses one `part` in its initial state; the variables of
the others are constant (`Off`, or what their Init says), so each part is
explored exactly as in a run of its own, and each property names its part.

| Run (module / cfg) | Question | Bounds |
|---|---|---|
| `store_locked` (MCStateStore / StateStoreLocked) | With the lock, are items consistent, and does the watermark go back only when retention deletes the run that set it? | 2 processes, 1 URL, 2 hashes, 2 runs, clock to 3, retention 1 |
| `run` (MCRun / Run), part `fetch` | Is the retry budget used exactly, is waiting bounded, and is a call with retries one reply and one row change? | budgets 0 and 3, a reply of every class, validators that change once, Retry-After −1, 0, below and above the cap |
| part `pipeline` | Gate, exit status and record, life cycle; does a run wait for anything but its collectors (`RunSettles`)? | 2 enabled and 1 disabled arXiv sources, 1 other |
| part `news` | With servers that answer: do new items arrive (`NewsArrives`)? | a dated list with Last-Modified, an undated one with ETag and item pages, 3 versions, 1 item kept, 2 pages |
| `collection` (MCCollection / Collection), part `faults` | After parse errors, store errors, refused requests and deaths: does a validator in a row name items that are neither stored nor lost with the run that accepted that very page (`RowCovered`)? | a strict source and a feed, 3 versions, window 2, all failures |
| part `api` | Does a query that says done skip no paper above the place where the server stopped short, politely (`WindowCovered`, `Polite`)? | a daily query and a backfill, pages of one paper, 2 papers, 3 pages, 2 attempts, windows of 2 requests, an unparsable entry, feeds cut at any place |
| part `platforms` | Does a row show the last edit, are the rows that name a paper one story, is the status true (`EditStored`, `OneStory`, `StatusTold`)? | seven configurations of one or two sources, one of each platform, ids given for any of the papers, 2 things, 1 item kept, 1 page of a post asked for, 3 moments |
| part `bucket` | Can sleepers that wake together make a burst (`RateBounded`)? | 2 threads, cost 2, rate 1, capacity 4, 5 ticks |
| part `migrations` | Who has the database open finds every table (`SchemaWhole`) | 2 processes, one script of 3 statements |
| part `store` | Without the lock, is a row still NEW once (`NewOnce`)? | 2 processes, 1 URL, 2 hashes, clock to 1 |
| `site` (Site / Site) | Is what is published navigable, saved, never older, and does the site recover? | 4 days, retention 1, 1 operator job, failures anywhere on days 1–3 |
| `schedule` (MCSchedule / Schedule) | Do reports lack only what a failed run lost, and come in time, on a host that stays up; are missed jobs caught up on one that does not? | 8 slots a day, weeks of 2 and months of 3 days, 4 days, 2 outages, 1 failed daily run |
| `curation` (MCCuration / Curation), part `relevance` | Does every story end with a score, is only an answer cached, is nothing asked again that is cached, is a text its paper's own (`ScoresComplete`, `CacheHonest`, `PaidOnce`, `ServedWhole`)? | a paper with a page and a PDF, a post, 2 threads, a loop where one story is left, 3 runs |
| part `translation` | Is kept what was paid for, is a story given up alone only, does the phase end (`PaidKept`, `GivenUpAlone`, `PhaseEnds`)? | 3 stories in batches of 2, 2 threads or the loop, 2 runs, 1 text that changes between them or 1 deletion at any time |
| part `selection` | Is nothing lost, are quotas exact, does the order of the stories not matter (`NothingLost`, `QuotaExact`, `OrderIrrelevant`)? | every subset of 8 items in both orders of a query, 2 sets of quotas, with and without an LLM score; the loops story by story |
| part `reports` | Is a report the best of its archives, and does the index say what the reports say (`ReportsTrue`)? | 3 days, 2 weeks and a month, 2 contents of an archive, 2 reports, 1 archive written again |
| `raw_json_hangs`, `pipeline_render`, `schedule_cron`, `translation_race`, `status_no_update`, `news_dates` | six statements of the documents the code contradicts | see 5 |

Why the bounds are enough. *Store*: races need two processes at one row; two
hashes make "unchanged" and "updated" differ; three ticks let a row age past
retention while a call holds an older reading. *Fetcher*: budget 3 has a first,
an inner and a last retry and the delay reaches its cap inside it; budget 0 is
the boundary. *Ingest*: one source that raises stands before one that must still
be reached; three versions let a page change while a row names the previous one,
and an item leave the window of two. The `news` pair takes both kinds of
validator through both shapes of html source. *ArxivApi*: two papers on pages of
one make a last, a full and an empty page, and a paper that is listed while the
query pages shifts the others; the second query meets the limiter as the first
left it. *Platforms*: an edit can come before, between and after two polls, and
two sources of one paper or post in either order; with two undated posts the cap
on pages leaves one without a date. *TokenBucket*: the bucket holds two
requests, so a third must sleep, and two can wake at one tick. *Migrations*: a
script has a first, an inner and a last statement and two processes can be at
different ones. *Relevance*: a third run reads what a second wrote over what a
first left torn. *Translation*: a batch of two can be halved, the third story is
in a second batch; two threads are enough for one to write while the other saves.
*Selection*: the instance has one paper listed twice, papers of one category up
to and beyond its cap, an excluded and an expired one, posts of two entities and
a tie; one set of quotas has empty sections. *Report*: a paper comes back with a
better score in a later archive, one has no date, one is late into the day after
the period; two reports make a period twice, or a week and its month. *Pipeline*: the gate
distinguishes no arXiv source failed, some, all, and one that is disabled.
*Site*: retention 1 in 4 days makes pages old enough to prune; one operator job
of every span meets every daily job; three faulty days let torn files and
half-pushed states pile up before the calm one. *Schedule*: the wait (5 slots)
is longer than the jobs that can be ahead (3 of one slot each), as the six hours
of the script are longer than its jobs; in four days a week and a month end, one
of the weeks inside a month and one across; two outages make one missed timer
follow another; a failed daily run can be each of them, inside or at the end of a
period, and the theorem has any number. `JobSlots` is an assumption about the jobs:
were one longer than `LockWait`, the others would give up, and the code promises
nothing then.

Fairness. Safety properties need none. `NewsArrives` assumes that runs go on being
started and that a run moves on (`WF(ProcessStep)`); it is checked with no
failure, since a server that never answers delivers nothing. `PhaseEnds`: a
thread of the translation goes on until it is done (`WF(Step)`), since each
request has a timeout and each wait is for such a thread; the model may answer
anything, and answer incompletely for ever. `RunSettles`: a process that is
neither killed nor raises goes on (`WF(GoOn)`; `Raise` and `Crash` have no
fairness, so the property does not hold by them): its steps are local, but for
the LLM phases, whose requests have timeouts and bounded retries. That a collector
returns is not assumed (`CollectSource` has no fairness), since one may not: see
`raw_json_hangs`, and `acquire` with a `max_qps` below 1. So the property says that
a run ends or waits for the collector of an enabled source. `Terminates`: straight-line
code. `Recovers` needs the calendar to go on, a job to move on (both `WF`), and
the daily job to get the lock although others take it: strong fairness of
`StartDaily`, since the lock is free again and again while `flock -w 21600` keeps
asking. Nobody is obliged to start a report or a range, so they have no fairness.
`CaughtUp`: a free lock is taken by one that waits, a job ends, an outage ends.

Deadlock is checked in all runs but those of `MCCollection` and `MCCuration`,
whose parts come to a stop where their counted runs, ticks or reports are used up
(in the program, where nothing is started any more). Where another system comes
to a stop by the bound of the calendar (`Schedule`) or because it is a function
that returned (`RawJson`) the end is a stuttering action of its own.

Operators that begin with "Faulty variant" belong to the mutants: each property
of each passing run fails, under the cfg of its run, once its mutant takes the
place of the definition it stands before: a property that no bug can break
would say nothing.

## 4. The proofs

TLC shows a property on the instances above; these theorems hold for every value
of the constants, from the named assumptions of each module only.

| Module | Theorem | For every |
|---|---|---|
| `StateStoreProofs` | `TypeCorrect`, `LockIsExclusive`, `TimestampsOrdered`, `ContentIsLastReturned`, `LastSeenNeverBack` | number of processes, URLs, hashes, runs and any retention |
| | `NewReportedOnce`, `FirstSeenStable`, `WatermarkNeverBack` | the same, with or without the lock |
| | `SchemaIsWhole` | number of processes, list of migration scripts |
| `FetchProofs` | `FetcherTypes`, `BudgetIsUsed`, `SettledIsNotAsked`, `SleepIsBounded`, `RetriesStutter` (implements `CachedFetch`) | set of replies, budgets, delays, jitter |
| | `EditsStored`, `OneStoryOfRows`, `StatusesTold` | configurations of sources of one kind, things, caps, lookback |
| `CollectorProofs` | `BucketTypes`, `RateIsBounded` | number of threads, rate, cost, capacity |
| | `RequestsPolite`, `WindowsCovered` | queries, page size and limits, attempts, pauses, unparsable entries |
| | `RowsPromise` | sources and their kinds, validators, windows, caps, failures |
| `CurationProofs` | `OnlyAnswersCached`, `TextIsItsOwn`, `AllScored`, `NothingPaidTwice` | stories, papers, candidates, threads, number of runs |
| | `CheckpointsKeep`, `AskedToTheEnd` | visible stories, texts, threads, batches of up to 16, number of runs |
| | `ReportsAreTrue`, `ReportsTyped` | archives, periods, limits, lookahead, number of reports and of archives written again |
| `SelectionProofs` | `NothingIsLost`, `QuotasExact`, `RankingOrderIrrelevant` | items of a store, order of its query, entities, topics, weights, LLM scores, quotas |
| `PipelineProofs` | `PipelineTypes`, `CoverageGate`, `ExitZeroIsRecorded`, `ImplementsLifecycle` | set of sources, enabled or arXiv, with or without credentials |
| `SiteProofs` | `SiteTypes`, `PublishedIsNavigable`, `PublishedIsSaved`, `FrontPageNeverGoesBack` | calendar, retention, number of operator jobs, set of failures |
| `ScheduleProofs` | `TimersComplete`, `TimersInTime` | slots a day, week and month, times of the timers, wait for the lock, under systemd |

What the assumptions ask, beyond the types of the constants:

- `FetcherAssumption` says that `2 ^ n` is a number for the exponents a budget
  leads to: the provers have no definition of `^` to know it from.
- `TimerAssumption` is what the unit files say: the daily run is due first, the
  day has room for its three jobs after it, and `flock -w` waits longer than two
  jobs take.
- `PlatformsAssumption`: the sources of one configuration list things of one
  kind. `Platforms` has one kind of thing in a behaviour; that sources of two
  kinds do not meet in a row follows from their URLs and is not modelled.
- `ReportAssumption`: two periods of one type begin on different days.
- `SelectionAssumption`: no two items have one URL, which is the key of the items
  table, whatever a score adds up is a number, and the decay is known for the age of
  every item of the window. That scores are integers is an abstraction: the
  properties depend on their order only, and on the threshold of the bypass.
- `TranslationAssumption` bounds a batch as `_resolve_batch_size` does.
- `TextIsItsOwn` assumes that a paper is listed once (`DistinctPapers`), which the
  linking by stable id provides; the two theorems of `Schedule` that the timers are
  those of systemd, since the cron dispatcher has no such order (see 5), and both
  properties speak of a host that has stayed up.

The properties alone would not be inductive. What the invariants add:

- *Store.* `SeenOrder` says nothing of an upsert in progress, which will write
  the clock reading it holds. `CallsOK` bounds what a call holds, and
  `CallIsCurrent` says that under the lock its reading is the latest of all and
  its SELECT still true. The watermark needs only that no run finished in the
  future.
- *Migrations.* `RecordWhole`: a recorded version has its tables and all versions
  before it. `Applying`: what a process on its way in has done is there, although
  its reading of the version may be old.
- *Fetcher.* `GivesUpLate` speaks of answered calls only. `Progress` counts the
  requests of a call against its attempt at every place, and keeps the last
  reply transient for as long as the call goes on. `SleepBounded` lacks only the
  types (`SleepInv`); its products are lemmas.
- *TokenBucket.* `RateBounded` does not mention what is left in the bucket.
  `Accounted` adds it: what was let through since a tick and what is left were in
  a full bucket or came in since. The products of the sum make it non-linear, so
  the distributive step is a lemma.
- *ArxivApi.* `Polite` compares a request with a 429 that may lie several retries
  and sources back. `LimiterKnows`: the limiter's last request is not before the
  last one sent, and it is blocked at least until the time the 429 asked for.
  `WindowCovered` speaks of the source that ended last; `PagesRead` says before
  that that the pages read hold no promised paper that was not taken, and
  that the promised ones are still listed, whatever was inserted above them. The page
  that ends the query either reaches the end of the list or was cut, and what lies
  below the cut is `withheld`.
- *Ingest.* `RowCovered` says nothing of what the process holds between the
  commit of the row and the last upsert (`InHand`: what the row names is stored, was
  dropped, or is still in hand), nor that both validators of a row
  date from one version of the page (`RowsStamped`): a 304 that mixed two would make
  the row name a version nobody collected.
- *Platforms.* Servers edit while they are polled, so an item and the row it is
  compared with may both be out of date. `Made` says what is true of an item or a
  row however old: it shows what its hash says and, if its time of the last edit is
  still the thing's, so it does all that moves that time. `PairInv`: items in hand
  and rows of the same hash agree. `ToldInv` ties the counts of a result to what
  was written.
- *Relevance.* `Sources`: every entry of the file, of the loaded cache and of the
  results in hand that counts as the model's was answered by the model for that
  document. For the texts, `Served` adds that a paper still to load has no document
  yet (`Waiting`) and that the text whose metadata are being saved is on disk
  (`OnDisk`). `PhaseInv` follows each story through the phase (`Underway`: current,
  waiting, with a thread or settled) and says that what waits is not current and
  that what was loaded is what was last saved.
- *Translation.* `CheckpointInv`: what batches obtained is in the dictionary and
  stays so (`Obtained`), and in the loop there is one batch under way and none while
  it saves (`OneByOne`). `AskedInv` accounts for the stories not yet translated: in a
  batch not taken, in one request of one stack, or asked for at the last attempt; a
  request has at most as many stories as the halvings so far leave.
- *Report.* `ReportsTrue` speaks of whole files only, and what `WriteReport` puts
  into one was chosen two steps before: `BestInHand` says of the report in hand what
  `BestSelected` says of a file. That `Recommend` gives the best is a fact about
  strict orders on finite sets, by which the choice was restated from a fold:
  `InOrderListed` puts the element with n predecessors at place n + 1, `FirstExists` and
  `BestAppears` find the best appearance of every key. For the index, `NewestInHand` says that
  no file or entry is newer than the report in hand, and `ListsTrue` holds of
  a torn index as well, since what `WriteIndex` reads was written whole before.
- *Selection.* `QuotaExact` speaks of the end of both passes. `Accounts` says during a
  pass that the count of every key is the number of its stories that passed so far,
  and `Exact` that what the pass has gone through is decided as `QuotaExact` says;
  a later pass changes no verdict of an earlier one (`AccountsOK`). For the rest,
  `LinkState` says what the lists of the linker are, state after state: the stories
  share out the items (`LinkedOK`), and two have different ids. That needs a lemma
  which is not obvious, since a group's id is computed a second time when it is
  merged: the id of the group is the key it was grouped by (`StoryOfGroup`), for fallback
  ids too, because the items of a group agree on title, first entity and day. Two
  stories therefore have no item and no URL in common, the last key of the ranking
  is never the same for two, and a sort whose keys are all different depends on the
  elements only (`SortedAlike`, from `InOrderOnly`). `DropsOK` ties the record of the
  drops to the verdicts, one for each (`RecordsOnce`).
- *Pipeline.* `RowOf` gives the row a run has in each phase, `Gated` carries the
  outcome of the gate through all phases after it.
- *Site.* `Aim`: the date a job writes is not before the one on the front page,
  which exists. `Prepared`: what `prepare-public.py` has done by each of its
  steps. `Behind`: the site is not newer than the state branch, and the state
  branch not newer than the disk; between the pushes they are equal.
- *Schedule.* `Steady`, as long as the host has not been down: what waits or runs
  became due today and once, the daily run never waits for a report, and a lock
  that is taken is free again within the turns of the jobs ahead. It follows that
  every slot of a period is in the window of the run of its day or the next, and
  that this run made an archive or failed.

Only model-checked: liveness (`NewsArrives`, `RunSettles`, `PhaseEnds`, `Recovers`,
`CaughtUp`) and ENABLED, which are beyond the prover.

## 5. Where the documents and the code part

Six are runs that TLC ends with a violation:

- `raw_json_hangs`: a string above the threshold is cut to the threshold plus
  `...`, so it is above the threshold again (`base.py:232`). The loop takes the
  first such string each time. If the other fields keep the total above the
  limit, or if the first string alone cannot make room, the loop never ends.
- `pipeline_render`: a rendering that failed is logged, the run is closed with
  `success=True` and the command exits 0 (`digest.py:1049`), against
  `state_machine.py:19`.
- `schedule_cron`: the dispatcher runs the weekly report at 00:30 and the daily
  run at 02:00 (`cron-dispatch.sh:14`), so what was published on Sunday after the
  daily run of that day is in no archive when the report of that week is made,
  against `README.md:71`. The systemd timers have the order that works.
- `translation_race`: the main thread saves by iterating over the dictionary that
  the other threads add to (`translation/models.py:124`). The error ends the
  phase, which falls back to the cache from before the run, so the page lacks
  what the batches obtained, against `processor.py:106`.
- `status_no_update`: a body that is not JSON is a parse warning and an empty
  list (`github.py:353`), and the source is shown as one without updates, against
  `status/computer.py:64`.
- `news_dates`: the pages of a list's items are fetched under the `source_id` of the
  list (`html_profile/item_fetcher.py:244`), so with the validators in its cache row.
  A server that sends Last-Modified answers 304 for an item page that is older than
  the list page or than the item page before it; no date is found in the empty body,
  and the item is dropped as undated, against `item_fetcher.py:112` "Fetches up to K
  item pages to extract dates". A server with an ETag for each page is not affected.

The others are definitions marked "Not so". Put the name in the cfg, alone:

| Statement | Definition (module, cfg) | What the code does |
|---|---|---|
| `features/fetch/cache.py:95` "For errors, only updates last_status" | `ErrorKeepsValidators` (MCRun, Run), a PROPERTY | an error stores empty validators (`:103`); the next request is unconditional |
| `collectors/runner.py:77` "Failure isolation" | `FailureIsolated` (MCCollection, Collection) | the sequential branch has no handler (`:176`): an upsert or collector that raises ends the run |
| `collectors/html_list.py:162` "Handle 304 Not Modified" | `NewsSucceeds` (MCRun, Run) | the Content-Type is checked first (`:145`); a 304 without one is a failure |
| `arxiv/api.py:641` "until the lookback window is covered" | `WholeWindow` (MCCollection, Collection) | an empty feed, or one shorter than a page, ends the query as done (`:719`, `:738`), whatever the server left out |
| `arxiv/api.py:135` "Enforces a sliding window" | `SlidingWindow` (MCCollection, Collection) | the window starts anew when it is over: twice the maximum fits around its end |
| `ranker/constants.py:31` "Papers appearing in these curated/targeted sources get a bonus" | `BonusGiven` (MCCollection, Collection) | a row has one source, and the upsert of a later source replaces it and its flags: the bonus is lost (`scorer.py:346`) |
| `collectors/base.py:229` "Find largest string field" | `LargestFirst` (MCRawJson, RawJsonHangs), a PROPERTY | the first long string in dict order is cut (`:231`) |
| `state_machine.py:20` "Failure at any stage" | `ErrorClosesRun` (MCRun, Run) | an exception after `begin_run` leaves the row open (`digest.py:968`) |
| `digest.py:1152` "Number of days to retain archive pages" | `RetentionKept` (Site, Site) | `prepare-public.py:28` makes a page for every archive again |
| `retranslate-cache.sh:87` "Rebuild daily.json from the fresh day archives" | `RebuildsDaily` (Site, Site), a PROPERTY | backfill never writes daily.json (`digest.py:1988`) |
| `retranslate-cache.sh:2` "every visible story is retranslated" | `Retranslated` (MCCuration, Curation) | the cache is deleted before the lock is asked for: a running job writes its own entries back |
| `daily-paper-report-weekly.timer:2` "the previous ISO week report" | `WeeklyIsLatest` (MCSchedule, Schedule) | the week of yesterday: a catch-up on Wednesday reports the running week (`server-run-user.sh:31`) |

What the models showed besides, where no document says otherwise:

- *Collectors.* The cache row of a page is committed before its items are stored
  (`runner.py:316` comes after the fetch): a kill, an upsert or parser that raises, or
  a page that cannot be parsed, leaves a row whose validators bring 304 answers for
  items that are not there, until the page changes. Items that have left the page by
  then are lost. `RowCovered` allows exactly this (`Unfinished`) and is violated
  without it. `fetch/metrics.py:14` counts failures, and `record_failure`
  (`client.py:248`) stands after a loop that always returns. A Hugging Face README
  that failed once is stored only after another field of the model changed
  (`huggingface.py:616`); likes, upvotes, text beyond the hashed prefix and edits
  of case in a title are hashed nowhere, so `EditStored` leaves them out.
  OpenReview asks by creation and dates by modification (`openreview.py:300`). A
  429 at the last attempt never reaches the arXiv limiter. A Papers with Code answer
  without an arXiv id gives a row that is a story of its own beside other rows of
  the paper, and since the id is in no hash, it stays so when the id is added.
  `max_qps` below 1 can let `acquire` loop for ever when the
  bucket holds less than one request. `FETCH_FAILED` and a complete source can be
  said of one poll, since the page collectors treat a 304 as a failure without an
  error record. `CANNOT_CONFIRM` and `STATUS_ONLY` do not occur. A date recovered
  from a post's own page is in no hash (`item_fetcher.py:189`), so a row keeps the
  first one it got and later ones are discarded as `UNCHANGED`; `EditStored`
  leaves the date of such a row out, and is violated without that exemption.
- *Curation.* `last_usage` of the LLM client is shared by its threads, and
  fallbacks count as evaluated. A neutral score after a failure replaces an older
  cached one for the run. The score file is written once, at the end. A text
  found only as an abstract stays so for as long as the cache keeps it. The attempts of a
  translation count its halvings (`processor.py:292`), so in a batch of five a
  story can be left without a translation although it was never asked for alone,
  which `_attempt_batch` calls attempt 2 (`:307`); `GivenUpAlone` states the second
  half for batches of at most four, and TLC finds it violated with batches of five. A source
  slot spent on a story that the category quota then refuses stays spent;
  `QuotaExact` says so.
- *Reports.* An index torn by a kill makes every later report command write its
  report and then fail, until somebody deletes the index: `prepare-public.py`
  creates one only where there is none.
- *Store.* Two first starts at once: the second `CREATE`/`INSERT` is refused and
  that process fails; `migrations.py:183` speaks of a transaction, but
  `executescript` commits each statement.

## 6. Not modelled, and the plan

Whole components, and why:

- *Configuration* is read once, before anything else, and a load succeeds or ends
  the process; validation by schemas leaves no state.
- *Evidence capture* writes files after the run row is closed; nothing reads them.
- *Observability, settings, data model, end-to-end harness, installers,
  `docs/codex`*: no protocol.
- *Front end*: stores with a flag and a payload; the repository states nothing of
  the order of their answers.
- `ArxivRssCollector` and the arXiv deduplicator are constructed nowhere,
  `rollback_to` and `RunStateMachine.transition` have no caller, the story files
  of `linker/persistence.py` no reader, and `scripts/retranslate.py` is part of no
  job. The command line passes `max_workers=1`, so the parallel branch of the
  runner does not run.

Left out of the modelled parts: what a page, a prompt or a body says and its size
(a class of answer), text extraction and regular expressions (relations of an
instance), which links of an index page are navigation, and dates an index page
gives in its own meta data, URL canonicalisation (string processing; models take canonical URLs),
log records, counters, remediation texts, titles and summaries of reports; the
temporary file of `AtomicWriter`, whose fixed name could meet only another render
of the same page, which the lock prevents; dry runs; the SQLite backup inside
`publish-state.sh`; leap weeks and month lengths in `Schedule`.

Written in this order: `StateStore`, `HttpCache`, `CachedFetch`, `HttpFetcher`,
`Ingest`, `RawJson`, `RunLifecycle`, `Pipeline`, `Site`, `Schedule`, the proofs of
`StateStore`, `HttpFetcher`, `Pipeline` and `Site`; then `ArxivApi`, `Linker`,
`Ranker`, `Selection`, `FullText`, `Relevance`, `Translation`, `SourceStatus`,
`Platforms`, `TokenBucket`, `Migrations`, `Report`; then the proofs of the collectors,
of the phases up to translation, of the timers, of the reports, and, with `Orders` in
the place of folds, of the selection.

What would add most next: `assign_sections` one story at a time, as the quota filter
has it, with what its four loops share (`assigned_ids`) as state; a second kind of
thing in `Platforms`; and, should the runner be given threads, its parallel branch.
