----------------------------- MODULE StateStore -----------------------------
(***************************************************************************)
(* The SQLite state store, src/src/features/store/store.py: the runs and   *)
(* items tables, the operations the pipeline calls on them, and the        *)
(* processes that hold a connection.  The http_cache table is modelled in  *)
(* Ingest, beside the fetcher that is its only user.                       *)
(*                                                                         *)
(* upsert_item is three steps: it reads the clock, then SELECTs the row,   *)
(* then writes and commits.  sqlite3 opens a transaction at the first      *)
(* INSERT or UPDATE only, so the SELECT is outside of it and another       *)
(* process can commit in between.  The deployment scripts serialise the    *)
(* processes with flock; UseLock says whether they went through it.        *)
(***************************************************************************)
EXTENDS Integers

CONSTANTS
    Clients,      \* processes that open the database
    Urls,         \* canonical URLs, the primary key of items
    NoUrl,        \* a connection that is not in an upsert
    Hashes,       \* content hashes
    NoHash,       \* content_hash of an absent row
    RunIds,       \* primary keys of runs
    NoRun,        \* a connection that has no run in progress
    NoClient,     \* the pipeline lock is free
    UseLock,      \* the processes take the flock of the deployment scripts
    ItemDays,     \* prune_old_items(days)
    RunDays,      \* prune_old_runs(days)
    MaxTime       \* bound on the clock

ASSUME StoreAssumption ==
    /\ NoUrl \notin Urls
    /\ NoHash \notin Hashes
    /\ NoRun \notin RunIds
    /\ NoClient \notin Clients
    /\ UseLock \in BOOLEAN
    /\ ItemDays \in Nat
    /\ RunDays \in Nat
    /\ MaxTime \in Nat

VARIABLES
    clock,        \* datetime.now(UTC)
    items,        \* url -> row of the items table
    runs,         \* run_id -> row of the runs table
    conns,        \* client -> its connection and the upsert it is in
    lock,         \* holder of pipeline.lock
    returned,     \* history: url -> hash of the last upsert that returned
    newReports    \* history: url -> NEW results since the row was absent

vars == <<clock, items, runs, conns, lock, returned, newReports>>

ItemRow == [hash: Hashes \cup {NoHash}, first: Nat, last: Nat]
NoRow == [hash |-> NoHash, first |-> 0, last |-> 0]
Present(row) == row.hash # NoHash

RunStatus == {"absent", "running", "success", "failure"}
RunRow == [status: RunStatus, started: Nat, finished: Nat]
AbsentRun == [status |-> "absent", started |-> 0, finished |-> 0]

Conn == [pc: {"closed", "open", "called", "selected"},
         url: Urls \cup {NoUrl}, hash: Hashes \cup {NoHash}, now: Nat,
         found: ItemRow, run: RunIds \cup {NoRun}]
AtRest(pc, run) == [pc |-> pc, url |-> NoUrl, hash |-> NoHash, now |-> 0,
                    found |-> NoRow, run |-> run]

Connected(c) == conns[c].pc # "closed"
Idle(c) == conns[c].pc = "open"

Init ==
    /\ clock = 0
    /\ items = [u \in Urls |-> NoRow]
    /\ runs = [r \in RunIds |-> AbsentRun]
    /\ conns = [c \in Clients |-> AtRest("closed", NoRun)]
    /\ lock = NoClient
    /\ returned = [u \in Urls |-> NoHash]
    /\ newReports = [u \in Urls |-> 0]

Tick ==
    /\ clock < MaxTime
    /\ clock' = clock + 1
    /\ UNCHANGED <<items, runs, conns, lock, returned, newReports>>

(* connect(): the script has taken the lock before it starts the process. *)
Connect(c) ==
    /\ ~Connected(c)
    /\ IF UseLock THEN lock = NoClient /\ lock' = c ELSE lock' = lock
    /\ conns' = [conns EXCEPT ![c] = AtRest("open", NoRun)]
    /\ UNCHANGED <<clock, items, runs, returned, newReports>>

ReleaseLock(c) == lock' = IF lock = c THEN NoClient ELSE lock

(* close(): between two operations; the lock goes with the process. *)
Close(c) ==
    /\ Idle(c)
    /\ conns' = [conns EXCEPT ![c] = AtRest("closed", NoRun)]
    /\ ReleaseLock(c)
    /\ UNCHANGED <<clock, items, runs, returned, newReports>>

(* The process dies: what it has not committed is lost, flock is dropped. *)
Crash(c) ==
    /\ Connected(c)
    /\ conns' = [conns EXCEPT ![c] = AtRest("closed", NoRun)]
    /\ ReleaseLock(c)
    /\ UNCHANGED <<clock, items, runs, returned, newReports>>

\* Faulty variant: INSERT OR REPLACE with a run_id that is already there.
BeginRunReplacing(c, r) ==
    /\ Idle(c)
    /\ conns[c].run = NoRun
    /\ runs' = [runs EXCEPT ![r] =
                  [status |-> "running", started |-> clock, finished |-> 0]]
    /\ conns' = [conns EXCEPT ![c].run = r]
    /\ UNCHANGED <<clock, items, lock, returned, newReports>>

(* run_id is a fresh uuid4: not one a live process is still using. *)
BeginRun(c, r) ==
    /\ Idle(c)
    /\ conns[c].run = NoRun
    /\ runs[r].status = "absent"
    /\ \A d \in Clients : conns[d].run # r
    /\ runs' = [runs EXCEPT ![r] =
                  [status |-> "running", started |-> clock, finished |-> 0]]
    /\ conns' = [conns EXCEPT ![c].run = r]
    /\ UNCHANGED <<clock, items, lock, returned, newReports>>

(* The UPDATE matches no row, and RunNotFoundError is raised, when the run *)
(* was pruned while it was in progress.                                    *)
EndRun(c, success) ==
    /\ Idle(c)
    /\ conns[c].run # NoRun
    /\ LET r == conns[c].run IN
         runs' = IF runs[r].status = "absent" THEN runs
                 ELSE [runs EXCEPT ![r].status = IF success THEN "success" ELSE "failure",
                                   ![r].finished = clock]
    /\ conns' = [conns EXCEPT ![c].run = NoRun]
    /\ UNCHANGED <<clock, items, lock, returned, newReports>>

-----------------------------------------------------------------------------
(* upsert_item, one action per step. *)

UpsertCall(c, u, h) ==
    /\ Idle(c)
    /\ conns' = [conns EXCEPT ![c] =
                   [pc |-> "called", url |-> u, hash |-> h, now |-> clock,
                    found |-> NoRow, run |-> conns[c].run]]
    /\ UNCHANGED <<clock, items, runs, lock, returned, newReports>>

UpsertSelect(c) ==
    /\ conns[c].pc = "called"
    /\ conns' = [conns EXCEPT ![c].pc = "selected",
                              ![c].found = items[conns[c].url]]
    /\ UNCHANGED <<clock, items, runs, lock, returned, newReports>>

InsertedRow(k) == [hash |-> k.hash, first |-> k.now, last |-> k.now]

\* Faulty variants: the two timestamps swapped; the hash column left out of
\* the UPDATE.
UpdatedRowSwapped(k, row) ==
    [hash |-> k.hash, first |-> k.now, last |-> row.first]
UpdatedRowStaleHash(k, row) == [row EXCEPT !.last = k.now]

(* The UPDATE that runs for an existing row: last_seen_at only when the    *)
(* SELECT found the same hash, every content column otherwise.  Neither    *)
(* writes first_seen_at, and neither matches a row deleted meanwhile.      *)
UpdatedRow(k, row) ==
    IF ~Present(row) THEN row
    ELSE [hash |-> IF k.found.hash = k.hash THEN row.hash ELSE k.hash,
          first |-> row.first,
          last |-> k.now]

UpsertReturn(c) ==
    /\ conns' = [conns EXCEPT ![c] = AtRest("open", conns[c].run)]
    /\ returned' = [returned EXCEPT ![conns[c].url] = conns[c].hash]

\* Faulty variant: INSERT OR REPLACE, no UNIQUE constraint to stop the race.
UpsertInsertReplacing(c) ==
    LET k == conns[c] IN
    /\ k.pc = "selected"
    /\ ~Present(k.found)
    /\ items' = [items EXCEPT ![k.url] = InsertedRow(k)]
    /\ newReports' = [newReports EXCEPT ![k.url] = @ + 1]
    /\ UpsertReturn(c)
    /\ UNCHANGED <<clock, runs, lock>>

UpsertInsert(c) ==
    LET k == conns[c] IN
    /\ k.pc = "selected"
    /\ ~Present(k.found)
    /\ ~Present(items[k.url])        \* else UNIQUE constraint: UpsertFail
    /\ items' = [items EXCEPT ![k.url] = InsertedRow(k)]
    /\ newReports' = [newReports EXCEPT ![k.url] = @ + 1]
    /\ UpsertReturn(c)
    /\ UNCHANGED <<clock, runs, lock>>

UpsertUpdate(c) ==
    LET k == conns[c] IN
    /\ k.pc = "selected"
    /\ Present(k.found)
    /\ items' = [items EXCEPT ![k.url] = UpdatedRow(k, @)]
    /\ UpsertReturn(c)
    /\ UNCHANGED <<clock, runs, lock, newReports>>

(* An sqlite error (constraint, busy, disk full): rollback and re-raise. *)
UpsertFail(c) ==
    /\ conns[c].pc \in {"called", "selected"}
    /\ conns' = [conns EXCEPT ![c] = AtRest("open", conns[c].run)]
    /\ UNCHANGED <<clock, items, runs, lock, returned, newReports>>

-----------------------------------------------------------------------------
(* Retention. *)

PruneItems(c) ==
    LET old == {u \in Urls : Present(items[u]) /\ items[u].first < clock - ItemDays} IN
    /\ Idle(c)
    /\ old # {}
    /\ items' = [u \in Urls |-> IF u \in old THEN NoRow ELSE items[u]]
    /\ newReports' = [u \in Urls |-> IF u \in old THEN 0 ELSE newReports[u]]
    /\ UNCHANGED <<clock, runs, conns, lock, returned>>

PrunedRun(r) == runs[r].status # "absent" /\ runs[r].started < clock - RunDays

PruneRuns(c) ==
    /\ Idle(c)
    /\ \E r \in RunIds : PrunedRun(r)
    /\ runs' = [r \in RunIds |-> IF PrunedRun(r) THEN AbsentRun ELSE runs[r]]
    /\ UNCHANGED <<clock, items, conns, lock, returned, newReports>>

ClientStep(c) ==
    \/ Connect(c)
    \/ Close(c)
    \/ Crash(c)
    \/ \E r \in RunIds : BeginRun(c, r)
    \/ \E success \in BOOLEAN : EndRun(c, success)
    \/ \E u \in Urls, h \in Hashes : UpsertCall(c, u, h)
    \/ UpsertSelect(c)
    \/ UpsertInsert(c)
    \/ UpsertUpdate(c)
    \/ UpsertFail(c)
    \/ PruneItems(c)
    \/ PruneRuns(c)

Next == Tick \/ \E c \in Clients : ClientStep(c)

Spec == Init /\ [][Next]_vars

-----------------------------------------------------------------------------
(* get_last_successful_run_finished_at: its query, as a set of 0 or 1. *)
Successes == {r \in RunIds : runs[r].status = "success"}
LastSuccess ==
    {runs[r].finished : r \in {q \in Successes :
        \A p \in Successes : runs[p].finished <= runs[q].finished}}

TypeOK ==
    /\ clock \in Nat
    /\ items \in [Urls -> ItemRow]
    /\ runs \in [RunIds -> RunRow]
    /\ conns \in [Clients -> Conn]
    /\ lock \in Clients \cup {NoClient}
    /\ returned \in [Urls -> Hashes \cup {NoHash}]
    /\ newReports \in [Urls -> Nat]

(* The lock keeps every other process out of the database. *)
MutualExclusion ==
    UseLock => \A c \in Clients : Connected(c) => lock = c

(* An item is never last seen before it was first seen, and never in the   *)
(* future: every step of upsert_item takes its own reading of the clock.   *)
SeenOrder ==
    \A u \in Urls : Present(items[u]) =>
        /\ items[u].first <= items[u].last
        /\ items[u].last <= clock

(* The content of a row is what the last upsert that returned handed in:   *)
(* an UNCHANGED result never stands for content another process replaced.  *)
StoredIsLastReturned ==
    \A u \in Urls : Present(items[u]) => items[u].hash = returned[u]

(* A row is reported NEW once in its life, however many processes race.    *)
NewOnce == \A u \in Urls : newReports[u] = IF Present(items[u]) THEN 1 ELSE 0

(* first_seen_at survives every update of its row. *)
KeepFirstSeen ==
    \A u \in Urls : Present(items[u]) /\ Present(items'[u]) => items'[u].first = items[u].first
FirstSeenKept == [][KeepFirstSeen]_vars

(* last_seen_at only moves forward, so a later sighting is never undone. *)
LastSeenForward ==
    [][\A u \in Urls : Present(items[u]) /\ Present(items'[u])
          => items'[u].last >= items[u].last]_vars

(* The watermark other runs read (the last success) goes back only when    *)
(* retention deletes the run that set it: a failed, crashed or late run    *)
(* never lowers it.                                                        *)
WatermarkForward ==
    [][\A t \in LastSuccess :
          \/ \E s \in LastSuccess' : s >= t
          \/ \E r \in Successes : runs[r].finished = t /\ runs'[r].status = "absent"]_vars
=============================================================================
