--------------------------------- MODULE Site ---------------------------------
(***************************************************************************)
(* The output directory and what becomes of it: the files a run or a       *)
(* backfill writes (src/src/renderer, src/src/cli/digest.py), the job      *)
(* scripts that finish and publish them (src/scripts), the state branch    *)
(* and the published site.  The jobs hold pipeline.lock from start to end, *)
(* so one is in progress at a time; a job can fail or die at every step.   *)
(*                                                                         *)
(* Contents are version numbers: day[d] counts the writes of               *)
(* api/day/<d>.json, and daily.json is the copy of one of them.            *)
(***************************************************************************)
EXTENDS Integers, Sequences, FiniteSets

CONSTANTS
    MaxDay,        \* bound on the calendar
    Retention,     \* --retention-days
    MaxManual,     \* bound on the jobs an operator starts
    Faults,        \* what can go wrong: "render", "exit", "push"
    CalmFrom       \* the day from which nothing goes wrong any more

ASSUME SiteAssumption ==
    /\ MaxDay \in Nat \ {0} /\ Retention \in Nat /\ MaxManual \in Nat
    /\ Faults \subseteq {"render", "exit", "push"} /\ CalmFrom \in Nat

Dates == 1..MaxDay

VARIABLES
    today,       \* the UTC date
    due,         \* the daily timer has fired, its job has not started
    day,         \* date -> version of api/day/<date>.json, 0 if absent
    page,        \* date -> day/<date>.html
    daily,       \* api/daily.json
    job,         \* the job that holds the lock
    manual,      \* jobs an operator has started
    snapshot,    \* date -> version in the state branch
    site         \* the payload of the gh-pages branch

vars == <<today, due, day, page, daily, job, manual, snapshot, site>>
files == <<day, page, daily>>

Idle == [pc |-> "idle", kind |-> "none", todo |-> <<>>, dates |-> {}]
NoDaily == [date |-> 0, version |-> 0, dates |-> {}, whole |-> TRUE]
Payload == [day |-> day, page |-> page, daily |-> daily]

Archived == {d \in Dates : day[d] # 0}
At(pc) == job.pc = pc
Go(pc) == job' = [job EXCEPT !.pc = pc]
Fault(f) == f \in Faults /\ today < CalmFrom

Init ==
    /\ today = 1 /\ due = TRUE
    /\ day = [d \in Dates |-> 0]
    /\ page = [d \in Dates |-> "absent"]
    /\ daily = NoDaily
    /\ job = Idle /\ manual = 0
    /\ snapshot = day
    /\ site = Payload

Midnight ==
    /\ today < MaxDay
    /\ ~due               \* bound: a job starts on the day it is due
    /\ today' = today + 1
    /\ due' = TRUE
    /\ UNCHANGED <<files, job, manual, snapshot, site>>

-----------------------------------------------------------------------------
(* The jobs: what starts them *)

Begin(kind, pc, todo) ==
    /\ At("idle")
    /\ job' = [pc |-> pc, kind |-> kind, todo |-> todo, dates |-> {}]

(* TARGET_DATE is read after the lock was acquired. *)
StartDaily ==
    /\ due
    /\ Begin("daily", "archive", <<today>>)
    /\ due' = FALSE
    /\ UNCHANGED <<today, files, manual, snapshot, site>>

Manual == manual < MaxManual /\ manual' = manual + 1

(* A weekly or monthly report leaves the daily files alone and publishes. *)
StartReport ==
    /\ Begin("report", "routes", <<>>)
    /\ UNCHANGED <<today, due, files, manual, snapshot, site>>

(* rerun-range-user.sh and retranslate-cache.sh: a range of past dates. *)
Span(first, last) == [i \in 1..(last - first + 1) |-> first + i - 1]
StartRange ==
    /\ Manual
    /\ \E kind \in {"rerun", "retranslate"}, first, last \in 1..today :
         first <= last /\ Begin(kind, "backfill", Span(first, last))
    /\ UNCHANGED <<today, due, files, snapshot, site>>

-----------------------------------------------------------------------------
(* main.py run: StaticRenderer.render, one action per file *)

Target == Head(job.todo)

WriteArchive ==
    /\ At("archive")
    /\ day' = [day EXCEPT ![Target] = @ + 1]
    /\ job' = [job EXCEPT !.pc = "daily", !.dates = Archived \cup {Target}]
    /\ UNCHANGED <<today, due, page, daily, manual, snapshot, site>>

\* Faulty variant: the file is read and updated, so it must be readable.
WriteDailyMerging ==
    /\ At("daily") /\ daily.whole
    /\ daily' = [date |-> Target, version |-> day[Target], dates |-> job.dates, whole |-> TRUE]
    /\ Go("page")
    /\ UNCHANGED <<today, due, day, page, manual, snapshot, site>>

WriteDaily ==
    /\ At("daily")
    /\ daily' = [date |-> Target, version |-> day[Target], dates |-> job.dates, whole |-> TRUE]
    /\ Go("page")
    /\ UNCHANGED <<today, due, day, page, manual, snapshot, site>>

WritePlaceholder ==
    /\ At("page")
    /\ page' = [page EXCEPT ![Target] = "placeholder"]
    /\ Go("prune")
    /\ UNCHANGED <<today, due, day, daily, manual, snapshot, site>>

PruneOldDayPages ==
    /\ At("prune")
    /\ page' = [d \in Dates |-> IF d < Target - Retention THEN "absent" ELSE page[d]]
    /\ Go("routes")
    /\ UNCHANGED <<today, due, day, daily, manual, snapshot, site>>

(* A failed rendering is logged; the command still exits 0. *)
RenderFails ==
    /\ Fault("render")
    /\ job.pc \in {"archive", "daily", "page", "prune"}
    /\ Go("routes")
    /\ UNCHANGED <<today, due, files, manual, snapshot, site>>

-----------------------------------------------------------------------------
(* main.py backfill --overwrite-existing, date after date *)

NextDate == job' = [job EXCEPT !.pc = "backfill", !.todo = Tail(@)]

(* The store has no item published on that date. *)
BackfillNothing ==
    /\ At("backfill") /\ job.todo # <<>>
    /\ NextDate
    /\ UNCHANGED <<today, due, files, manual, snapshot, site>>

\* Faulty variant: skip_daily_json is left at its default.
BackfillArchiveAll ==
    /\ At("backfill") /\ job.todo # <<>>
    /\ day' = [day EXCEPT ![Target] = @ + 1]
    /\ daily' = [date |-> Target, version |-> day'[Target],
                 dates |-> Archived \cup {Target}, whole |-> TRUE]
    /\ Go("placeholder")
    /\ UNCHANGED <<today, due, page, manual, snapshot, site>>

BackfillArchive ==
    /\ At("backfill") /\ job.todo # <<>>
    /\ day' = [day EXCEPT ![Target] = @ + 1]
    /\ Go("placeholder")
    /\ UNCHANGED <<today, due, page, daily, manual, snapshot, site>>

BackfillPlaceholder ==
    /\ At("placeholder")
    /\ page' = [page EXCEPT ![Target] = "placeholder"]
    /\ NextDate
    /\ UNCHANGED <<today, due, day, daily, manual, snapshot, site>>

(* retranslate-cache.sh counts a failed date and goes on. *)
BackfillFails ==
    /\ Fault("exit")
    /\ job.kind = "retranslate" /\ job.pc \in {"backfill", "placeholder"} /\ job.todo # <<>>
    /\ NextDate
    /\ UNCHANGED <<today, due, files, manual, snapshot, site>>

(* Its last step backfills today once more; it does not publish. *)
RangeDone ==
    /\ At("backfill") /\ job.todo = <<>>
    /\ \/ job.kind = "rerun" /\ Go("routes")
       \/ job.kind = "retranslate" /\ job' = [job EXCEPT !.kind = "rebuild", !.todo = <<today>>]
       \/ job.kind = "rebuild" /\ job' = Idle
    /\ UNCHANGED <<today, due, files, manual, snapshot, site>>

-----------------------------------------------------------------------------
(* The scripts: prepare-public.py, publish-state.sh, publish-pages.sh *)

\* Faulty variant: a route is made for the newest archive only.
MakeRoutesNewest ==
    /\ At("routes")
    /\ page' = [d \in Dates |-> IF d \in Archived /\ \A e \in Archived : e <= d
                                THEN "route" ELSE page[d]]
    /\ Go("reread")
    /\ UNCHANGED <<today, due, day, daily, manual, snapshot, site>>

MakeRoutes ==
    /\ At("routes")
    /\ page' = [d \in Dates |-> IF d \in Archived THEN "route" ELSE page[d]]
    /\ Go("reread")
    /\ UNCHANGED <<today, due, day, daily, manual, snapshot, site>>

(* daily.json is missing or torn: the script exits. *)
DailyUnreadable ==
    /\ At("reread")
    /\ daily.date = 0 \/ ~daily.whole
    /\ job' = Idle
    /\ UNCHANGED <<today, due, files, manual, snapshot, site>>

(* write_text truncates the file, then fills it. *)
TruncateDaily ==
    /\ At("reread")
    /\ daily.date # 0 /\ daily.whole
    /\ daily' = [daily EXCEPT !.whole = FALSE]
    /\ Go("rewrite")
    /\ UNCHANGED <<today, due, day, page, manual, snapshot, site>>

RewriteDaily ==
    /\ At("rewrite")
    /\ daily' = [daily EXCEPT !.whole = TRUE, !.dates = Archived]
    /\ Go("state")
    /\ UNCHANGED <<today, due, day, page, manual, snapshot, site>>

\* Faulty variant: a refused push does not stop the script.
PublishStateCarryingOn ==
    /\ At("state")
    /\ snapshot' \in {day, snapshot}
    /\ Go("pages")
    /\ UNCHANGED <<today, due, files, manual, site>>

PublishState ==
    /\ At("state")
    /\ snapshot' = day
    /\ Go("pages")
    /\ UNCHANGED <<today, due, files, manual, site>>

PublishPages ==
    /\ At("pages")
    /\ site' = Payload
    /\ job' = Idle
    /\ UNCHANGED <<today, due, files, manual, snapshot>>

PushFails ==
    /\ Fault("push")
    /\ job.pc \in {"state", "pages"}
    /\ job' = Idle
    /\ UNCHANGED <<today, due, files, manual, snapshot, site>>

(* A command exits non-zero under set -e, or the host kills the job. *)
JobExits ==
    /\ Fault("exit")
    /\ ~At("idle")
    /\ job' = Idle
    /\ UNCHANGED <<today, due, files, manual, snapshot, site>>

-----------------------------------------------------------------------------
JobStep ==
    \/ WriteArchive \/ WriteDaily \/ WritePlaceholder \/ PruneOldDayPages \/ RenderFails
    \/ BackfillNothing \/ BackfillArchive \/ BackfillPlaceholder \/ BackfillFails \/ RangeDone
    \/ MakeRoutes \/ DailyUnreadable \/ TruncateDaily \/ RewriteDaily
    \/ PublishState \/ PublishPages \/ PushFails \/ JobExits

Next == Midnight \/ StartDaily \/ StartReport \/ StartRange \/ JobStep

(* Days pass, a job that holds the lock moves on, and the daily job, which   *)
(* waits for the lock far longer than the others hold it, gets it.  Nobody   *)
(* has to start a report or a range.                                         *)
Spec == Init /\ [][Next]_vars /\ WF_vars(Midnight) /\ SF_vars(StartDaily) /\ WF_vars(JobStep)

-----------------------------------------------------------------------------
Dailies == [date: 0..MaxDay, version: Nat, dates: SUBSET Dates, whole: BOOLEAN]
Pages == [Dates -> {"absent", "placeholder", "route"}]
Jobs == [pc: {"idle", "archive", "daily", "page", "prune", "backfill", "placeholder",
              "routes", "reread", "rewrite", "state", "pages"},
         kind: {"none", "daily", "report", "rerun", "retranslate", "rebuild"},
         todo: Seq(Dates), dates: SUBSET Dates]

TypeOK ==
    /\ today \in Dates /\ due \in BOOLEAN
    /\ day \in [Dates -> Nat]
    /\ \A d \in Dates : d > today => day[d] = 0
    /\ page \in Pages
    /\ daily \in Dailies
    /\ job \in Jobs
    /\ \A i \in 1..Len(job.todo) : job.todo[i] <= today
    /\ manual \in 0..MaxManual
    /\ snapshot \in [Dates -> Nat]
    /\ site \in [day: [Dates -> Nat], page: Pages, daily: Dailies]

(* Whatever failed on the way, a visitor of the published site finds a whole *)
(* daily.json, and behind every date it lists an archive and its page.       *)
SiteNavigable ==
    site.daily.date # 0 =>
        /\ site.daily.whole
        /\ site.daily.date \in site.daily.dates
        /\ \A d \in site.daily.dates : site.day[d] # 0 /\ site.page[d] = "route"

(* Nothing is shown that the state branch could not restore: the state is    *)
(* pushed first, and a refused push stops the job.                           *)
ShownIsSaved == \A d \in Dates : site.day[d] <= snapshot[d]

(* The front page never falls back to an older digest, whichever past dates  *)
(* are generated again.                                                      *)
FrontPageForward == [][site'.daily.date >= site.daily.date]_vars

(* Once things stop going wrong the newest digest is published, whatever     *)
(* torn or half-written files the failures have left.                        *)
Recovers == today = MaxDay ~> site.daily.date = MaxDay

(* Not so, see the README.  digest.py:1152 "Number of days to retain archive *)
(* pages (default: 90)": no page older than that is on the site.             *)
RetentionKept ==
    \A d \in Dates : site.page[d] # "absent" => d >= site.daily.date - Retention

(* Not so, see the README.  retranslate-cache.sh:87 "Rebuild daily.json from *)
(* the fresh day archives": when the script ends, daily.json shows what the  *)
(* archive of its date says.                                                 *)
RebuildsDaily ==
    [][job.kind = "rebuild" /\ job'.pc = "idle" /\ daily.date # 0
         => daily.version = day[daily.date]]_vars
=============================================================================
