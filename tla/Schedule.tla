------------------------------- MODULE Schedule -------------------------------
(***************************************************************************)
(* When the jobs run and what their reports cover: the systemd timers      *)
(* (src/deploy/systemd) or the cron dispatcher (src/scripts), the shared   *)
(* lock, the 24 hours a daily run looks back, and the archives a weekly or *)
(* monthly report scans (src/src/reports/aggregator.py).  The host can be  *)
(* switched off for a while.                                               *)
(*                                                                         *)
(* Time is counted in slots; day 0 begins a week and a month, and all      *)
(* months are equally long.                                                *)
(***************************************************************************)
EXTENDS Integers, FiniteSets

CONSTANTS
    Scheduler,       \* "systemd" or "cron"
    SlotsPerDay,     \* and the lookback of a daily run
    SlotOf,          \* kind of job -> the slot of the day it is due
    DaysPerWeek,
    DaysPerMonth,
    LockWait,        \* flock -w
    JobSlots,        \* bound on how long a job takes
    MaxOutages,      \* bound on how often the host goes down
    MaxFailures,     \* bound on how many daily runs end without an archive
    MaxDay           \* bound on the calendar

Kinds == {"daily", "weekly", "monthly"}

ASSUME ScheduleAssumption ==
    /\ Scheduler \in {"systemd", "cron"}
    /\ {SlotsPerDay, DaysPerWeek, DaysPerMonth, JobSlots} \subseteq Nat \ {0}
    /\ {LockWait, MaxOutages, MaxFailures, MaxDay} \subseteq Nat
    /\ SlotOf \in [Kinds -> 0..SlotsPerDay - 1]

(* The timers of systemd start the daily run before the reports (00:00,      *)
(* 00:30, 01:00), with room for all three jobs before the next day; a job    *)
(* waits for the lock (6 h) longer than the other two can hold it.           *)
ASSUME TimerAssumption ==
    Scheduler = "systemd" =>
        /\ SlotOf["daily"] < SlotOf["weekly"] /\ SlotOf["daily"] < SlotOf["monthly"]
        /\ \A k \in Kinds : SlotOf[k] + 3 * JobSlots < SlotsPerDay
        /\ 2 * JobSlots < LockWait

Days == 0..MaxDay
Never == -1

VARIABLES
    now,        \* in slots
    up,         \* the host is running
    outages,    \* how often it went down
    missed,     \* timers that elapsed while it was down (Persistent=true)
    waiting,    \* jobs waiting for the lock, and since when
    running,    \* the job that holds it
    made,       \* date -> start of the run that wrote its archive
    failed,     \* history: the starts of the daily runs that wrote none
    reports     \* history: what each report was about

vars == <<now, up, outages, missed, waiting, running, made, failed, reports>>

Day(t) == t \div SlotsPerDay
NoJob == [kind |-> "none", since |-> 0, date |-> 0]

Due(kind, t) ==
    /\ t % SlotsPerDay = SlotOf[kind]
    /\ kind = "weekly" => Day(t) % DaysPerWeek = 0
    /\ kind = "monthly" => Day(t) % DaysPerMonth = 0
Fired(t) == {k \in Kinds : Due(k, t)}

Active(kind) == running.kind = kind \/ \E w \in waiting : w.kind = kind
Queue(kinds, t) == {[kind |-> k, since |-> t] : k \in kinds}

Init ==
    /\ now = 0
    /\ up = TRUE /\ outages = 0
    /\ missed = {}
    /\ waiting = Queue(Fired(0), 0)
    /\ running = NoJob
    /\ made = [d \in Days |-> Never]
    /\ failed = {}
    /\ reports = {}

Free == running = NoJob
Expired(w) == now - w.since >= LockWait

(* Time passes once the lock has been handed over and what is due was done.  *)
(* systemd leaves a service that is still active alone; a timer that elapses *)
(* while the host is down is remembered by systemd, and lost to cron.        *)
Tick ==
    /\ now < MaxDay * SlotsPerDay
    /\ Free => waiting = {}
    /\ \A w \in waiting : ~Expired(w)
    /\ ~Free => now - running.since < JobSlots
    /\ now' = now + 1
    /\ LET fired == Fired(now')
           blocked == {k \in Kinds : Scheduler = "systemd" /\ Active(k)} IN
         IF up THEN waiting' = waiting \cup Queue(fired \ blocked, now') /\ UNCHANGED missed
         ELSE /\ missed' = IF Scheduler = "systemd" THEN missed \cup fired ELSE {}
              /\ UNCHANGED waiting
    /\ UNCHANGED <<up, outages, running, made, failed, reports>>

Acquire(w) ==
    /\ up /\ Free /\ w \in waiting
    /\ waiting' = waiting \ {w}
    /\ running' = [kind |-> w.kind, since |-> now, date |-> Day(now)]
    /\ UNCHANGED <<now, up, outages, missed, made, failed, reports>>

\* Faulty variant: flock -n.
GiveUpAtOnce(w) ==
    /\ w \in waiting /\ ~Free
    /\ waiting' = waiting \ {w}
    /\ UNCHANGED <<now, up, outages, missed, running, made, failed, reports>>

GiveUp(w) ==
    /\ w \in waiting /\ ~Free /\ Expired(w)
    /\ waiting' = waiting \ {w}
    /\ UNCHANGED <<now, up, outages, missed, running, made, failed, reports>>

(* main.py run: the archive holds what the last 24 hours published. *)
FinishDaily ==
    /\ running.kind = "daily"
    /\ made' = [made EXCEPT ![running.date] = running.since]
    /\ running' = NoJob
    /\ UNCHANGED <<now, up, outages, missed, waiting, failed, reports>>

(* A daily run that ends without an archive: the arXiv gate stopped it, it   *)
(* raised, or its rendering failed before the first file.                    *)
DailyFails ==
    /\ running.kind = "daily"
    /\ Cardinality(failed) < MaxFailures
    /\ failed' = failed \cup {running.since}
    /\ running' = NoJob
    /\ UNCHANGED <<now, up, outages, missed, waiting, made, reports>>

(* resolve_period: the ISO week of yesterday, the month before today. *)
Period(kind, date) ==
    IF kind = "weekly" THEN (date - 1) \div DaysPerWeek ELSE date \div DaysPerMonth - 1

Length(kind) == IF kind = "weekly" THEN DaysPerWeek ELSE DaysPerMonth
First(kind, p) == p * Length(kind)
Last(kind, p) == First(kind, p) + Length(kind) - 1

\* Faulty variant: no lookahead.
ScannedExactly(kind, p) ==
    {d \in Days : First(kind, p) <= d /\ d <= Last(kind, p) /\ made[d] # Never}

(* The archives of the period and of the day after it. *)
Scanned(kind, p) ==
    {d \in Days : First(kind, p) <= d /\ d <= Last(kind, p) + 1 /\ made[d] # Never}

(* What was published during slot t is in the 24 hours before the start of a *)
(* run; it is in one of the archives, or was lost with a run that failed.    *)
LooksBackOn(start, t) == start - SlotsPerDay <= t /\ t < start
Archived(t, dates) == \E d \in dates : LooksBackOn(made[d], t)
Lost(t) == \E start \in failed : LooksBackOn(start, t)
Slots(kind, p) ==
    (First(kind, p) * SlotsPerDay)..((Last(kind, p) + 1) * SlotsPerDay - 1)
Covered(kind, p) == \A t \in Slots(kind, p) : Archived(t, Scanned(kind, p)) \/ Lost(t)

(* main.py report; a date without an archive is passed over. *)
FinishReport ==
    LET kind == running.kind
        p == Period(kind, running.date) IN
    /\ kind \in {"weekly", "monthly"}
    /\ reports' = reports \cup {[kind |-> kind, period |-> p, date |-> running.date,
                                 covered |-> Covered(kind, p)]}
    /\ running' = NoJob
    /\ UNCHANGED <<now, up, outages, missed, waiting, made, failed>>

PowerOff ==
    /\ up /\ outages < MaxOutages
    /\ up' = FALSE
    /\ outages' = outages + 1
    /\ waiting' = {} /\ running' = NoJob
    /\ UNCHANGED <<now, missed, made, failed, reports>>

\* Faulty variant: the timers are not persistent.
BootForgetting ==
    /\ ~up
    /\ up' = TRUE
    /\ missed' = {}
    /\ UNCHANGED <<now, outages, waiting, running, made, failed, reports>>

(* systemd starts every unit whose timer elapsed meanwhile, once. *)
Boot ==
    /\ ~up
    /\ up' = TRUE
    /\ waiting' = Queue(missed, now)
    /\ missed' = {}
    /\ UNCHANGED <<now, outages, running, made, failed, reports>>

CalendarEnds == now = MaxDay * SlotsPerDay /\ up /\ Free /\ waiting = {} /\ UNCHANGED vars

Next ==
    \/ Tick
    \/ \E w \in waiting : Acquire(w) \/ GiveUp(w)
    \/ FinishDaily \/ DailyFails \/ FinishReport
    \/ PowerOff \/ Boot
    \/ CalendarEnds

(* A job that finds the lock free takes it, a job ends, an outage ends. *)
Spec ==
    /\ Init /\ [][Next]_vars
    /\ WF_vars(\E w \in waiting : Acquire(w))
    /\ WF_vars(FinishDaily \/ DailyFails \/ FinishReport)
    /\ WF_vars(Boot)

-----------------------------------------------------------------------------

(* As long as the host stays up, a report lacks an hour of its week or month *)
(* only if the run that had to look back on it failed: the windows of the    *)
(* daily runs meet, the lookahead day supplies the end of the period, the    *)
(* lock makes the report wait for it, and a failed run costs its own day and *)
(* nothing of the days around it.                                            *)
Complete(kind) == \A r \in reports : r.kind = kind /\ r.period >= 0 => r.covered
ReportsComplete == outages = 0 => Complete("weekly") /\ Complete("monthly")

(* On such a host every week is reported before a job and the wait for the   *)
(* lock can have used up their time.                                         *)
ReportedInTime ==
    outages = 0 => \A p \in 0..(MaxDay \div DaysPerWeek - 1) :
        now > First("weekly", p + 1) * SlotsPerDay + SlotOf["weekly"] + LockWait + JobSlots
          => \E r \in reports : r.kind = "weekly" /\ r.period = p

(* What was missed while the host was down is made up for: its job is run    *)
(* after the last outage, whatever else waits for the lock then.             *)
CaughtUp ==
    \A k \in Kinds : k \in missed /\ outages = MaxOutages ~> running.kind = k

(* Not so, see the README.  daily-paper-report-weekly.timer:2 "Generate the  *)
(* previous ISO week report on Monday at 00:30 UTC": a weekly report is      *)
(* about the week that ended last, also when the timer catches up later.     *)
WeeklyIsLatest ==
    \A r \in reports : r.kind = "weekly" => r.period = r.date \div DaysPerWeek - 1

(* README.md:71 "Weekly: Monday at 00:30, covering the previous ISO week":   *)
(* what a weekly report lacks was lost with a failed daily run.              *)
WeekCovered == Complete("weekly")
=============================================================================
