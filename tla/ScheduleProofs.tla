---------------------------- MODULE ScheduleProofs ----------------------------
(* Proofs about Schedule, for timers of any length and order of the calendar, *)
(* as long as the host stays up.                                              *)
EXTENDS Schedule, TLAPS

(* The first slot of a day, and the slot at which a job of that day is due. *)
Start(d) == d * SlotsPerDay
DueAt(kind, d) == Start(d) + SlotOf[kind]
DueOn(kind, d) ==
    /\ kind = "weekly" => d % DaysPerWeek = 0
    /\ kind = "monthly" => d % DaysPerMonth = 0

Today == Day(now)
WaitsFor(kind) == \E w \in waiting : w.kind = kind

(* When the lock is free again at the latest, and the time for which today's *)
(* other jobs may still hold it.                                             *)
Busy == IF Free THEN now ELSE running.since + JobSlots
Share(kind) == IF now < DueAt(kind, Today) \/ WaitsFor(kind) THEN JobSlots ELSE 0
Outstanding == Share("daily") + Share("weekly") + Share("monthly")

Typed ==
    /\ now \in 0..MaxDay * SlotsPerDay
    /\ up = TRUE
    /\ waiting \subseteq [kind : Kinds, since : Nat]
    /\ running \in [kind : Kinds \cup {"none"}, since : Nat, date : Nat]
    /\ running.kind = "none" => Free
    /\ made \in [Days -> Nat \cup {Never}]

(* Whatever waits or runs became due today, and only once. *)
WaitingToday ==
    \A w \in waiting : w.since = DueAt(w.kind, Today) /\ w.since <= now /\ DueOn(w.kind, Today)
RunningToday ==
    ~Free =>
        /\ running.date = Today /\ DueOn(running.kind, Today)
        /\ DueAt(running.kind, Today) <= running.since
        /\ running.since <= now /\ now <= running.since + JobSlots
        /\ ~WaitsFor(running.kind)

(* The daily run never waits for a report. *)
DailyFirst ==
    /\ WaitsFor("daily") => Free /\ now = DueAt("daily", Today)
    /\ running.kind = "daily" => running.since = DueAt("daily", Today)

(* All of today's jobs together need at most three turns from the time one   *)
(* of those at hand became due.                                              *)
InTime == \A k \in Kinds : Active(k) => Busy + Outstanding <= DueAt(k, Today) + 3 * JobSlots

(* Every daily run that was due and is over made its archive or failed. *)
RunOver(d) == made[d] = DueAt("daily", d) \/ DueAt("daily", d) \in failed
Archives ==
    \A d \in Days : DueAt("daily", d) <= now /\ ~(d = Today /\ Active("daily")) => RunOver(d)

WeekReported(p) == \E r \in reports : r.kind = "weekly" /\ r.period = p
WeeksHandled ==
    \A p \in 0..(MaxDay \div DaysPerWeek - 1) :
        DueAt("weekly", First("weekly", p + 1)) <= now
          => WeekReported(p) \/ (First("weekly", p + 1) = Today /\ Active("weekly"))

Steady ==
    /\ Typed /\ WaitingToday /\ RunningToday /\ DailyFirst /\ InTime
    /\ Archives /\ WeeksHandled
    /\ Complete("weekly") /\ Complete("monthly")

IInv == outages \in Nat /\ (outages = 0 => Steady)

-----------------------------------------------------------------------------
(* The calendar. *)

LEMMA Lengths ==
    /\ SlotsPerDay \in Nat /\ SlotsPerDay > 0
    /\ JobSlots \in Nat /\ JobSlots > 0
    /\ DaysPerWeek \in Nat /\ DaysPerWeek > 0
    /\ DaysPerMonth \in Nat /\ DaysPerMonth > 0
    /\ MaxDay \in Nat /\ LockWait \in Nat
BY ScheduleAssumption

LEMMA SlotInDay == \A k \in Kinds : SlotOf[k] \in Nat /\ SlotOf[k] < SlotsPerDay
BY ScheduleAssumption

LEMMA StartIsNat == ASSUME NEW d \in Nat PROVE Start(d) \in Nat
BY Lengths DEF Start

LEMMA StartNext == \A d \in Nat : Start(d + 1) = Start(d) + SlotsPerDay
BY Lengths DEF Start

LEMMA StartOrder == \A d, e \in Nat : d < e => Start(d) + SlotsPerDay <= Start(e)
<1> SUFFICES ASSUME NEW d \in Nat, NEW e \in Nat, d < e
             PROVE  Start(d) + SlotsPerDay <= Start(e)
    OBVIOUS
<1> DEFINE n == e - d - 1
<1>1. n \in Nat /\ e = d + 1 + n
    OBVIOUS
<1>2. n * SlotsPerDay \in Nat
    BY <1>1, Lengths
<1> HIDE DEF n
<1>3. Start(e) = Start(d) + SlotsPerDay + n * SlotsPerDay
    BY <1>1, Lengths DEF Start
<1>4. QED
    BY <1>2, <1>3, StartIsNat, Lengths

LEMMA DayOf ==
    \A t \in Nat : /\ Day(t) \in Nat /\ t % SlotsPerDay \in 0..SlotsPerDay - 1
                  /\ t = Start(Day(t)) + (t % SlotsPerDay)
BY Lengths DEF Day, Start

LEMMA DayIs ==
    ASSUME NEW t \in Nat, NEW d \in Nat, Start(d) <= t, t < Start(d) + SlotsPerDay
    PROVE  Day(t) = d /\ t % SlotsPerDay = t - Start(d)
<1> DEFINE e == Day(t)
           r == t % SlotsPerDay
<1>1. e \in Nat /\ r \in 0..SlotsPerDay - 1 /\ t = Start(e) + r
    BY DayOf
<1>2. Start(d) \in Nat /\ Start(e) \in Nat /\ SlotsPerDay \in Nat
    BY <1>1, StartIsNat, Lengths
<1> HIDE DEF e, r
<1>3. ~(e < d)
  <2> SUFFICES ASSUME e < d PROVE FALSE
      OBVIOUS
  <2>1. Start(e) + SlotsPerDay <= Start(d)
      BY <1>1, StartOrder
  <2>2. QED
      BY <2>1, <1>1, <1>2
<1>4. ~(d < e)
  <2> SUFFICES ASSUME d < e PROVE FALSE
      OBVIOUS
  <2>1. Start(d) + SlotsPerDay <= Start(e)
      BY <1>1, StartOrder
  <2>2. QED
      BY <2>1, <1>1, <1>2
<1>5. d = e
    BY <1>1, <1>3, <1>4
<1>6. QED
    BY <1>1, <1>2, <1>5 DEF e, r

(* A job is due at its slot of a day on which it is due. *)
LEMMA DueMeans ==
    \A t \in Nat : \A k \in Kinds : Due(k, t) <=> t = DueAt(k, Day(t)) /\ DueOn(k, Day(t))
<1> SUFFICES ASSUME NEW t \in Nat, NEW k \in Kinds
             PROVE  Due(k, t) <=> t = DueAt(k, Day(t)) /\ DueOn(k, Day(t))
    OBVIOUS
<1> DEFINE s == Start(Day(t))
           r == t % SlotsPerDay
<1>1. t = s + r /\ s \in Nat /\ r \in Nat /\ SlotOf[k] \in Nat
  <2>1. Day(t) \in Nat /\ r \in 0..SlotsPerDay - 1 /\ t = s + r
      BY DayOf
  <2> HIDE DEF r
  <2>2. s \in Nat
      BY <2>1, StartIsNat
  <2>3. QED
      BY <2>1, <2>2, SlotInDay, Lengths
<1>2. Due(k, t) <=> r = SlotOf[k] /\ DueOn(k, Day(t))
    BY DEF Due, DueOn
<1>3. DueAt(k, Day(t)) = s + SlotOf[k]
    BY DEF DueAt
<1> HIDE DEF s, r
<1>4. r = SlotOf[k] <=> t = DueAt(k, Day(t))
    BY <1>1, <1>3
<1>5. QED
    BY <1>2, <1>4

LEMMA DueAtIsNat == \A d \in Nat : \A k \in Kinds : DueAt(k, d) \in Nat
BY StartIsNat, Lengths, SlotInDay DEF DueAt

LEMMA DueThatDay ==
    \A d \in Nat : \A k \in Kinds : Start(d) <= DueAt(k, d) /\ DueAt(k, d) < Start(d) + SlotsPerDay
BY StartIsNat, Lengths, SlotInDay DEF DueAt

(* The next slot is on the same day or opens the next one. *)
LEMMA NextSlot ==
    ASSUME NEW t \in Nat
    PROVE  \/ Day(t + 1) = Day(t)
           \/ Day(t + 1) = Day(t) + 1 /\ t + 1 = Start(Day(t)) + SlotsPerDay
<1> DEFINE d == Day(t)
<1>1. d \in Nat /\ Start(d) <= t /\ t + 1 <= Start(d) + SlotsPerDay
    BY DayOf, StartIsNat, Lengths
<1>2. Start(d) \in Nat /\ SlotsPerDay \in Nat /\ SlotsPerDay > 0
    BY <1>1, StartIsNat, Lengths
<1>3. Start(d + 1) = Start(d) + SlotsPerDay
    BY <1>1, StartNext
<1> HIDE DEF d
<1>4. CASE t + 1 < Start(d) + SlotsPerDay
  <2>1. Day(t + 1) = d
      BY <1>1, <1>2, <1>4, DayIs
  <2>2. QED
      BY <2>1 DEF d
<1>5. CASE t + 1 = Start(d) + SlotsPerDay
  <2>1. Day(t + 1) = d + 1
      BY <1>1, <1>2, <1>3, <1>5, DayIs
  <2>2. QED
      BY <2>1, <1>5 DEF d
<1>6. QED
    BY <1>1, <1>2, <1>4, <1>5

LEMMA LastDay == ASSUME NEW t \in Nat, NEW e \in Nat, t <= Start(e) PROVE Day(t) <= e
<1>1. Day(t) \in Nat /\ Start(Day(t)) <= t
    BY DayOf, StartIsNat, Lengths
<1>2. Start(Day(t)) \in Nat /\ Start(e) \in Nat
    BY <1>1, StartIsNat
<1>3. SUFFICES ASSUME e < Day(t) PROVE FALSE
    BY <1>1
<1>4. Start(e) + SlotsPerDay <= Start(Day(t))
    BY <1>1, <1>3, StartOrder
<1>5. QED
    BY <1>1, <1>2, <1>4, Lengths

(* A multiple of n, and what precedes it. *)
LEMMA Multiple ==
    \A n \in Nat \ {0} : \A q \in Nat :
        (q * n) % n = 0 /\ (q * n) \div n = q /\ q * n \in Nat
OBVIOUS

LEMMA Predecessor ==
    \A n \in Nat \ {0} : \A q \in Nat : (((q + 1) * n) - 1) \div n = q
OBVIOUS

LEMMA Divides == \A n \in Nat \ {0} : \A x \in Nat : x % n = 0 => x = (x \div n) * n /\ x \div n \in Nat
OBVIOUS

-----------------------------------------------------------------------------
(* The times in a steady state. *)

Regular == Scheduler = "systemd"

LEMMA Now ==
    ASSUME Steady
    PROVE  /\ now \in Nat /\ Today \in Nat /\ Today \in Days
           /\ Start(Today) \in Nat /\ Start(Today) <= now /\ now < Start(Today) + SlotsPerDay
           /\ \A k \in Kinds : DueAt(k, Today) = Start(Today) + SlotOf[k]
<1>1. now \in Nat /\ now <= Start(MaxDay)
    BY StartIsNat, Lengths DEF Steady, Typed, Start
<1>2. Today \in Nat /\ Today <= MaxDay
    BY <1>1, DayOf, LastDay, Lengths DEF Today
<1>3. QED
    BY <1>1, <1>2, DayOf, StartIsNat, Lengths DEF Today, Days, DueAt

LEMMA AtHand ==
    ASSUME Steady, NEW k \in Kinds, Active(k)
    PROVE  DueAt(k, Today) <= now /\ DueOn(k, Today)
<1>1. CASE WaitsFor(k)
    BY <1>1 DEF Steady, WaitingToday, WaitsFor
<1>2. CASE running.kind = k
  <2>1. ~Free
      BY <1>2 DEF Free, NoJob, Kinds
  <2>2. DueAt(k, Today) \in Nat /\ running.since \in Nat /\ now \in Nat
      BY Now, DueAtIsNat DEF Steady, Typed
  <2>3. QED
      BY <1>2, <2>1, <2>2 DEF Steady, RunningToday
<1>3. QED
    BY <1>1, <1>2 DEF Active, WaitsFor

LEMMA Shares ==
    ASSUME Steady
    PROVE  /\ \A k \in Kinds : Share(k) \in {0, JobSlots}
           /\ Outstanding \in Nat
           /\ \A k \in Kinds : Share(k) <= Outstanding
           /\ Busy \in Nat /\ now <= Busy
<1>1. \A k \in Kinds : Share(k) \in {0, JobSlots}
    BY DEF Share
<1>2. Busy \in Nat /\ now <= Busy
    BY Now, Lengths DEF Steady, Typed, RunningToday, Busy
<1>3. QED
    BY <1>1, <1>2, Lengths DEF Outstanding, Kinds

(* No job is late enough to give up, or to be in the way of the next day. *)
LEMMA OnTime ==
    ASSUME Steady, Regular, NEW k \in Kinds, Active(k)
    PROVE  /\ now <= DueAt(k, Today) + 3 * JobSlots
           /\ ~Free => running.since + JobSlots <= DueAt(k, Today) + 3 * JobSlots
           /\ DueAt(k, Today) + 3 * JobSlots < Start(Today) + SlotsPerDay
           /\ WaitsFor(k) => now <= DueAt(k, Today) + 2 * JobSlots
<1>1. Busy + Outstanding <= DueAt(k, Today) + 3 * JobSlots
    BY DEF Steady, InTime
<1>2. DueAt(k, Today) \in Nat
    BY Now, DueAtIsNat
<1>3. DueAt(k, Today) + 3 * JobSlots < Start(Today) + SlotsPerDay
    BY Now, TimerAssumption, SlotInDay, Lengths DEF Regular
<1>4. WaitsFor(k) => Share(k) = JobSlots
    BY DEF Share
<1>5. ~Free => Busy = running.since + JobSlots
    BY DEF Busy
<1>6. Busy \in Nat /\ Outstanding \in Nat /\ now <= Busy /\ Share(k) <= Outstanding /\ now \in Nat
    BY Shares, Now
<1>7. ~Free => running.since + JobSlots <= DueAt(k, Today) + 3 * JobSlots
    BY <1>1, <1>2, <1>5, <1>6, Lengths
<1>8. QED
    BY <1>1, <1>2, <1>3, <1>4, <1>6, <1>7, Lengths

-----------------------------------------------------------------------------
(* A slot passes. *)

LEMMA TickFacts ==
    ASSUME Steady, Regular, Tick, outages = 0
    PROVE  /\ now' = now + 1 /\ now' \in Nat /\ Today' \in Nat
           /\ Today' # Today => Free /\ waiting = {}
           /\ \A k \in Kinds : Due(k, now') <=> now' = DueAt(k, Today') /\ DueOn(k, Today')
           /\ \A k \in Kinds : Due(k, now') => ~Active(k)
           /\ waiting' = waiting \cup Queue(Fired(now'), now')
           /\ \A k \in Kinds : WaitsFor(k)' <=> WaitsFor(k) \/ Due(k, now')
<1>1. now' = now + 1 /\ now' \in Nat /\ Today' \in Nat
    BY Now, DayOf DEF Tick, Today
<1>2. ASSUME Today' # Today PROVE Free /\ waiting = {}
  <2>1. now' = Start(Today) + SlotsPerDay
      BY <1>1, <1>2, Now, NextSlot DEF Today
  <2>2. SUFFICES ASSUME ~Free PROVE FALSE
      BY DEF Tick
  <2>3. running.kind \in Kinds /\ Active(running.kind)
      BY <2>2 DEF Steady, Typed, Active
  <2>4. now < running.since + JobSlots
      BY <2>2, Now, Lengths DEF Tick, Steady, Typed
  <2>5. running.since + JobSlots < Start(Today) + SlotsPerDay
      BY <2>2, <2>3, OnTime, Now, DueAtIsNat, Lengths DEF Steady, Typed
  <2>6. QED
      BY <2>1, <2>4, <2>5, <1>1, Now, Lengths DEF Steady, Typed
<1>3. \A k \in Kinds : Due(k, now') <=> now' = DueAt(k, Today') /\ DueOn(k, Today')
    BY <1>1, DueMeans DEF Today
<1>4. ASSUME NEW k \in Kinds, Due(k, now') PROVE ~Active(k)
  <2>1. SUFFICES ASSUME Active(k) PROVE FALSE
      OBVIOUS
  <2>2. Today' = Today
      BY <1>2, <2>1 DEF Active, Free, NoJob, Kinds
  <2>3. DueAt(k, Today) <= now
      BY <2>1, AtHand
  <2>4. QED
      BY <1>1, <1>3, <1>4, <2>2, <2>3, Now
<1>5. waiting' = waiting \cup Queue(Fired(now'), now')
  <2>1. \A k \in Fired(now') : ~Active(k)
      BY <1>4 DEF Fired
  <2>2. Fired(now') \ {k \in Kinds : Scheduler = "systemd" /\ Active(k)} = Fired(now')
      BY <2>1
  <2>3. QED
      BY <2>2 DEF Tick, Steady, Typed
<1>6. ASSUME NEW k \in Kinds PROVE WaitsFor(k)' <=> WaitsFor(k) \/ Due(k, now')
  <2> DEFINE fired == Queue(Fired(now'), now')
  <2>1. (\E w \in fired : w.kind = k) <=> Due(k, now')
    <3>1. ASSUME Due(k, now') PROVE [kind |-> k, since |-> now'] \in fired
        BY <3>1 DEF Queue, Fired
    <3>2. \A w \in fired : w.kind \in Fired(now')
        BY DEF Queue
    <3>3. QED
        BY <3>1, <3>2 DEF Fired
  <2>2. waiting' = waiting \cup fired
      BY <1>5
  <2> HIDE DEF fired
  <2>3. QED
      BY <2>1, <2>2 DEF WaitsFor
<1>7. QED
    BY <1>1, <1>2, <1>3, <1>4, <1>5, <1>6

LEMMA TickSteady ==
    ASSUME Steady, Regular, Tick, outages = 0
    PROVE  Steady'
<1>1. /\ now' = now + 1 /\ now' \in Nat /\ now \in Nat /\ Today' \in Nat /\ Today \in Nat
      /\ Today' # Today => Free /\ waiting = {}
    BY TickFacts, Now
<1>2. ASSUME NEW k \in Kinds
      PROVE  /\ WaitsFor(k)' <=> WaitsFor(k) \/ Due(k, now')
             /\ Due(k, now') <=> now' = DueAt(k, Today') /\ DueOn(k, Today')
             /\ Due(k, now') => ~Active(k)
             /\ DueAt(k, Today') \in Nat /\ DueAt(k, Today) \in Nat
    BY <1>1, TickFacts, DueAtIsNat
<1>3. waiting' = waiting \cup Queue(Fired(now'), now')
    BY TickFacts
<1>4. UNCHANGED <<running, made, failed, reports, up>> /\ (Free' <=> Free)
    BY DEF Tick, Free
<1>5. ~Free => now' <= running.since + JobSlots
    BY Lengths, <1>1 DEF Tick, Steady, Typed
<1>6. ~Free => Today' = Today /\ running.kind \in Kinds /\ running.since <= now /\ Active(running.kind)
    BY <1>1 DEF Steady, Typed, RunningToday, Active
<1>7. Free => waiting = {}
    BY DEF Tick
<1>8. \A k \in Kinds : Active(k)' <=> Active(k) \/ Due(k, now')
    BY <1>2, <1>4 DEF Active, WaitsFor
<1>9. \A k \in Kinds : Active(k) => ~Free /\ Today' = Today /\ DueAt(k, Today) <= now
    BY <1>1, <1>7, AtHand DEF Active, Free, NoJob, Kinds
<1>10. Typed'
  <2>1. Queue(Fired(now'), now') \subseteq [kind : Kinds, since : Nat]
      BY <1>1 DEF Queue, Fired
  <2>2. now' \in 0..MaxDay * SlotsPerDay
    <3>1. MaxDay * SlotsPerDay \in Nat
        BY StartIsNat, Lengths DEF Start
    <3>2. QED
        BY <1>1, <3>1 DEF Tick
  <2>3. QED
      BY <1>3, <1>4, <2>1, <2>2 DEF Steady, Typed, Free
<1>11. WaitingToday'
  <2>1. ASSUME NEW w \in waiting'
        PROVE  w.since = DueAt(w.kind, Today') /\ w.since <= now' /\ DueOn(w.kind, Today')
    <3>1. CASE w \in waiting
        BY <1>1, <3>1, AtHand DEF Steady, WaitingToday, Typed
    <3>2. CASE w \in Queue(Fired(now'), now')
      <4>1. PICK k \in Kinds : Due(k, now') /\ w = [kind |-> k, since |-> now']
          BY <3>2 DEF Queue, Fired
      <4>2. QED
          BY <4>1, <1>1, <1>2
    <3>3. QED
        BY <1>3, <3>1, <3>2
  <2>2. QED
      BY <2>1 DEF WaitingToday
<1>12. RunningToday'
  <2>1. SUFFICES ASSUME ~Free PROVE RunningToday'
      BY <1>4 DEF RunningToday
  <2>2. ~WaitsFor(running.kind)'
      BY <2>1, <1>2, <1>4, <1>6 DEF Steady, RunningToday, WaitsFor
  <2>3. QED
      BY <2>1, <2>2, <1>1, <1>4, <1>5, <1>6 DEF Steady, RunningToday, Typed, WaitsFor
<1>13. DailyFirst'
  <2>1. ASSUME WaitsFor("daily")' PROVE Free' /\ now' = DueAt("daily", Today')
    <3>1. ~WaitsFor("daily")
        BY <1>1, <1>7 DEF Steady, DailyFirst, WaitsFor
    <3>2. now' = DueAt("daily", Today')
        BY <2>1, <3>1, <1>2 DEF Kinds
    <3>3. SUFFICES ASSUME ~Free PROVE FALSE
        BY <1>4, <3>2
    <3>4. DueAt(running.kind, Today) <= now /\ SlotOf["daily"] <= SlotOf[running.kind]
        BY <3>3, <1>6, <1>9, TimerAssumption, SlotInDay DEF Regular, Kinds
    <3>5. DueAt("daily", Today) <= DueAt(running.kind, Today)
        BY <3>3, <3>4, <1>6, Now, SlotInDay DEF Kinds
    <3>6. QED
        BY <3>2, <3>3, <3>4, <3>5, <1>1, <1>2, <1>6 DEF Kinds
  <2>2. running'.kind = "daily" => running'.since = DueAt("daily", Today')
      BY <1>4, <1>6 DEF Steady, DailyFirst, Free, NoJob
  <2>3. QED
      BY <2>1, <2>2 DEF DailyFirst, WaitsFor
<1>14. InTime'
  <2>1. SUFFICES ASSUME NEW k \in Kinds, Active(k)'
                 PROVE  (Busy + Outstanding)' <= DueAt(k, Today') + 3 * JobSlots
      BY DEF InTime, Active
  <2>2. \A j \in Kinds : Share(j)' \in {0, JobSlots}
      BY DEF Share
  <2>3. CASE Free
    <3>1. now' = DueAt(k, Today')
        BY <2>1, <2>3, <1>2, <1>8, <1>9
    <3>2. Busy' = now'
        BY <2>3, <1>4 DEF Busy
    <3>3. QED
        BY <3>1, <3>2, <2>2, <1>2, Lengths DEF Outstanding, Kinds
  <2>4. CASE ~Free
    <3>1. Busy' = Busy /\ Busy = running.since + JobSlots
        BY <2>4, <1>4 DEF Busy
    <3>2. \A j \in Kinds : Share(j)' <= Share(j)
      <4>1. ASSUME NEW j \in Kinds, Share(j)' = JobSlots PROVE Share(j) = JobSlots
        <5>1. now' < DueAt(j, Today') \/ WaitsFor(j)'
            BY <4>1, Lengths DEF Share
        <5>2. now < DueAt(j, Today) \/ WaitsFor(j)
            BY <5>1, <2>4, <1>1, <1>2, <1>6
        <5>3. QED
            BY <5>2 DEF Share
      <4>2. QED
          BY <4>1, <2>2, Shares, Lengths
    <3>3. CASE Active(k)
      <4>1. Busy + Outstanding <= DueAt(k, Today) + 3 * JobSlots
          BY <3>3 DEF Steady, InTime
      <4>2. Outstanding' <= Outstanding
          BY <3>2, <2>2, Shares, Lengths DEF Outstanding, Kinds
      <4>3. Outstanding' \in Nat
          BY <2>2, Lengths DEF Outstanding, Kinds
      <4>4. QED
          BY <4>1, <4>2, <4>3, <3>1, <2>4, <1>2, <1>6, Shares, Lengths
    <3>4. CASE ~Active(k)
      <4>1. now' = DueAt(k, Today')
          BY <3>4, <2>1, <1>2, <1>8
      <4>2. Share(running.kind)' = 0
          BY <2>4, <1>1, <1>6, <1>9, <1>12, <1>4, <1>2 DEF RunningToday, Share
      <4>3. Outstanding' <= 2 * JobSlots /\ Outstanding' \in Nat
        <5>1. ASSUME NEW j \in Kinds, Share(j)' = 0
              PROVE  Outstanding' <= 2 * JobSlots /\ Outstanding' \in Nat
            BY <5>1, <2>2, Lengths DEF Outstanding, Kinds
        <5>2. QED
            BY <5>1, <4>2, <2>4, <1>4, <1>6 DEF Share, WaitsFor
      <4>4. Busy <= now' + JobSlots /\ Busy \in Nat
          BY <3>1, <2>4, <1>1, <1>6, Lengths DEF Steady, Typed
      <4>5. QED
          BY <4>1, <4>3, <4>4, <3>1, <1>1, Lengths
    <3>5. QED
        BY <3>3, <3>4
  <2>5. QED
      BY <2>3, <2>4
<1>15. Archives'
  <2>1. SUFFICES ASSUME NEW d \in Days, DueAt("daily", d) <= now',
                        ~(d = Today' /\ Active("daily")')
                 PROVE  RunOver(d)
      BY <1>4 DEF Archives, Active, RunOver
  <2>2. d \in Nat /\ DueAt("daily", d) \in Nat
      BY DueAtIsNat, Lengths DEF Days, Kinds
  <2>3. CASE DueAt("daily", d) <= now
      BY <2>1, <2>3, <1>8, <1>9 DEF Steady, Archives, Kinds
  <2>4. CASE DueAt("daily", d) = now'
    <3>1. Today' = d
        BY <2>2, <2>4, <1>1, DueThatDay, DayIs DEF Kinds, Today
    <3>2. Due("daily", now')
        BY <3>1, <2>4, <1>2 DEF Kinds, DueOn
    <3>3. QED
        BY <3>1, <3>2, <2>1, <1>8 DEF Kinds
  <2>5. QED
      BY <2>1, <2>2, <2>3, <2>4, <1>1
<1>16. WeeksHandled'
  <2>1. SUFFICES ASSUME NEW p \in 0..(MaxDay \div DaysPerWeek - 1),
                        DueAt("weekly", First("weekly", p + 1)) <= now'
                 PROVE  WeekReported(p) \/ (First("weekly", p + 1) = Today' /\ Active("weekly")')
      BY <1>4 DEF WeeksHandled, WeekReported, Active
  <2> DEFINE d == First("weekly", p + 1)
  <2>2. p + 1 \in Nat /\ d \in Nat /\ d % DaysPerWeek = 0
      BY Multiple, Lengths DEF First, Length
  <2>3. DueAt("weekly", d) \in Nat
      BY <2>2, DueAtIsNat DEF Kinds
  <2> HIDE DEF d
  <2>4. CASE DueAt("weekly", d) <= now
      BY <2>1, <2>4, <1>8, <1>9 DEF Steady, WeeksHandled, WeekReported, Kinds, d
  <2>5. CASE DueAt("weekly", d) = now'
    <3>1. Today' = d
        BY <2>2, <2>5, <1>1, DueThatDay, DayIs DEF Kinds, Today
    <3>2. Due("weekly", now')
        BY <3>1, <2>2, <2>5, <1>2 DEF Kinds, DueOn
    <3>3. QED
        BY <3>1, <3>2, <1>8 DEF Kinds, d
  <2>6. QED
      BY <2>1, <2>3, <2>4, <2>5, <1>1 DEF d
<1>17. Complete("weekly")' /\ Complete("monthly")'
    BY <1>4 DEF Steady, Complete
<1>18. QED
    BY <1>10, <1>11, <1>12, <1>13, <1>14, <1>15, <1>16, <1>17 DEF Steady

-----------------------------------------------------------------------------
(* The lock changes hands. *)

LEMMA AcquireSteady ==
    ASSUME Steady, Regular, NEW w \in waiting, Acquire(w)
    PROVE  Steady'
<1>1. /\ Free /\ now \in Nat /\ Today \in Nat
      /\ w.kind \in Kinds /\ w \in [kind : Kinds, since : Nat]
      /\ w.since = DueAt(w.kind, Today) /\ w.since <= now /\ DueOn(w.kind, Today)
    BY Now DEF Acquire, Steady, Typed, WaitingToday
<1>2. /\ running' = [kind |-> w.kind, since |-> now, date |-> Today]
      /\ waiting' = waiting \ {w} /\ UNCHANGED <<now, up, made, failed, reports>> /\ Today' = Today
    BY DEF Acquire, Today
<1>3. ~Free' /\ running'.kind = w.kind
    BY <1>1, <1>2 DEF Free, NoJob, Kinds
<1>4. \A j \in Kinds : WaitsFor(j)' <=> WaitsFor(j) /\ j # w.kind
  <2>1. \A v \in waiting : v.kind = w.kind => v = w
      BY <1>1 DEF Steady, Typed, WaitingToday
  <2>2. QED
      BY <2>1, <1>2 DEF WaitsFor
<1>5. \A j \in Kinds : Active(j)' <=> Active(j)
    BY <1>1, <1>2, <1>4 DEF Active, WaitsFor, Free, NoJob, Kinds
<1>6. Typed'
  <2>1. running' \in [kind : Kinds \cup {"none"}, since : Nat, date : Nat]
      BY <1>1, <1>2
  <2>2. waiting' \subseteq [kind : Kinds, since : Nat] /\ running'.kind # "none"
      BY <1>1, <1>2 DEF Steady, Typed, Kinds
  <2>3. QED
      BY <2>1, <2>2, <1>2 DEF Steady, Typed
<1>7. WaitingToday'
    BY <1>2 DEF Steady, WaitingToday
<1>8. RunningToday'
    BY <1>1, <1>2, <1>3, <1>4, Lengths DEF RunningToday, WaitsFor
<1>9. DailyFirst'
  <2>1. ASSUME WaitsFor("daily") PROVE w.kind = "daily"
    <3>1. now = DueAt("daily", Today)
        BY <2>1 DEF Steady, DailyFirst
    <3>2. SlotOf[w.kind] <= SlotOf["daily"]
        BY <3>1, <1>1, Now, SlotInDay DEF Kinds
    <3>3. QED
        BY <3>2, <1>1, TimerAssumption, SlotInDay DEF Regular, Kinds
  <2>2. ~WaitsFor("daily")'
      BY <2>1, <1>4 DEF Kinds
  <2>3. w.kind = "daily" => now = DueAt("daily", Today)
      BY <1>1 DEF Steady, DailyFirst, WaitsFor
  <2>4. QED
      BY <2>2, <2>3, <1>2 DEF DailyFirst, WaitsFor
<1>10. InTime'
  <2>1. \A j \in Kinds : j # w.kind => Share(j)' = Share(j)
      BY <1>2, <1>4 DEF Share, WaitsFor
  <2>2. Share(w.kind) = JobSlots /\ Share(w.kind)' = 0
    <3>1. Share(w.kind) = JobSlots
        BY DEF Share, WaitsFor
    <3>2. ~WaitsFor(w.kind)'
        BY <1>1, <1>2, <1>4 DEF WaitsFor
    <3>3. ~(now < DueAt(w.kind, Today))
        BY <1>1
    <3>4. QED
        BY <3>1, <3>2, <3>3, <1>2 DEF Share, WaitsFor
  <2>3. Outstanding' + JobSlots = Outstanding
    <3>1. \A j \in Kinds : Share(j) \in {0, JobSlots}
        BY Shares
    <3>2. CASE w.kind = "daily"
        BY <3>1, <3>2, <2>1, <2>2, Lengths DEF Outstanding, Kinds
    <3>3. CASE w.kind = "weekly"
        BY <3>1, <3>3, <2>1, <2>2, Lengths DEF Outstanding, Kinds
    <3>4. CASE w.kind = "monthly"
        BY <3>1, <3>4, <2>1, <2>2, Lengths DEF Outstanding, Kinds
    <3>5. QED
        BY <1>1, <3>2, <3>3, <3>4 DEF Kinds
  <2>4. Busy = now /\ Busy' = now + JobSlots
      BY <1>1, <1>2, <1>3 DEF Busy
  <2>5. Outstanding' \in Nat
    <3>1. \A j \in Kinds : Share(j)' \in {0, JobSlots}
        BY DEF Share
    <3>2. QED
        BY <3>1, Lengths DEF Outstanding, Kinds
  <2>6. Busy' + Outstanding' = Busy + Outstanding
      BY <2>3, <2>4, <2>5, <1>1, Lengths
  <2>7. QED
      BY <2>6, <1>2, <1>5 DEF Steady, InTime, Active
<1>11. Archives'
    BY <1>2, <1>5 DEF Steady, Archives, RunOver, Active, Kinds
<1>12. WeeksHandled'
    BY <1>2, <1>5 DEF Steady, WeeksHandled, WeekReported, Active, Kinds
<1>13. Complete("weekly")' /\ Complete("monthly")'
    BY <1>2 DEF Steady, Complete
<1>14. QED
    BY <1>6, <1>7, <1>8, <1>9, <1>10, <1>11, <1>12, <1>13 DEF Steady

(* Nobody waits for the lock as long as flock lets him. *)
LEMMA NoneGivesUp ==
    ASSUME Steady, Regular, NEW w \in waiting
    PROVE  ~Expired(w)
<1>1. /\ w.kind \in Kinds /\ w.since = DueAt(w.kind, Today) /\ now \in Nat
      /\ WaitsFor(w.kind) /\ Active(w.kind) /\ w.since \in Nat
    BY Now DEF Steady, Typed, WaitingToday, WaitsFor, Active
<1>2. now <= DueAt(w.kind, Today) + 2 * JobSlots
    BY <1>1, OnTime
<1>3. QED
    BY <1>1, <1>2, TimerAssumption, Lengths DEF Expired, Regular

(* What a job that ends leaves as it was. *)
LEMMA JobEnds ==
    ASSUME Steady, Regular, ~Free, running' = NoJob, UNCHANGED <<now, up, waiting>>
    PROVE  /\ WaitingToday' /\ RunningToday' /\ DailyFirst' /\ InTime'
           /\ Today' = Today
           /\ \A j \in Kinds : Active(j)' <=> Active(j) /\ j # running.kind
<1>1. Free' /\ Today' = Today
    BY DEF Free, Today
<1>2. \A j \in Kinds : WaitsFor(j)' <=> WaitsFor(j)
    BY DEF WaitsFor
<1>3. ~WaitsFor(running.kind)
    BY DEF Steady, RunningToday
<1>4. \A j \in Kinds : Active(j)' <=> Active(j) /\ j # running.kind
    BY <1>3 DEF Active, WaitsFor, NoJob, Kinds
<1>5. WaitingToday' /\ RunningToday'
    BY <1>1 DEF Steady, WaitingToday, RunningToday
<1>6. DailyFirst'
    BY <1>1, <1>2 DEF Steady, DailyFirst, WaitsFor, NoJob, Kinds
<1>7. InTime'
  <2>1. Outstanding' = Outstanding
      BY <1>1, <1>2 DEF Outstanding, Share, WaitsFor, Kinds
  <2>2. Busy' = now /\ now <= Busy
      BY <1>1, Shares DEF Busy
  <2>3. \A k \in Kinds : DueAt(k, Today) \in Nat
      BY Now, DueAtIsNat
  <2>4. \A k \in Kinds : Active(k) => now + Outstanding <= DueAt(k, Today) + 3 * JobSlots
      BY <2>2, <2>3, Now, Shares, Lengths DEF Steady, InTime
  <2>5. QED
      BY <2>1, <2>2, <2>4, <1>1, <1>4 DEF InTime, Active
<1>8. QED
    BY <1>1, <1>4, <1>5, <1>6, <1>7

LEMMA DailySteady ==
    ASSUME Steady, Regular, FinishDaily \/ DailyFails
    PROVE  Steady'
<1>1. running.kind = "daily" /\ ~Free /\ running' = NoJob /\ UNCHANGED <<now, up, waiting, reports>>
    BY DEF FinishDaily, DailyFails, Free, NoJob
<1>2. running.date = Today /\ running.since = DueAt("daily", Today) /\ Today \in Days
    BY <1>1, Now DEF Steady, RunningToday, DailyFirst
<1>3. \/ made' = [made EXCEPT ![Today] = DueAt("daily", Today)] /\ UNCHANGED failed
      \/ failed' = failed \cup {DueAt("daily", Today)} /\ UNCHANGED made
    BY <1>2 DEF FinishDaily, DailyFails
<1>4. /\ WaitingToday' /\ RunningToday' /\ DailyFirst' /\ InTime' /\ Today' = Today
      /\ \A j \in Kinds : Active(j)' <=> Active(j) /\ j # running.kind
    BY <1>1, JobEnds
<1>5. Typed'
  <2>1. DueAt("daily", Today) \in Nat
      BY Now, DueAtIsNat DEF Kinds
  <2>2. made' \in [Days -> Nat \cup {Never}]
      BY <1>3, <2>1 DEF Steady, Typed
  <2>3. QED
      BY <1>1, <2>2 DEF Steady, Typed, Free, NoJob
<1>6. Archives'
  <2>1. SUFFICES ASSUME NEW d \in Days, DueAt("daily", d) <= now PROVE RunOver(d)'
      BY <1>1 DEF Archives
  <2>2. CASE d = Today
      BY <1>2, <1>3, <2>2 DEF Steady, Typed, RunOver
  <2>3. CASE d # Today
    <3>1. RunOver(d)
        BY <2>1, <2>3 DEF Steady, Archives
    <3>2. QED
        BY <1>3, <2>3, <3>1 DEF Steady, Typed, RunOver
  <2>4. QED
      BY <2>2, <2>3
<1>7. WeeksHandled'
    BY <1>1, <1>4 DEF Steady, WeeksHandled, WeekReported, Active, Kinds
<1>8. Complete("weekly")' /\ Complete("monthly")'
    BY <1>1 DEF Steady, Complete
<1>9. QED
    BY <1>4, <1>5, <1>6, <1>7, <1>8 DEF Steady

-----------------------------------------------------------------------------
(* What a report finds. *)

LEMMA PeriodEnds ==
    ASSUME NEW k \in {"weekly", "monthly"}, NEW d \in Nat, DueOn(k, d), Period(k, d) >= 0
    PROVE  /\ Period(k, d) \in Nat /\ First(k, Period(k, d)) \in Nat
           /\ Last(k, Period(k, d)) + 1 = d
<1> DEFINE n == Length(k)
           p == Period(k, d)
           q == d \div n
<1>1. n \in Nat \ {0} /\ d % n = 0
    BY Lengths DEF Length, DueOn
<1>2. q \in Nat /\ d = q * n
    BY <1>1, Divides
<1>3. p = q - 1
  <2>1. CASE k = "weekly"
    <3>1. p = (d - 1) \div n /\ p >= 0
        BY <2>1 DEF Period, Length
    <3>2. q # 0
      <4>1. SUFFICES ASSUME q = 0 PROVE FALSE
          OBVIOUS
      <4>2. d = 0
          BY <4>1, <1>1, <1>2
      <4>3. QED
          BY <4>2, <3>1, <1>1
    <3>3. q - 1 \in Nat /\ d = ((q - 1) + 1) * n
        BY <3>2, <1>2
    <3>4. (d - 1) \div n = q - 1
        BY <3>3, <1>1, Predecessor
    <3>5. QED
        BY <3>1, <3>4
  <2>2. CASE k = "monthly"
      BY <2>2 DEF Period, Length
  <2>3. QED
      BY <2>1, <2>2
<1>4. p \in Nat
    BY <1>2, <1>3
<1>5. First(k, p) = p * n /\ Last(k, p) + 1 = p * n + n /\ p * n \in Nat
    BY <1>1, <1>4, Multiple DEF First, Last
<1>6. p * n + n = q * n
    BY <1>1, <1>2, <1>3
<1>7. QED
    BY <1>1, <1>2, <1>4, <1>5, <1>6

(* Every slot of the period is in the window of the run of its own day, or   *)
(* of the day after it, which made an archive or failed.                     *)
LEMMA FullyCovered ==
    ASSUME Steady, Regular, NEW k \in {"weekly", "monthly"}, running.kind = k,
           Period(k, Today) >= 0
    PROVE  Covered(k, Period(k, Today))
<1> DEFINE p == Period(k, Today)
<1>1. k \in Kinds /\ ~Free /\ Active(k)
    BY DEF Kinds, Free, NoJob, Active
<1>2. /\ Today \in Nat /\ Today \in Days /\ now \in Nat /\ Start(Today) \in Nat
      /\ \A j \in Kinds : DueAt(j, Today) = Start(Today) + SlotOf[j]
    BY Now
<1>3. DueAt(k, Today) <= now /\ DueOn(k, Today)
    BY <1>1, AtHand
<1>4. p \in Nat /\ First(k, p) \in Nat /\ Last(k, p) + 1 = Today
    BY <1>2, <1>3, PeriodEnds
<1>5. ~Active("daily") /\ DueAt("daily", Today) <= now
  <2>1. SlotOf["daily"] < SlotOf[k]
      BY TimerAssumption DEF Regular
  <2>2. DueAt("daily", Today) <= now
      BY <2>1, <1>1, <1>2, <1>3, SlotInDay DEF Kinds
  <2>3. QED
      BY <2>2, <1>1 DEF Steady, DailyFirst, Active, WaitsFor
<1>6. \A d \in Nat : d <= Today => d \in Days /\ RunOver(d)
  <2>1. SUFFICES ASSUME NEW d \in Nat, d <= Today
                 PROVE  d \in Days /\ RunOver(d)
      OBVIOUS
  <2>2. d \in Days
      BY <1>2, <2>1, Lengths DEF Days
  <2>3. DueAt("daily", d) <= now
    <3>1. CASE d = Today
        BY <3>1, <1>5
    <3>2. CASE d < Today
      <4>1. Start(d) + SlotsPerDay <= Start(Today) /\ Start(Today) <= now
          BY <3>2, <1>2, StartOrder, Now
      <4>2. DueAt("daily", d) < Start(d) + SlotsPerDay /\ DueAt("daily", d) \in Nat /\ Start(d) \in Nat
          BY DueThatDay, DueAtIsNat, StartIsNat DEF Kinds
      <4>3. QED
          BY <4>1, <4>2, <1>2, Lengths
    <3>3. QED
        BY <2>1, <1>2, <3>1, <3>2
  <2>4. QED
      BY <2>2, <2>3, <1>5 DEF Steady, Archives
<1> HIDE DEF p
<1>7. ASSUME NEW t \in Slots(k, p) PROVE Archived(t, Scanned(k, p)) \/ Lost(t)
  <2> DEFINE d == Day(t)
  <2>1. t \in Nat /\ Start(First(k, p)) <= t /\ t < Start(Today)
    <3>1. Start(First(k, p)) \in Nat
        BY <1>4, StartIsNat
    <3>2. t \in Start(First(k, p))..Start(Today) - 1
        BY <1>4 DEF Slots, Start
    <3>3. QED
        BY <3>1, <3>2, <1>2
  <2>2. /\ d \in Nat /\ Start(d) \in Nat /\ Start(d + 1) = Start(d) + SlotsPerDay
        /\ Start(d) <= t /\ t < Start(d) + SlotsPerDay
    <3>1. d \in Nat /\ t % SlotsPerDay \in 0..SlotsPerDay - 1 /\ t = Start(d) + (t % SlotsPerDay)
        BY <2>1, DayOf
    <3> HIDE DEF d
    <3>2. Start(d) \in Nat /\ Start(d + 1) = Start(d) + SlotsPerDay
        BY <3>1, StartIsNat, StartNext
    <3>3. QED
        BY <3>1, <3>2, <2>1, Lengths
  <2> HIDE DEF d
  <2>3. First(k, p) <= d
    <3>1. SUFFICES ASSUME d < First(k, p) PROVE FALSE
        BY <2>2, <1>4
    <3>2. Start(d) + SlotsPerDay <= Start(First(k, p))
        BY <3>1, <2>2, <1>4, StartOrder
    <3>3. QED
        BY <3>2, <2>1, <2>2, <1>4, StartIsNat, Lengths
  <2>4. d < Today
    <3>1. SUFFICES ASSUME Today < d \/ Today = d PROVE FALSE
        BY <2>2, <1>2
    <3>2. Start(Today) <= Start(d)
        BY <3>1, <2>2, <1>2, StartOrder, Lengths
    <3>3. QED
        BY <3>2, <2>1, <2>2, <1>2
  <2>5. SlotOf["daily"] \in Nat /\ SlotOf["daily"] < SlotsPerDay
      BY SlotInDay DEF Kinds
  <2>6. /\ DueAt("daily", d) = Start(d) + SlotOf["daily"]
        /\ DueAt("daily", d + 1) = Start(d) + SlotsPerDay + SlotOf["daily"]
      BY <2>2 DEF DueAt
  <2>7. PICK e \in {d, d + 1} : LooksBackOn(DueAt("daily", e), t)
    <3>1. CASE t < DueAt("daily", d)
        BY <3>1, <2>1, <2>2, <2>5, <2>6, Lengths DEF LooksBackOn
    <3>2. CASE ~(t < DueAt("daily", d))
        BY <3>2, <2>1, <2>2, <2>5, <2>6, Lengths DEF LooksBackOn
    <3>3. QED
        BY <3>1, <3>2
  <2>8. e \in Nat /\ First(k, p) <= e /\ e <= Last(k, p) + 1 /\ e <= Today
      BY <2>2, <2>3, <2>4, <2>7, <1>2, <1>4
  <2>9. e \in Days /\ RunOver(e)
      BY <2>8, <1>6
  <2>10. CASE made[e] = DueAt("daily", e)
    <3>1. DueAt("daily", e) \in Nat
        BY <2>8, DueAtIsNat DEF Kinds
    <3>2. e \in Scanned(k, p)
        BY <3>1, <2>8, <2>9, <2>10 DEF Scanned, Never
    <3>3. QED
        BY <3>2, <2>7, <2>10 DEF Archived
  <2>11. CASE DueAt("daily", e) \in failed
      BY <2>7, <2>11 DEF Lost
  <2>12. QED
      BY <2>9, <2>10, <2>11 DEF RunOver
<1>8. QED
    BY <1>7 DEF Covered, p

LEMMA ReportSteady ==
    ASSUME Steady, Regular, FinishReport
    PROVE  Steady'
<1> DEFINE kind == running.kind
           p == Period(kind, running.date)
           r == [kind |-> kind, period |-> p, date |-> running.date, covered |-> Covered(kind, p)]
<1>1. /\ kind \in {"weekly", "monthly"} /\ ~Free /\ running' = NoJob
      /\ reports' = reports \cup {r} /\ UNCHANGED <<now, up, waiting, made, failed>>
    BY DEF FinishReport, Free, NoJob
<1>2. running.date = Today /\ Today \in Nat
    BY <1>1, Now DEF Steady, RunningToday
<1>3. /\ WaitingToday' /\ RunningToday' /\ DailyFirst' /\ InTime' /\ Today' = Today
      /\ \A j \in Kinds : Active(j)' <=> Active(j) /\ j # running.kind
    BY <1>1, JobEnds
<1>4. Typed'
    BY <1>1 DEF Steady, Typed, Free, NoJob
<1>5. Archives'
    BY <1>1, <1>3 DEF Steady, Archives, RunOver, Active, Kinds
<1>6. WeeksHandled'
  <2>1. SUFFICES ASSUME NEW q \in 0..(MaxDay \div DaysPerWeek - 1),
                        DueAt("weekly", First("weekly", q + 1)) <= now
                 PROVE  WeekReported(q)' \/ (First("weekly", q + 1) = Today /\ Active("weekly")')
      BY <1>1, <1>3 DEF WeeksHandled, WeekReported, Active
  <2>2. CASE WeekReported(q)
      BY <2>2, <1>1 DEF WeekReported
  <2>3. CASE First("weekly", q + 1) = Today /\ Active("weekly") /\ kind # "weekly"
      BY <2>3, <1>3 DEF Kinds
  <2>4. CASE First("weekly", q + 1) = Today /\ kind = "weekly"
    <3>1. q \in Nat /\ Today = (q + 1) * DaysPerWeek
        BY <2>4 DEF First, Length
    <3>2. (Today - 1) \div DaysPerWeek = q
        BY <3>1, Predecessor, Lengths
    <3>3. r.kind = "weekly" /\ r.period = q
        BY <3>2, <2>4, <1>2 DEF Period
    <3>4. QED
        BY <3>3, <1>1 DEF WeekReported
  <2>5. QED
      BY <2>1, <2>2, <2>3, <2>4 DEF Steady, WeeksHandled
<1>7. Complete("weekly")' /\ Complete("monthly")'
  <2>1. r.period >= 0 => r.covered
      BY <1>1, <1>2, FullyCovered
  <2> HIDE DEF r
  <2>2. QED
      BY <1>1, <2>1 DEF Steady, Complete
<1>8. QED
    BY <1>3, <1>4, <1>5, <1>6, <1>7 DEF Steady

-----------------------------------------------------------------------------

LEMMA InitInv == Regular /\ Init => IInv
<1> SUFFICES ASSUME Regular, Init PROVE Steady
    BY DEF IInv, Init
<1>1. now = 0 /\ Free /\ made = [d \in Days |-> Never] /\ reports = {} /\ up = TRUE
    BY DEF Init, Free
<1>2. Today = 0 /\ Start(0) = 0
    BY <1>1, Lengths DEF Today, Day, Start
<1>3. \A k \in Kinds : Due(k, 0) <=> DueAt(k, 0) = 0 /\ DueOn(k, 0)
    BY <1>2, <1>1, DueMeans DEF Today
<1>4. waiting = Queue(Fired(0), 0)
    BY DEF Init
<1>5. \A w \in waiting : \E k \in Kinds : w = [kind |-> k, since |-> 0] /\ Due(k, 0)
    BY <1>4 DEF Queue, Fired
<1>6. \A k \in Kinds : DueAt(k, 0) = SlotOf[k] /\ SlotOf[k] \in Nat
    BY <1>2, SlotInDay DEF DueAt
<1>7. \A k \in Kinds : Active(k) <=> WaitsFor(k)
    BY <1>1 DEF Active, WaitsFor, Free, NoJob, Kinds
<1>8. ASSUME NEW k \in Kinds PROVE WaitsFor(k) <=> Due(k, 0)
  <2>1. Due(k, 0) => [kind |-> k, since |-> 0] \in waiting
      BY <1>4 DEF Queue, Fired
  <2>2. WaitsFor(k) => Due(k, 0)
      BY <1>5 DEF WaitsFor
  <2>3. QED
      BY <2>1, <2>2 DEF WaitsFor
<1>9. Typed
  <2>1. 0 \in 0..MaxDay * SlotsPerDay
      BY StartIsNat, Lengths DEF Start
  <2>2. QED
      BY <1>1, <1>5, <2>1 DEF Typed, Free, NoJob, Never
<1>10. WaitingToday /\ RunningToday /\ DailyFirst
    BY <1>1, <1>2, <1>3, <1>5, <1>8
       DEF WaitingToday, RunningToday, DailyFirst, Free, NoJob, Kinds
<1>11. InTime
  <2>1. \A k \in Kinds : Share(k) \in {0, JobSlots}
      BY DEF Share
  <2>2. Busy = 0 /\ Outstanding <= 3 * JobSlots /\ Outstanding \in Nat
      BY <1>1, <2>1, Lengths DEF Busy, Outstanding, Kinds
  <2>3. QED
      BY <2>2, <1>2, <1>6, Lengths DEF InTime
<1>12. Archives
  <2>1. ASSUME NEW d \in Days, DueAt("daily", d) <= 0 PROVE d = 0 /\ Active("daily")
    <3>1. d \in Nat /\ Start(d) <= 0 /\ Start(d) \in Nat /\ SlotOf["daily"] = 0
        BY <2>1, SlotInDay, StartIsNat, Lengths DEF Days, DueAt, Kinds
    <3>2. d = 0
        BY <3>1, <1>2, DayIs, Lengths DEF Day
    <3>3. QED
        BY <3>1, <3>2, <1>3, <1>6, <1>7, <1>8 DEF Kinds, DueOn
  <2>2. QED
      BY <2>1, <1>1, <1>2 DEF Archives
<1>13. WeeksHandled
  <2>1. SUFFICES ASSUME NEW p \in 0..(MaxDay \div DaysPerWeek - 1),
                        DueAt("weekly", First("weekly", p + 1)) <= now
                 PROVE  FALSE
      BY DEF WeeksHandled
  <2>2. p + 1 \in Nat /\ First("weekly", p + 1) \in Nat /\ 0 < First("weekly", p + 1)
    <3>1. First("weekly", p + 1) = p * DaysPerWeek + DaysPerWeek /\ p * DaysPerWeek \in Nat
        BY Lengths, Multiple DEF First, Length
    <3>2. QED
        BY <3>1, Lengths
  <2>3. Start(0) + SlotsPerDay <= Start(First("weekly", p + 1))
      BY <2>2, StartOrder
  <2>4. QED
      BY <2>1, <2>2, <2>3, <1>1, <1>2, SlotInDay, StartIsNat, Lengths DEF DueAt, Kinds
<1>14. Complete("weekly") /\ Complete("monthly")
    BY <1>1 DEF Complete
<1>15. QED
    BY <1>9, <1>10, <1>11, <1>12, <1>13, <1>14 DEF Steady

LEMMA StepInv == Regular /\ IInv /\ [Next]_vars => IInv'
<1> SUFFICES ASSUME Regular, IInv, [Next]_vars PROVE IInv'
    OBVIOUS
<1>1. outages' = outages \/ (outages' = outages + 1 /\ outages \in Nat)
    BY DEF IInv, Next, vars, Tick, Acquire, GiveUp, FinishDaily, DailyFails, FinishReport, PowerOff, Boot,
           CalendarEnds
<1>2. SUFFICES ASSUME outages = 0, outages' = 0, Steady PROVE Steady'
    BY <1>1 DEF IInv
<1>3. CASE Tick
    BY <1>2, <1>3, TickSteady
<1>4. ASSUME NEW w \in waiting, Acquire(w) PROVE Steady'
    BY <1>2, <1>4, AcquireSteady
<1>5. ASSUME NEW w \in waiting, GiveUp(w) PROVE Steady'
    BY <1>2, <1>5, NoneGivesUp DEF GiveUp
<1>6. CASE FinishDaily \/ DailyFails
    BY <1>2, <1>6, DailySteady
<1>7. CASE FinishReport
    BY <1>2, <1>7, ReportSteady
<1>8. CASE PowerOff
    BY <1>2, <1>8 DEF PowerOff
<1>9. CASE Boot
    BY <1>2, <1>9 DEF Boot, Steady, Typed
<1>10. CASE UNCHANGED vars
    BY <1>2, <1>10 DEF vars, Steady, Typed, WaitingToday, RunningToday, DailyFirst, InTime,
       Archives, RunOver, WeeksHandled, WeekReported, Complete, Today, WaitsFor, Active, Busy, Free,
       Outstanding, Share
<1>11. QED
    BY <1>3, <1>4, <1>5, <1>6, <1>7, <1>8, <1>9, <1>10 DEF Next, CalendarEnds

LEMMA Inductive == ASSUME Regular PROVE Spec => []IInv
<1>1. Init => IInv
    BY InitInv
<1>2. IInv /\ [Next]_vars => IInv'
    BY StepInv
<1>3. QED
    BY <1>1, <1>2, PTL DEF Spec

(* As long as the host of the systemd timers stays up, every hour of a week  *)
(* or a month is in one of the archives that the report on it scans          *)
(* (aggregator.py) or was lost with a daily run that failed, whatever the    *)
(* slots of the timers, as long as they are in that order and leave room for *)
(* the jobs, and however many runs fail.                                     *)
THEOREM TimersComplete == ASSUME Scheduler = "systemd" PROVE Spec => []ReportsComplete
<1>1. IInv => ReportsComplete
    BY DEF IInv, ReportsComplete, Steady
<1>2. QED
    BY <1>1, Inductive, PTL DEF Regular

(* On such a host no week is left without its report for longer than flock   *)
(* waits and a job takes (daily-paper-report-weekly.service).                *)
THEOREM TimersInTime == ASSUME Scheduler = "systemd" PROVE Spec => []ReportedInTime
<1>1. ASSUME Regular, IInv PROVE ReportedInTime
  <2>1. SUFFICES ASSUME Steady, NEW p \in 0..(MaxDay \div DaysPerWeek - 1),
                        now > First("weekly", p + 1) * SlotsPerDay + SlotOf["weekly"]
                                + LockWait + JobSlots
                 PROVE  WeekReported(p)
      BY <1>1 DEF IInv, ReportedInTime, WeekReported
  <2> DEFINE d == First("weekly", p + 1)
  <2>2. p + 1 \in Nat /\ d \in Nat
      BY Multiple, Lengths DEF First, Length
  <2>3. DueAt("weekly", d) \in Nat /\ now > DueAt("weekly", d) + LockWait + JobSlots
      BY <2>1, <2>2, DueAtIsNat DEF DueAt, Start, Kinds
  <2> HIDE DEF d
  <2>4. DueAt("weekly", d) <= now
      BY <2>3, <2>1, Now, Lengths
  <2>5. ASSUME d = Today, Active("weekly") PROVE FALSE
    <3>1. now <= DueAt("weekly", d) + 3 * JobSlots
        BY <2>1, <2>5, <1>1, OnTime DEF Kinds
    <3>2. QED
        BY <3>1, <2>1, <2>3, <1>1, Now, TimerAssumption, Lengths DEF Regular
  <2>6. QED
      BY <2>1, <2>4, <2>5 DEF Steady, WeeksHandled, d
<1>2. QED
    BY <1>1, Inductive, PTL DEF Regular
=============================================================================
