------------------------------ MODULE SiteProofs ------------------------------
(***************************************************************************)
(* Proofs about Site: what is published is navigable, saved and never      *)
(* older, for every calendar, retention and number of faults.              *)
(***************************************************************************)
EXTENDS Site, SequenceTheorems, TLAPS

(* Where a job that renders is heading, and what it has written by then. *)
Aim ==
    /\ daily.date <= today
    /\ job.pc \in {"archive", "daily", "page", "prune"} =>
         job.todo # <<>> /\ daily.date <= Head(job.todo) /\ Head(job.todo) <= today
    /\ job.pc = "placeholder" => job.todo # <<>>
    /\ job.pc = "daily" => day[Head(job.todo)] # 0
    /\ daily.date # 0 => day[daily.date] # 0

(* What prepare-public.py has put in order, step by step. *)
Prepared ==
    /\ job.pc \in {"reread", "rewrite", "state", "pages"} =>
         \A d \in Archived : page[d] = "route"
    /\ job.pc = "rewrite" => daily.date # 0
    /\ job.pc \in {"state", "pages"} =>
         daily.date # 0 /\ daily.whole /\ daily.dates = Archived

(* The site is behind the state branch, the state branch behind the disk. *)
Behind ==
    /\ site.daily.date <= daily.date
    /\ \A d \in Dates : site.day[d] <= snapshot[d] /\ snapshot[d] <= day[d]
    /\ job.pc = "pages" => snapshot = day

IInv == TypeOK /\ Aim /\ Prepared /\ Behind /\ SiteNavigable

LEMMA Targets ==
    ASSUME TypeOK
    PROVE /\ job.todo \in Seq(Dates)
          /\ job.todo # <<>> =>
               /\ Target \in Dates /\ Target <= today
               /\ Tail(job.todo) \in Seq(Dates)
               /\ \A i \in 1..Len(Tail(job.todo)) : Tail(job.todo)[i] <= today
<1>1. job.todo \in Seq(Dates) /\ \A i \in 1..Len(job.todo) : job.todo[i] <= today
    BY DEF TypeOK, Jobs
<1>2. ASSUME job.todo # <<>>
      PROVE  Target \in Dates /\ Target <= today
    BY <1>1, <1>2, HeadTailProperties, EmptySeq DEF Target
<1>3. ASSUME job.todo # <<>>
      PROVE  /\ Tail(job.todo) \in Seq(Dates)
             /\ \A i \in 1..Len(Tail(job.todo)) : Tail(job.todo)[i] <= today
  <2>1. /\ Tail(job.todo) \in Seq(Dates) /\ Len(Tail(job.todo)) = Len(job.todo) - 1
        /\ \A i \in 1..Len(Tail(job.todo)) : Tail(job.todo)[i] = job.todo[i + 1]
      BY <1>1, <1>3, HeadTailProperties
  <2>2. Len(job.todo) \in Nat
      BY <1>1, LenProperties
  <2>3. QED
      BY <1>1, <2>1, <2>2
<1>4. QED
    BY <1>1, <1>2, <1>3

LEMMA Spans ==
    ASSUME NEW first \in 1..today, NEW last \in 1..today, first <= last, today \in Dates
    PROVE /\ Span(first, last) \in Seq(Dates)
          /\ \A i \in 1..Len(Span(first, last)) : Span(first, last)[i] <= today
<1> DEFINE n == last - first + 1
           s == [i \in 1..n |-> first + i - 1]
<1>1. n \in Nat /\ \A i \in 1..n : first + i - 1 \in Dates /\ first + i - 1 <= today
    BY SiteAssumption DEF Dates
<1>2. Span(first, last) = s
    BY DEF Span
<1>3. n \in Nat /\ s \in [1..n -> Dates]
    BY <1>1
<1> HIDE DEF n
<1>4. s \in Seq(Dates) /\ Len(s) = n
    BY <1>3
<1> HIDE DEF s
<1>5. QED
    BY <1>1, <1>2, <1>4 DEF s

(* A job of its own kind and place, with dates that have come. *)
LEMMA Begun ==
    ASSUME today \in Dates
    PROVE /\ Idle \in Jobs /\ \A i \in 1..Len(Idle.todo) : Idle.todo[i] <= today
          /\ <<today>> \in Seq(Dates) /\ <<today>> # <<>> /\ Head(<<today>>) = today
          /\ \A i \in 1..Len(<<today>>) : <<today>>[i] <= today
<1>1. today <= today
    BY SiteAssumption DEF Dates
<1>2. QED
    BY <1>1, EmptySeq DEF Idle, Jobs

(* One more write of one archive. *)
LEMMA Grows ==
    ASSUME NEW f \in [Dates -> Nat], NEW target \in Dates, NEW g,
           g = [f EXCEPT ![target] = f[target] + 1]
    PROVE /\ g \in [Dates -> Nat] /\ g[target] # 0
          /\ \A d \in Dates : f[d] <= g[d] /\ (f[d] # 0 => g[d] # 0)
          /\ \A d \in Dates \ {target} : g[d] = f[d]
OBVIOUS

LEMMA InitIInv == Init => IInv
BY SiteAssumption DEF Init, IInv, TypeOK, Aim, Prepared, Behind, SiteNavigable, Jobs, Pages,
   Dailies, Dates, Idle, NoDaily, Payload, Archived

LEMMA TypeStep == IInv /\ [Next]_vars => TypeOK'
<1> SUFFICES ASSUME IInv, [Next]_vars PROVE TypeOK'
    OBVIOUS
<1> USE SiteAssumption DEF TypeOK, Go, At, Begin, NextDate, files
<1>0. TypeOK /\ Aim
    BY DEF IInv
<1> DEFINE JobOK == job \in Jobs /\ \A i \in 1..Len(job.todo) : job.todo[i] <= today
<1>i. Idle \in Jobs /\ \A i \in 1..Len(Idle.todo) : Idle.todo[i] <= today
    BY <1>0, Begun
<1>1. CASE Midnight
  <2>1. JobOK'
    <3>1. \A i \in 1..Len(job.todo) : job.todo[i] \in Dates
        BY <1>0, Targets, ElementOfSeq
    <3>2. job' = job /\ today' = today + 1 /\ today \in Int
        BY <1>0, <1>1 DEF Midnight, Dates
    <3>3. ASSUME NEW i \in 1..Len(job.todo) PROVE job.todo[i] <= today'
      <4>1. job.todo[i] \in Int
          BY <3>1 DEF Dates
      <4>2. job.todo[i] <= today
          BY <1>0
      <4>3. QED
          BY <3>2, <4>1, <4>2
    <3>4. QED
        BY <1>0, <3>2, <3>3
  <2>2. \A d \in Dates : d > today' => day'[d] = 0
      BY <1>0, <1>1 DEF Midnight, Dates
  <2>3. QED
      BY <1>0, <1>1, <2>1, <2>2 DEF Midnight, Dates
<1>2. CASE StartDaily
  <2>1. JobOK'
    <3>1. job' = [pc |-> "archive", kind |-> "daily", todo |-> <<today>>, dates |-> {}]
        BY <1>2 DEF StartDaily
    <3>2. today \in Dates /\ today' = today
        BY <1>0, <1>2 DEF StartDaily
    <3>3. QED
        BY <3>1, <3>2, Begun DEF Jobs
  <2>2. QED
      BY <1>0, <1>2, <2>1 DEF StartDaily
<1>3. CASE StartReport
    BY <1>0, <1>3, Begun DEF StartReport, Idle, Jobs
<1>4. CASE StartRange
  <2>1. JobOK'
    <3>1. PICK kind \in {"rerun", "retranslate"}, first \in 1..today, last \in 1..today :
              /\ first <= last
              /\ job' = [pc |-> "backfill", kind |-> kind, todo |-> Span(first, last),
                         dates |-> {}]
        BY <1>4 DEF StartRange
    <3>2. today \in Dates /\ today' = today
        BY <1>0, <1>4 DEF StartRange
    <3>3. QED
        BY <3>1, <3>2, Spans DEF Jobs
  <2>2. QED
      BY <1>0, <1>4, <2>1 DEF StartRange, Manual
<1>5. CASE WriteArchive
  <2>1. Target \in Dates /\ Target <= today
      BY <1>0, <1>5, Targets DEF WriteArchive, Aim
  <2>2. JobOK'
      BY <1>0, <1>5, <2>1 DEF WriteArchive, Jobs, Archived
  <2>3. day' \in [Dates -> Nat] /\ \A d \in Dates : d > today' => day'[d] = 0
    <3>1. day' = [day EXCEPT ![Target] = day[Target] + 1] /\ today' = today
        BY <1>5 DEF WriteArchive
    <3>2. day \in [Dates -> Nat] /\ \A d \in Dates : d > today => day[d] = 0
        BY <1>0
    <3>3. ASSUME NEW d \in Dates, d > today PROVE d # Target
        BY <1>0, <2>1, <3>3 DEF Dates
    <3>4. day' \in [Dates -> Nat] /\ \A d \in Dates \ {Target} : day'[d] = day[d]
        BY <2>1, <3>1, <3>2, Grows
    <3>5. QED
        BY <3>1, <3>2, <3>3, <3>4
  <2>4. QED
      BY <1>0, <1>5, <2>2, <2>3 DEF WriteArchive
<1>6. CASE WriteDaily
  <2>1. Target \in Dates
      BY <1>0, <1>6, Targets DEF WriteDaily, Aim
  <2>2. JobOK'
      BY <1>0, <1>6 DEF WriteDaily, Jobs
  <2>3. daily' \in Dailies
    <3>1. daily' = [date |-> Target, version |-> day[Target], dates |-> job.dates, whole |-> TRUE]
        BY <1>6 DEF WriteDaily
    <3>2. day[Target] \in Nat /\ job.dates \in SUBSET Dates
        BY <1>0, <2>1 DEF Jobs
    <3>3. Target \in 0..MaxDay
        BY <2>1 DEF Dates
    <3>4. QED
        BY <3>1, <3>2, <3>3 DEF Dailies
  <2>4. QED
      BY <1>0, <1>6, <2>2, <2>3 DEF WriteDaily
<1>7. CASE WritePlaceholder
    BY <1>0, <1>7, Targets DEF WritePlaceholder, Aim, Jobs, Pages
<1>8. CASE PruneOldDayPages
    BY <1>0, <1>8, Targets DEF PruneOldDayPages, Aim, Jobs, Pages
<1>9. CASE RenderFails
    BY <1>0, <1>9 DEF RenderFails, Fault, Jobs
<1>10. CASE BackfillNothing
    BY <1>0, <1>10, Targets DEF BackfillNothing, Jobs
<1>11. CASE BackfillArchive
  <2>1. Target \in Dates /\ Target <= today
      BY <1>0, <1>11, Targets DEF BackfillArchive
  <2>2. JobOK'
      BY <1>0, <1>11 DEF BackfillArchive, Jobs
  <2>3. day' \in [Dates -> Nat] /\ \A d \in Dates : d > today' => day'[d] = 0
    <3>1. day' = [day EXCEPT ![Target] = day[Target] + 1] /\ today' = today
        BY <1>11 DEF BackfillArchive
    <3>2. day \in [Dates -> Nat] /\ \A d \in Dates : d > today => day[d] = 0
        BY <1>0
    <3>3. ASSUME NEW d \in Dates, d > today PROVE d # Target
        BY <1>0, <2>1, <3>3 DEF Dates
    <3>4. day' \in [Dates -> Nat] /\ \A d \in Dates \ {Target} : day'[d] = day[d]
        BY <2>1, <3>1, <3>2, Grows
    <3>5. QED
        BY <3>1, <3>2, <3>3, <3>4
  <2>4. QED
      BY <1>0, <1>11, <2>2, <2>3 DEF BackfillArchive
<1>12. CASE BackfillPlaceholder
    BY <1>0, <1>12, Targets DEF BackfillPlaceholder, Aim, Jobs, Pages
<1>13. CASE BackfillFails
    BY <1>0, <1>13, Targets DEF BackfillFails, Fault, Jobs
<1>14. CASE RangeDone
  <2>1. JobOK'
    <3>1. CASE job.kind = "rerun"
        BY <1>0, <1>14, <3>1 DEF RangeDone, Jobs
    <3>2. CASE job.kind = "retranslate"
      <4>1. job' = [job EXCEPT !.kind = "rebuild", !.todo = <<today>>] /\ today' = today
          BY <1>14, <3>2 DEF RangeDone
      <4>2. QED
          BY <1>0, <4>1, Begun DEF Jobs
    <3>3. CASE job.kind = "rebuild"
        BY <1>14, <1>i, <3>3 DEF RangeDone
    <3>4. QED
        BY <1>14, <3>1, <3>2, <3>3 DEF RangeDone
  <2>2. QED
      BY <1>0, <1>14, <2>1 DEF RangeDone
<1>15. CASE MakeRoutes
    BY <1>0, <1>15 DEF MakeRoutes, Jobs, Pages
<1>16. CASE DailyUnreadable
    BY <1>0, <1>i, <1>16 DEF DailyUnreadable
<1>17. CASE TruncateDaily
    BY <1>0, <1>17 DEF TruncateDaily, Jobs, Dailies
<1>18. CASE RewriteDaily
    BY <1>0, <1>18 DEF RewriteDaily, Jobs, Dailies, Archived
<1>19. CASE PublishState
    BY <1>0, <1>19 DEF PublishState, Jobs
<1>20. CASE PublishPages
    BY <1>0, <1>i, <1>20 DEF PublishPages, Payload
<1>21. CASE PushFails
    BY <1>0, <1>i, <1>21 DEF PushFails, Fault
<1>22. CASE JobExits
    BY <1>0, <1>i, <1>22 DEF JobExits, Fault
<1>23. CASE UNCHANGED vars
    BY <1>0, <1>23 DEF vars
<1>24. QED
    BY <1>1, <1>2, <1>3, <1>4, <1>5, <1>6, <1>7, <1>8, <1>9, <1>10, <1>11, <1>12, <1>13, <1>14, <1>15, <1>16, <1>17, <1>18, <1>19, <1>20, <1>21, <1>22, <1>23 DEF Next, JobStep

LEMMA FrontDate ==
    TypeOK => daily.date \in 0..MaxDay /\ (daily.date # 0 => daily.date \in Dates)
<1> SUFFICES ASSUME TypeOK
             PROVE  daily.date \in 0..MaxDay /\ (daily.date # 0 => daily.date \in Dates)
    OBVIOUS
<1>1. daily.date \in 0..MaxDay
    BY DEF TypeOK, Dailies
<1>2. QED
    BY <1>1, SiteAssumption DEF Dates

LEMMA RestStep == IInv /\ [Next]_vars => (Aim /\ Prepared /\ Behind /\ SiteNavigable)'
<1> SUFFICES ASSUME IInv, [Next]_vars PROVE (Aim /\ Prepared /\ Behind /\ SiteNavigable)'
    OBVIOUS
<1> USE SiteAssumption DEF Aim, Prepared, Behind, SiteNavigable, Jobs, Pages, Dailies, Dates,
        Archived, Go, At, Begin, NextDate, files, Idle
<1>0. TypeOK /\ Aim /\ Prepared /\ Behind /\ SiteNavigable
    BY DEF IInv
<1>1. CASE Midnight
  <2>1. today' = today + 1 /\ today \in Int /\ UNCHANGED <<day, page, daily, job, snapshot, site>>
      BY <1>0, <1>1 DEF TypeOK, Midnight
  <2>2. daily.date \in Int /\ (job.todo # <<>> => Head(job.todo) \in Int)
    <3>1. job.todo # <<>> => Head(job.todo) \in Dates
        BY <1>0, Targets DEF Target
    <3>2. daily.date \in Int
        BY <1>0 DEF TypeOK
    <3>3. QED
        BY <3>1, <3>2
  <2>3. Aim'
      BY <1>0, <2>1, <2>2
  <2>4. QED
      BY <1>0, <2>1, <2>3
<1>2. CASE StartDaily
    BY <1>0, <1>2 DEF TypeOK, StartDaily
<1>3. CASE StartReport
    BY <1>0, <1>3 DEF TypeOK, StartReport
<1>4. CASE StartRange
    BY <1>0, <1>4 DEF TypeOK, StartRange, Manual
<1>5. CASE WriteArchive
  <2>1. /\ job.pc = "archive" /\ job.todo # <<>>
        /\ day' = [day EXCEPT ![Target] = day[Target] + 1]
        /\ job' = [job EXCEPT !.pc = "daily", !.dates = Archived \cup {Target}]
        /\ UNCHANGED <<today, page, daily, snapshot, site>>
      BY <1>0, <1>5 DEF WriteArchive
  <2>2. Target \in Dates /\ day \in [Dates -> Nat]
      BY <1>0, <2>1, Targets DEF TypeOK
  <2>3. job'.pc = "daily" /\ job'.todo = job.todo
      BY <1>0, <2>1 DEF TypeOK
  <2>4. /\ day' \in [Dates -> Nat] /\ day'[Target] # 0
        /\ \A d \in Dates : day[d] <= day'[d] /\ (day[d] # 0 => day'[d] # 0)
    <3> HIDE DEF Dates
    <3>1. QED
        BY <2>1, <2>2, Grows
  <2>5. Aim'
    <3>1. daily.date # 0 => daily.date \in Dates
        BY <1>0, FrontDate
    <3>2. QED
        BY <1>0, <2>1, <2>3, <2>4, <3>1 DEF Target
  <2>6. Prepared'
      BY <2>3
  <2>7. Behind'
    <3>1. ASSUME NEW d \in Dates PROVE snapshot[d] <= day'[d]
      <4>1. snapshot \in [Dates -> Nat]
          BY <1>0 DEF TypeOK
      <4> HIDE DEF Dates
      <4>2. snapshot[d] \in Nat /\ day[d] \in Nat /\ day'[d] \in Nat
          BY <2>2, <2>4, <4>1
      <4>3. snapshot[d] <= day[d] /\ day[d] <= day'[d]
          BY <1>0, <2>4
      <4>4. QED
          BY <4>2, <4>3
    <3>2. QED
        BY <1>0, <2>1, <2>3, <3>1
  <2>8. QED
      BY <1>0, <2>1, <2>5, <2>6, <2>7
<1>6. CASE WriteDaily
  <2>1. /\ job.pc = "daily" /\ job.todo # <<>>
        /\ daily' = [date |-> Target, version |-> day[Target], dates |-> job.dates, whole |-> TRUE]
        /\ job' = [job EXCEPT !.pc = "page"]
        /\ UNCHANGED <<today, day, page, snapshot, site>>
      BY <1>0, <1>6 DEF WriteDaily
  <2>2. job'.pc = "page" /\ job'.todo = job.todo /\ daily'.date = Target
      BY <1>0, <2>1 DEF TypeOK
  <2>3. Target \in Dates /\ Target <= today /\ daily.date <= Target /\ day[Target] # 0
      BY <1>0, <2>1, Targets DEF Target
  <2>4. Aim'
      BY <2>1, <2>2, <2>3 DEF Target
  <2>5. Behind'
    <3>1. site.daily.date \in Int /\ daily.date \in Int /\ Target \in Int
        BY <1>0, <2>3 DEF TypeOK
    <3>2. QED
        BY <1>0, <2>1, <2>2, <2>3, <3>1
  <2>6. QED
      BY <1>0, <2>1, <2>2, <2>4, <2>5
<1>7. CASE WritePlaceholder
    BY <1>0, <1>7, Targets DEF TypeOK, WritePlaceholder
<1>8. CASE PruneOldDayPages
    BY <1>0, <1>8, Targets DEF TypeOK, PruneOldDayPages
<1>9. CASE RenderFails
    BY <1>0, <1>9 DEF TypeOK, RenderFails, Fault
<1>10. CASE BackfillNothing
    BY <1>0, <1>10 DEF TypeOK, BackfillNothing
<1>11. CASE BackfillArchive
  <2>1. /\ job.pc = "backfill" /\ job.todo # <<>>
        /\ day' = [day EXCEPT ![Target] = day[Target] + 1]
        /\ job' = [job EXCEPT !.pc = "placeholder"]
        /\ UNCHANGED <<today, page, daily, snapshot, site>>
      BY <1>11 DEF BackfillArchive
  <2>2. Target \in Dates /\ day \in [Dates -> Nat]
      BY <1>0, <2>1, Targets DEF TypeOK
  <2>3. job'.pc = "placeholder" /\ job'.todo = job.todo
      BY <1>0, <2>1 DEF TypeOK
  <2>4. /\ day' \in [Dates -> Nat] /\ day'[Target] # 0
        /\ \A d \in Dates : day[d] <= day'[d] /\ (day[d] # 0 => day'[d] # 0)
    <3> HIDE DEF Dates
    <3>1. QED
        BY <2>1, <2>2, Grows
  <2>5. Aim'
    <3>1. daily.date # 0 => daily.date \in Dates
        BY <1>0, FrontDate
    <3>2. QED
        BY <1>0, <2>1, <2>3, <2>4, <3>1
  <2>6. Prepared'
      BY <2>3
  <2>7. Behind'
    <3>1. ASSUME NEW d \in Dates PROVE snapshot[d] <= day'[d]
      <4>1. snapshot \in [Dates -> Nat]
          BY <1>0 DEF TypeOK
      <4> HIDE DEF Dates
      <4>2. snapshot[d] \in Nat /\ day[d] \in Nat /\ day'[d] \in Nat
          BY <2>2, <2>4, <4>1
      <4>3. snapshot[d] <= day[d] /\ day[d] <= day'[d]
          BY <1>0, <2>4
      <4>4. QED
          BY <4>2, <4>3
    <3>2. QED
        BY <1>0, <2>1, <2>3, <3>1
  <2>8. QED
      BY <1>0, <2>1, <2>5, <2>6, <2>7
<1>12. CASE BackfillPlaceholder
    BY <1>0, <1>12, Targets DEF TypeOK, BackfillPlaceholder
<1>13. CASE BackfillFails
    BY <1>0, <1>13 DEF TypeOK, BackfillFails, Fault
<1>14. CASE RangeDone
  <2>1. job'.pc \in {"routes", "backfill", "idle"}
    <3>1. job \in Jobs /\ job.pc = "backfill"
        BY <1>0, <1>14 DEF TypeOK, RangeDone
    <3>2. \/ job' = [job EXCEPT !.pc = "routes"]
          \/ job' = [job EXCEPT !.kind = "rebuild", !.todo = <<today>>]
          \/ job' = Idle
        BY <1>14 DEF RangeDone
    <3>3. CASE job' = [job EXCEPT !.pc = "routes"]
        BY <3>1, <3>3
    <3>4. CASE job' = [job EXCEPT !.kind = "rebuild", !.todo = <<today>>]
      <4>1. job'.pc = job.pc
          BY <3>1, <3>4
      <4>2. QED
          BY <3>1, <4>1
    <3>5. CASE job' = Idle
        BY <3>5
    <3>6. QED
        BY <3>2, <3>3, <3>4, <3>5
  <2>2. UNCHANGED <<today, day, page, daily, snapshot, site>>
      BY <1>14 DEF RangeDone
  <2>3. QED
      BY <1>0, <2>1, <2>2
<1>15. CASE MakeRoutes
    BY <1>0, <1>15 DEF TypeOK, MakeRoutes
<1>16. CASE DailyUnreadable
    BY <1>0, <1>16 DEF TypeOK, DailyUnreadable
<1>17. CASE TruncateDaily
    BY <1>0, <1>17 DEF TypeOK, TruncateDaily
<1>18. CASE RewriteDaily
    BY <1>0, <1>18 DEF TypeOK, RewriteDaily
<1>19. CASE PublishState
  <2>1. snapshot' = day /\ UNCHANGED <<today, day, page, daily, site>>
      BY <1>19 DEF PublishState
  <2>2. job.pc = "state" /\ job' = [job EXCEPT !.pc = "pages"] /\ job'.pc = "pages"
      BY <1>0, <1>19 DEF PublishState, TypeOK
  <2>3. ASSUME NEW d \in Dates PROVE site.day[d] <= snapshot'[d] /\ snapshot'[d] <= day'[d]
    <3>1. site.day[d] <= snapshot[d] /\ snapshot[d] <= day[d]
        BY <1>0
    <3>2. site.day[d] \in Nat /\ snapshot[d] \in Nat /\ day[d] \in Nat
        BY <1>0 DEF TypeOK
    <3>3. QED
        BY <2>1, <3>1, <3>2
  <2>4. Behind'
      BY <1>0, <2>1, <2>2, <2>3
  <2>5. QED
      BY <1>0, <2>1, <2>2, <2>4
<1>20. CASE PublishPages
  <2>1. /\ site' = [day |-> day, page |-> page, daily |-> daily] /\ job.pc = "pages" /\ job' = Idle
        /\ UNCHANGED <<today, day, page, daily, snapshot>>
      BY <1>20 DEF PublishPages, Payload
  <2>2. Aim' /\ Prepared'
      BY <1>0, <2>1
  <2>3. Behind'
    <3>1. daily.date \in Int
        BY <1>0, FrontDate
    <3>2. snapshot = day /\ \A d \in Dates : day[d] \in Nat
        BY <1>0, <2>1 DEF TypeOK
    <3>3. QED
        BY <1>0, <2>1, <3>1, <3>2
  <2>4. SiteNavigable'
    <3>1. daily.date \in Archived
        BY <1>0, <2>1, FrontDate
    <3>2. QED
        BY <1>0, <2>1, <3>1
  <2>5. QED
      BY <2>2, <2>3, <2>4
<1>21. CASE PushFails
    BY <1>0, <1>21 DEF TypeOK, PushFails, Fault
<1>22. CASE JobExits
    BY <1>0, <1>22 DEF TypeOK, JobExits, Fault
<1>23. CASE UNCHANGED vars
    BY <1>0, <1>23 DEF vars
<1>24. QED
    BY <1>1, <1>2, <1>3, <1>4, <1>5, <1>6, <1>7, <1>8, <1>9, <1>10, <1>11, <1>12, <1>13, <1>14, <1>15, <1>16, <1>17, <1>18, <1>19, <1>20, <1>21, <1>22, <1>23 DEF Next, JobStep

(* Whatever the jobs do, their files stay in order: by induction on steps. *)
LEMMA Inductive == Spec => []IInv
<1>1. IInv /\ [Next]_vars => IInv'
    BY TypeStep, RestStep DEF IInv
<1>2. QED
    BY <1>1, InitIInv, PTL DEF Spec

(* The files, the job and the published payload keep their types; a job is   *)
(* never about a date that has not come.                                     *)
THEOREM SiteTypes == Spec => []TypeOK
<1>1. IInv => TypeOK
    BY DEF IInv
<1>2. QED
    BY <1>1, Inductive, PTL

(* prepare-public.py and publish-pages.sh publish nothing a visitor could    *)
(* get lost in, whichever steps of whichever jobs failed before.             *)
THEOREM PublishedIsNavigable == Spec => []SiteNavigable
<1>1. IInv => SiteNavigable
    BY DEF IInv
<1>2. QED
    BY <1>1, Inductive, PTL

(* publish-state.sh comes before publish-pages.sh: no archive on the site is *)
(* newer than the one the state branch would restore.                        *)
THEOREM PublishedIsSaved == Spec => []ShownIsSaved
<1>1. IInv => ShownIsSaved
    BY DEF IInv, Behind, ShownIsSaved
<1>2. QED
    BY <1>1, Inductive, PTL

(* No job, a range of past dates included, takes the front page back.        *)
THEOREM FrontPageNeverGoesBack == Spec => FrontPageForward
<1>1. IInv /\ [Next]_vars => [site'.daily.date >= site.daily.date]_vars
  <2> SUFFICES ASSUME IInv, [Next]_vars PROVE site'.daily.date >= site.daily.date
      OBVIOUS
  <2>1. site.daily.date \in Int /\ daily.date \in Int /\ site.daily.date <= daily.date
      BY SiteAssumption DEF IInv, TypeOK, Behind, Dailies, Dates
  <2>2. site' = site \/ site' = Payload
      BY DEF Next, JobStep, Midnight, StartDaily, StartReport, StartRange, WriteArchive,
         WriteDaily, WritePlaceholder, PruneOldDayPages, RenderFails, BackfillNothing,
         BackfillArchive, BackfillPlaceholder, BackfillFails, RangeDone, MakeRoutes,
         DailyUnreadable, TruncateDaily, RewriteDaily, PublishState, PublishPages,
         PushFails, JobExits, vars
  <2>3. QED
      BY <2>1, <2>2 DEF Payload
<1>2. QED
    BY <1>1, Inductive, PTL DEF Spec, FrontPageForward
=============================================================================
