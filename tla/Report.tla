------------------------------- MODULE Report -------------------------------
(***************************************************************************)
(* The report command, build_report_from_archives                          *)
(* (src/src/reports/aggregator.py): what of the day archives a weekly or   *)
(* monthly report recommends, the file it is written to, and the index of  *)
(* all reports, which prepare-public.py creates where there is none.  Both *)
(* files are written in place, and the process may die at any step.        *)
(*                                                                         *)
(* Of a story of an archive the report reads                               *)
(*   arxiv, id     the keys it may be known by, 0 for no arXiv id          *)
(*   kind          "paper", "blog", or another                             *)
(*   date          the local day of its published_at, 0 for none           *)
(*   score, title  scores.total_score and the title, as numbers            *)
(* The title and the summary of a report, the model's or not, are wording. *)
(***************************************************************************)
EXTENDS Integers, Sequences, SequencesExt, FiniteSets, Orders

CONSTANTS
    Periods,        \* what resolve_period can give: its type, first and last day
    Days,           \* the dates an archive can have
    Digests,        \* what an archive can hold: its papers, top5 and radar in a row
    Limit,          \* --limit
    BlogLimit,      \* BLOG_RECOMMENDATION_LIMIT
    Lookahead,      \* --archive-lookahead-days
    MaxReports,     \* bounds the reports of a behaviour
    MaxRewrites     \* bounds the archives written again

Types == {"weekly", "monthly"}
ArchivedStory ==
    [arxiv : Nat, id : Nat, kind : {"paper", "blog", "other"}, date : Nat, score : Int, title : Int]

(* A period is known by its type and its first day.                           *)
ASSUME ReportAssumption ==
    /\ Periods \subseteq [type : Types, first : Nat, last : Nat] /\ Days \subseteq Nat
    /\ \A p, q \in Periods : p.type = q.type /\ p.first = q.first => p = q
    /\ Digests \subseteq Seq(ArchivedStory)
    /\ Limit \in Nat /\ BlogLimit \in Nat /\ Lookahead \in Nat

NoArchive == <<"no archive">>

VARIABLES
    archives,       \* api/day/<date>.json
    files,          \* api/reports/<type>/<period>.json
    index,          \* api/reports/index.json
    command,        \* the report being made, or the index being created
    reported, rewritten,
    basis,          \* history: period -> the archives its report was made from
    indexed         \* history: the periods the index has had

reportVars == <<archives, files, index, command, reported, rewritten, basis, indexed>>

ReportFile(kind, report) == [kind |-> kind, report |-> report]
NoReport == [made |-> 0, papers |-> <<>>, blogs |-> <<>>, missing |-> {}]
Index(kind, lists) == [kind |-> kind, lists |-> lists]
NoLists == [t \in Types |-> <<>>]
At(pc, period, report) == [pc |-> pc, period |-> period, report |-> report]
NoPeriod == [type |-> "none", first |-> 0, last |-> 0]
NoCommand == At("idle", NoPeriod, NoReport)

ReportInit ==
    /\ archives \in [Days -> Digests \cup {NoArchive}]
    /\ files = [p \in Periods |-> ReportFile("absent", NoReport)]
    /\ index = Index("absent", NoLists)
    /\ command = NoCommand
    /\ reported = 0 /\ rewritten = 0
    /\ basis = [p \in Periods |-> archives]
    /\ indexed = {}

-----------------------------------------------------------------------------
StoryKey(story) ==
    IF story.arxiv # 0 THEN <<"arxiv_id", story.arxiv>> ELSE <<"story_id", story.id>>

(* A story without a date belongs to the day of its archive.                  *)
StoryLocalDate(story, day) == IF story.date = 0 THEN day ELSE story.date
InPeriod(p, day) == p.first <= day /\ day <= p.last

PeriodDates(p) == p.first..p.last
ScanDates(p) == p.first..(p.last + Lookahead)
Covered(day) == day \in Days /\ archives[day] # NoArchive
MissingDates(p) == {day \in PeriodDates(p) : ~Covered(day)}

(* A candidate is the place of its story: the day of the archive, and where   *)
(* it stands in it.  Archives are scanned by day, each from its beginning.    *)
StoryAt(place) == archives[place[1]][place[2]]
ScannedBefore(a, b) == a[1] < b[1] \/ (a[1] = b[1] /\ a[2] < b[2])
CollectCandidates(p, kind) ==
    {place \in UNION {{day} \X DOMAIN archives[day] : day \in {d \in ScanDates(p) : Covered(d)}} :
       /\ StoryAt(place).kind = kind
       /\ InPeriod(p, StoryLocalDate(StoryAt(place), place[1]))}

SameStory(a, b) == StoryKey(StoryAt(a)) = StoryKey(StoryAt(b))

(* Faulty variant: the first appearance of a story is the one that counts.    *)
FirstAppearances(candidates) ==
    {a \in candidates : \A b \in candidates : SameStory(a, b) => a = b \/ ScannedBefore(a, b)}

(* A story that comes again replaces the one before it only if it scores      *)
(* higher: what stays is the first appearance with the best score.            *)
Outdoes(a, b) ==
    \/ StoryAt(a).score > StoryAt(b).score
    \/ StoryAt(a).score = StoryAt(b).score /\ ScannedBefore(a, b)
BestAppearances(candidates) ==
    {a \in candidates : \A b \in candidates : SameStory(a, b) => a = b \/ Outdoes(a, b)}

(* sorted is stable, over a dictionary whose keys have the order of their     *)
(* first appearances.                                                         *)
KeyedBefore(candidates, a, b) ==
    \E first \in candidates :
        SameStory(first, a) /\ \A c \in candidates : SameStory(c, b) => ScannedBefore(first, c)
Ahead(candidates, a, b) ==
    LET s == StoryAt(a)
        t == StoryAt(b)
    IN  \/ s.score > t.score
        \/ s.score = t.score /\ s.date > t.date
        \/ s.score = t.score /\ s.date = t.date /\ s.title < t.title
        \/ s.score = t.score /\ s.date = t.date /\ s.title = t.title /\ KeyedBefore(candidates, a, b)

RankUniqueStories(candidates) ==
    LET unique == BestAppearances(candidates)
    IN  InOrder(unique, {pair \in unique \X unique : Ahead(candidates, pair[1], pair[2])})

Fewer(a, b) == IF a < b THEN a ELSE b
Recommend(candidates, limit) ==
    LET ranked == RankUniqueStories(candidates)
    IN  [i \in 1..Fewer(limit, Len(ranked)) |-> StoryAt(ranked[i])]

Build(p) ==
    [made |-> reported + 1,
     papers |-> Recommend(CollectCandidates(p, "paper"), Limit),
     blogs |-> Recommend(CollectCandidates(p, "blog"), Fewer(Limit, BlogLimit)),
     missing |-> MissingDates(p)]

-----------------------------------------------------------------------------
(* The process reads all archives before it writes anything, and the model    *)
(* writes the summary in between.                                             *)
StartReport(p) ==
    /\ command = NoCommand /\ reported < MaxReports
    /\ command' = At("built", p, Build(p))
    /\ reported' = reported + 1
    /\ UNCHANGED <<archives, files, index, rewritten, basis, indexed>>

(* _write_report: opened, which empties it, and written.                      *)
OpenReport ==
    /\ command.pc = "built"
    /\ files' = [files EXCEPT ![command.period] = ReportFile("torn", NoReport)]
    /\ basis' = [basis EXCEPT ![command.period] = archives]
    /\ command' = [command EXCEPT !.pc = "opened"]
    /\ UNCHANGED <<archives, index, reported, rewritten, indexed>>
WriteReport ==
    /\ command.pc = "opened"
    /\ files' = [files EXCEPT ![command.period] = ReportFile("whole", command.report)]
    /\ command' = [command EXCEPT !.pc = "written"]
    /\ UNCHANGED <<archives, index, reported, rewritten, basis, indexed>>

EntryOf(p, report) ==
    [period |-> p, made |-> report.made, papers |-> Len(report.papers), blogs |-> Len(report.blogs),
     missing |-> report.missing]

(* One entry for each period, the latest first.                               *)
WithEntry(entries, entry) ==
    LET kept == {e \in ToSet(entries) : e.period # entry.period} \cup {entry}
    IN  InOrder(kept, {pair \in kept \X kept : pair[1].period.first > pair[2].period.first})

(* _update_report_index: what is there is read, then written over.            *)
OpenIndex ==
    /\ command.pc = "written" /\ index.kind # "torn"
    /\ index' = [index EXCEPT !.kind = "torn"]
    /\ command' = [command EXCEPT !.pc = "indexing"]
    /\ UNCHANGED <<archives, files, reported, rewritten, basis, indexed>>
WriteIndex ==
    /\ command.pc = "indexing"
    /\ LET p == command.period IN
         /\ index' = Index("whole", [index.lists EXCEPT ![p.type] = WithEntry(@, EntryOf(p, command.report))])
         /\ indexed' = indexed \cup {p}
    /\ command' = NoCommand
    /\ UNCHANGED <<archives, files, reported, rewritten, basis>>

(* An index that cannot be parsed ends the command, whose report is written.  *)
IndexUnreadable ==
    /\ command.pc = "written" /\ index.kind = "torn"
    /\ command' = NoCommand
    /\ UNCHANGED <<archives, files, index, reported, rewritten, basis, indexed>>

(* prepare-public.py, where there is no index.                                *)
CreateIndex ==
    /\ command = NoCommand /\ index.kind = "absent"
    /\ index' = [index EXCEPT !.kind = "torn"]
    /\ command' = At("creating", NoPeriod, NoReport)
    /\ UNCHANGED <<archives, files, reported, rewritten, basis, indexed>>
FillIndex ==
    /\ command.pc = "creating"
    /\ index' = [index EXCEPT !.kind = "whole"]
    /\ command' = NoCommand
    /\ UNCHANGED <<archives, files, reported, rewritten, basis, indexed>>

(* Killed; what was being written is torn.                                    *)
ReportKilled ==
    /\ command # NoCommand
    /\ command' = NoCommand
    /\ UNCHANGED <<archives, files, index, reported, rewritten, basis, indexed>>

(* A daily run or a backfill writes an archive.                               *)
RewriteArchive(day) ==
    /\ command = NoCommand /\ rewritten < MaxRewrites
    /\ rewritten' = rewritten + 1
    /\ \E digest \in Digests : archives' = [archives EXCEPT ![day] = digest]
    /\ UNCHANGED <<files, index, command, reported, basis, indexed>>

ReportNext ==
    \/ \E p \in Periods : StartReport(p)
    \/ OpenReport \/ WriteReport \/ OpenIndex \/ WriteIndex \/ IndexUnreadable
    \/ CreateIndex \/ FillIndex \/ ReportKilled
    \/ \E day \in Days : RewriteArchive(day)
ReportSpec == ReportInit /\ [][ReportNext]_reportVars

-----------------------------------------------------------------------------
(* The stories a report is to choose from, whatever archive has them.         *)
Eligible(made, p, kind) ==
    UNION {{s \in ToSet(made[day]) : s.kind = kind /\ InPeriod(p, StoryLocalDate(s, day))} :
             day \in {d \in Days : p.first <= d /\ d <= p.last + Lookahead /\ made[d] # NoArchive}}

(* Each story once and at its best score, later news first among equals, and  *)
(* none left out as long as there is room or that scores more than one taken. *)
BestOf(chosen, stories, limit) ==
    /\ ToSet(chosen) \subseteq stories /\ Len(chosen) <= limit
    /\ \A i \in DOMAIN chosen : \A s \in stories :
         StoryKey(s) = StoryKey(chosen[i]) => s.score <= chosen[i].score
    /\ \A i, j \in DOMAIN chosen : i < j =>
         /\ StoryKey(chosen[i]) # StoryKey(chosen[j])
         /\ \/ chosen[i].score > chosen[j].score
            \/ chosen[i].score = chosen[j].score /\ chosen[i].date >= chosen[j].date
    /\ \A s \in stories :
         \/ \E i \in DOMAIN chosen : StoryKey(chosen[i]) = StoryKey(s)
         \/ Len(chosen) = limit /\ \A i \in DOMAIN chosen : s.score <= chosen[i].score
BestSelected ==
    \A p \in Periods : files[p].kind = "whole" =>
        /\ BestOf(files[p].report.papers, Eligible(basis[p], p, "paper"), Limit)
        /\ BestOf(files[p].report.blogs, Eligible(basis[p], p, "blog"), Fewer(Limit, BlogLimit))

(* No entry without its report, none that says more than the report it names, *)
(* one for each period, and none is lost.                                     *)
IndexAgrees ==
    index.kind = "whole" =>
        /\ \A t \in Types : \A i \in DOMAIN index.lists[t] :
             LET entry == index.lists[t][i]
                 file == files[entry.period] IN
             /\ entry.period.type = t /\ file.kind # "absent"
             /\ file.kind = "whole" =>
                  entry = EntryOf(entry.period, file.report) \/ entry.made < file.report.made
             /\ \A j \in DOMAIN index.lists[t] : i < j => index.lists[t][j].period.first < entry.period.first
        /\ \A p \in indexed : \E i \in DOMAIN index.lists[p.type] : index.lists[p.type][i].period = p

(* What the site says of a week or a month is what its archives said, whatever*)
(* is made again and wherever a command dies (aggregator.py:192-206, the      *)
(* selection policy that every report states).                                *)
ReportsTrue == BestSelected /\ IndexAgrees
=============================================================================
