------------------------------- MODULE Ranker -------------------------------
(***************************************************************************)
(* The ranker, src/src/ranker/: the score of a story, the quotas and the   *)
(* sections of the report, as functions of the stories of Linker.  Of an   *)
(* item it reads besides                                                   *)
(*   topics     the topics its title and abstract match                    *)
(*   citations, signals (the from_<source> flags of its raw_json)          *)
(*   category   the first of ARXIV_CATEGORY_PATTERNS its raw_json has      *)
(*   excluded   whether its text has a paper_exclusion_keyword             *)
(* Scores are integers; the real-valued tables (decay, logarithm of the    *)
(* citations) are constants.                                               *)
(***************************************************************************)
EXTENDS Linker

CONSTANTS
    Today,              \* the ranker's now, as a day
    Scoring,            \* topics.scoring: weights, caps and tables
    Topics,             \* topic -> its boost_weight
    Similar,            \* title -> the <<similarity, boost>> of each topic
    QualitySignals,     \* QUALITY_SIGNAL_SOURCES
    UrlCategory         \* URL -> the first of ARXIV_CATEGORY_PATTERNS it has, or "none"

Least(a, b) == IF a < b THEN a ELSE b

-----------------------------------------------------------------------------
ComputeTierScore(story) ==
    CASE story.primary.tier = 0 -> Scoring.tier0
      [] story.primary.tier = 1 -> Scoring.tier1
      [] OTHER -> Scoring.tier2

(* The kind of the first item, whichever link is the primary one.             *)
ComputeKindScore(story) ==
    LET kind == story.items[1].kind
    IN  IF kind \in DOMAIN Scoring.kinds THEN Scoring.kinds[kind] ELSE Scoring.otherKind

(* A topic counts once however many items match it.                           *)
MatchText(story) == UNION {story.items[i].topics : i \in DOMAIN story.items}
BoostOf(topics) == MapThenSumSet(LAMBDA t : Topics[t] * Scoring.topicMatch, topics)
ComputeTopicScore(story) == Least(BoostOf(MatchText(story)), Scoring.topicCap)

(* A day to come decays backwards; the age is capped.                         *)
ComputeRecencyScore(story) ==
    IF story.day = None THEN Scoring.undated
    ELSE Scoring.decay[Least(Today - story.day, Scoring.maxRecencyDays)]

ComputeEntityScore(story) == Scoring.entityMatch * Len(story.entities)

ComputeCitationScore(story) ==
    LET counts == {0} \cup {story.items[i].citations : i \in DOMAIN story.items}
        count == CHOOSE c \in counts : \A d \in counts : d <= c
    IN  Least(Scoring.logCitations[count], Scoring.fullCitations) * Scoring.citation

(* An item of a signal source counts for that source only.                    *)
MatchedSources(item) ==
    IF item.source \in QualitySignals THEN {item.source} ELSE item.signals
ComputeCrossSourceScore(story) ==
    Least(Scoring.crossSource * Cardinality(UNION {MatchedSources(story.items[i]) : i \in DOMAIN story.items}),
          Scoring.crossSourceCap)

(* The three most similar topics over the threshold.                          *)
ComputeSemanticScore(story) ==
    LET matches == Similar[story.primary.title]
        above == Pick(matches, {i \in DOMAIN matches : matches[i][1] >= Scoring.similarityThreshold})
        best == SortBy(above, [i \in DOMAIN above |-> <<-above[i][1]>>])
        Part(n) == IF n \in DOMAIN best THEN best[n][1] * best[n][2] ELSE 0
    IN  Scoring.semantic * (Part(1) + Part(2) + Part(3))

ComputeLlmRelevanceScore(story, llm) ==
    (IF story.id \in DOMAIN llm THEN llm[story.id] ELSE 0) * Scoring.llmWeight

ScoreStory(story, llm) ==
    [story |-> story, llm |-> ComputeLlmRelevanceScore(story, llm),
     total |-> ComputeTierScore(story) + ComputeKindScore(story) + ComputeTopicScore(story)
               + ComputeRecencyScore(story) + ComputeEntityScore(story) + ComputeCitationScore(story)
               + ComputeCrossSourceScore(story) + ComputeSemanticScore(story)
               + ComputeLlmRelevanceScore(story, llm)]

ScoreStories(stories, llm) == [k \in DOMAIN stories |-> ScoreStory(stories[k], llm)]

-----------------------------------------------------------------------------
(* Faulty variant: stories of one score stay in the order they came in.       *)
SortByScoreOnly(scored) == SortBy(scored, [k \in DOMAIN scored |-> <<-scored[k].total>>])

(* Score, then date with no date last, both descending, then URL.             *)
ScoreOrder(scored) ==
    <<-scored.total, IF scored.story.day = None THEN 1 ELSE -scored.story.day, scored.story.primary.url>>
SortByScore(scored) == SortBy(scored, [k \in DOMAIN scored |-> ScoreOrder(scored[k])])

IsPaper(story) == story.arxiv # None \/ \E i \in DOMAIN story.items : story.items[i].kind = "paper"
IsModelRelease(story) ==
    \/ story.hf # None
    \/ story.entities # <<>> /\ \E i \in DOMAIN story.items : story.items[i].kind = "model"

GetPaperExclusionKeyword(story) ==
    IsPaper(story) /\ \E i \in DOMAIN story.items : story.items[i].excluded

(* The primary URL comes before the items.                                    *)
ExtractArxivCategory(story) ==
    LET told == {i \in DOMAIN story.items : story.items[i].category # "none"}
    IN  CASE story.arxiv = None -> "none"
          [] story.arxiv # None /\ UrlCategory[story.primary.url] # "none" -> UrlCategory[story.primary.url]
          [] OTHER -> IF told = {} THEN "unknown" ELSE story.items[FirstPlace(told)].category

HasLlmBypass(scored, quotas) ==
    /\ quotas.bypass < Scoring.llmFull /\ Scoring.llmWeight > 0
    /\ scored.llm >= quotas.bypass * Scoring.llmWeight

RecordDrop(scored, reason) == [id |-> scored.story.id, reason |-> reason]

(* What a quota counts a story under: "none" is not counted.                  *)
QuotaKey(quota, scored) ==
    IF quota = "source" THEN scored.story.primary.source ELSE ExtractArxivCategory(scored.story)
QuotaMax(quota, quotas) == IF quota = "source" THEN quotas.perSource ELSE quotas.perCategory

-----------------------------------------------------------------------------
Unassigned(sorted, places) ==
    {i \in DOMAIN sorted : \A j \in places : sorted[i].story.id # sorted[j].story.id}

(* Each section takes from what the ones before it left; papers over the      *)
(* limit of theirs go on to the radar, and what is over there is left out.    *)
AssignSections(kept, quotas) ==
    LET sorted == SortByScore(kept)
        top5 == FirstFew(DOMAIN sorted, quotas.top5)
        releases == {i \in Unassigned(sorted, top5) : IsModelRelease(sorted[i].story)}
        papers == FirstFew({i \in Unassigned(sorted, top5 \cup releases) : IsPaper(sorted[i].story)}, quotas.papers)
        rest == Unassigned(sorted, top5 \cup releases \cup papers)
        radar == FirstFew(rest, quotas.radar)
    IN  [top5 |-> Pick(sorted, top5), releases |-> Pick(sorted, releases), papers |-> Pick(sorted, papers),
         radar |-> Pick(sorted, radar), left |-> Pick(sorted, rest \ radar)]

(* Model releases are grouped by their first entity, None standing for        *)
(* "other".                                                                   *)
ReleaseGroup(story) == IF story.entities = <<>> THEN None ELSE story.entities[1]
StoriesOf(scored) == [i \in DOMAIN scored |-> scored[i].story]
BuildOutput(sections) ==
    LET releases == StoriesOf(sections.releases)
    IN  [top5 |-> StoriesOf(sections.top5), papers |-> StoriesOf(sections.papers), radar |-> StoriesOf(sections.radar),
         releases |-> Grouped(releases, [i \in DOMAIN releases |-> ReleaseGroup(releases[i])])]

(* digest.py: the stories a reader sees, each once, in display order.         *)
Displayed(output) == Joined(<<output.top5, output.papers, output.radar, Joined(output.releases)>>)
CollectRankerStories(output) ==
    LET shown == Displayed(output) IN Distinct(shown, [n \in DOMAIN shown |-> shown[n].id])
=============================================================================
