----------------------------- MODULE MCCuration -----------------------------
(* The phases between the store and the page, each on a small instance of its *)
(* own: a behaviour is one of Relevance, of Translation, of Selection, or of  *)
(* Report.  The variables of the others keep their initial values, those of   *)
(* Selection the value Off.                                                   *)
EXTENDS Integers, Relevance, Translation, Selection, Report

VARIABLE part

curationVars == <<part, vars, translationVars, selectionVars, reportVars>>

(* For Relevance: one paper, which its page and its PDF may give, and a story *)
(* without one.                                                               *)
OnePaper == <<1>>
PageAndPdf == [p \in {1} |-> <<"html", "pdf">>]
PaperAndPost == <<1, 2>>

NoIds == [arxiv |-> 0, github |-> 0, hf |-> 0, ms |-> 0]
Paper(url, source, tier, id, raw, day, category, signals, excluded) ==
    [url |-> url, site |-> IF id = 0 THEN "other" ELSE "arxiv", ids |-> [NoIds EXCEPT !.arxiv = id],
     raw |-> raw, source |-> source, tier |-> tier, kind |-> "paper", title |-> 1, day |-> day,
     conf |-> "high", hits |-> <<>>, topics |-> {1}, citations |-> 0, signals |-> signals,
     category |-> category, excluded |-> excluded]
Post(url, source, kind, hf, day, conf, hits) ==
    [url |-> url, site |-> IF hf = 0 THEN "other" ELSE "huggingface", ids |-> [NoIds EXCEPT !.hf = hf],
     raw |-> 0, source |-> source, tier |-> 0, kind |-> kind, title |-> 2, day |-> day,
     conf |-> conf, hits |-> hits, topics |-> {}, citations |-> 2, signals |-> {},
     category |-> "none", excluded |-> FALSE]

(* One paper listed twice, papers of one category, an excluded one, one out   *)
(* of the window, and three posts.                                            *)
MCItems ==
    <<Paper(1, "arxiv", 1, 7, 0, 3, "cs.AI", {}, FALSE), Paper(2, "arxiv", 1, 8, 0, 3, "cs.AI", {}, FALSE),
      Paper(3, "daily", 2, 0, 7, 3, "none", {"daily"}, FALSE), Paper(4, "arxiv", 1, 9, 0, 3, "none", {}, TRUE),
      Paper(5, "arxiv", 1, 6, 0, 1, "cs.AI", {}, FALSE),
      Post(6, "lab", "blog", 0, 2, "medium", <<[entity |-> 1, score |-> 1], [entity |-> 2, score |-> 3]>>),
      Post(7, "news", "news", 0, 2, "low", <<[entity |-> 2, score |-> 2]>>),
      Post(8, "hub", "model", 5, 2, "high", <<>>)>>
MCPreferOrder == <<"official", "arxiv", "github", "huggingface", "paper", "blog">>
MCScoring ==
    [tier0 |-> 3, tier1 |-> 2, tier2 |-> 1, kinds |-> [blog |-> 2, paper |-> 1, model |-> 3, news |-> 1],
     otherKind |-> 1, topicMatch |-> 2, topicCap |-> 3, undated |-> 0, decay |-> [d \in -1..2 |-> 3 - d],
     maxRecencyDays |-> 2, entityMatch |-> 1, logCitations |-> [c \in 0..2 |-> c], fullCitations |-> 1,
     citation |-> 1, crossSource |-> 1, crossSourceCap |-> 1, similarityThreshold |-> 2, semantic |-> 1,
     llmWeight |-> 2, llmFull |-> 5]
MCTopics == [t \in {1} |-> 2]
MCSimilar == <<<<<<1, 1>>, <<2, 1>>>>, <<>>>>
MCQuotas ==
    {[top5 |-> 1, perSource |-> 1, perCategory |-> 1, papers |-> 1, radar |-> 1, bypass |-> 3],
     [top5 |-> 0, perSource |-> 3, perCategory |-> 1, papers |-> 1, radar |-> 9, bypass |-> 5]}
MCUrlCategory == [u \in 1..8 |-> IF u = 5 THEN "cs.CL" ELSE "none"]
MCLlmScores == {[i \in {} |-> 0], [i \in {<<1, 8, 0, 0>>} |-> 4]}

(* Weeks of one day in a month of two, and the day after it: a paper that     *)
(* comes back with another score, one without a date, a late one, two posts.  *)
Week(d) == [type |-> "weekly", first |-> d, last |-> d]
Entry(arxiv, id, kind, date, score) ==
    [arxiv |-> arxiv, id |-> id, kind |-> kind, date |-> date, score |-> score, title |-> id]
MCDigests ==
    {<<Entry(7, 1, "paper", 1, 2), Entry(0, 2, "paper", 0, 1), Entry(0, 3, "blog", 2, 1)>>,
     <<Entry(7, 4, "paper", 2, 3), Entry(0, 5, "paper", 1, 3), Entry(0, 3, "blog", 2, 1), Entry(0, 6, "blog", 0, 2)>>}
MCPeriods == {Week(1), Week(2), [type |-> "monthly", first |-> 1, last |-> 2]}
MCDays == 1..3

-----------------------------------------------------------------------------
Off == "off"
RelevanceOff == Init /\ file.kind = "absent"
TranslationOff == TranslationInit
SelectionOff ==
    /\ items = Off /\ quotas = Off /\ llm = Off /\ tagged = Off /\ groups = Off /\ stories = Off /\ scored = Off
    /\ state = Off /\ ranked = Off /\ verdict = Off /\ pass = Off /\ place = Off /\ used = Off
    /\ dropped = Off /\ sections = Off /\ output = Off
ReportOff == ReportInit /\ archives = [d \in Days |-> NoArchive]

CurationInit ==
    \/ part = "relevance" /\ Init /\ TranslationOff /\ SelectionOff /\ ReportOff
    \/ part = "translation" /\ TranslationInit /\ RelevanceOff /\ SelectionOff /\ ReportOff
    \/ part = "selection" /\ SelectionInit /\ RelevanceOff /\ TranslationOff /\ ReportOff
    \/ part = "reports" /\ ReportInit /\ RelevanceOff /\ TranslationOff /\ SelectionOff
RelevanceStep == part = "relevance" /\ Next /\ UNCHANGED <<part, translationVars, selectionVars, reportVars>>
TranslationPart(step) == part = "translation" /\ step /\ UNCHANGED <<part, vars, selectionVars, reportVars>>
SelectionStep == part = "selection" /\ SelectionNext /\ UNCHANGED <<part, vars, translationVars, reportVars>>
ReportStep == part = "reports" /\ ReportNext /\ UNCHANGED <<part, vars, translationVars, selectionVars>>
CurationNext == RelevanceStep \/ TranslationPart(TranslationNext) \/ SelectionStep \/ ReportStep

(* The fairness of Translation, the only one of the parts to need one.        *)
CurationSpec ==
    /\ CurationInit /\ [][CurationNext]_curationVars
    /\ WF_curationVars(TranslationPart(TranslationStep))

=============================================================================
