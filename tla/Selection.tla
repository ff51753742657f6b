----------------------------- MODULE Selection -----------------------------
(***************************************************************************)
(* From the items of a run to the sections of its report: _run_linking_    *)
(* phase and _run_ranking_phase of src/src/cli/digest.py, with the state   *)
(* machines of the linker and the ranker, one after the other, and the     *)
(* loops of the quota filter, one story at a time.                         *)
(***************************************************************************)
EXTENDS Ranker

CONSTANTS
    Pool,           \* the items a store may hold, as a sequence
    Lookback,       \* lookback_hours, in days
    Quotas,         \* the quotas a configuration may set
    LlmScores       \* what the relevance phase may have returned: id -> score

(* get_items_published_since: by publication date, and a date to come counts. *)
InWindow(item) == item.day # None /\ item.day > Today - Lookback

StoredItem ==
    [url : Nat, site : STRING, ids : [arxiv : Nat, github : Nat, hf : Nat, ms : Nat], raw : Nat,
     source : STRING, tier : Nat, kind : STRING, title : DOMAIN Similar, day : Nat,
     conf : DOMAIN ConfidenceRank, hits : Seq([entity : Nat, score : Int]), topics : SUBSET DOMAIN Topics,
     citations : DOMAIN Scoring.logCitations, signals : SUBSET QualitySignals, category : STRING,
     excluded : BOOLEAN]
(* The store holds a URL once, and whatever a score adds up is a number.      *)
ASSUME SelectionAssumption ==
    /\ PreferOrder \in Seq(STRING) /\ Pool \in Seq(StoredItem) /\ DOMAIN Similar \subseteq Nat /\ IsFiniteSet(QualitySignals)
    /\ \A i, j \in DOMAIN Pool : Pool[i].url = Pool[j].url => i = j
    /\ Today \in Int /\ Lookback \in Int
    /\ Scoring \in
         [tier0 : Int, tier1 : Int, tier2 : Int, kinds : [DOMAIN Scoring.kinds -> Int], otherKind : Int,
          topicMatch : Int, topicCap : Int, undated : Int, decay : [DOMAIN Scoring.decay -> Int],
          maxRecencyDays : Int, entityMatch : Int, logCitations : [DOMAIN Scoring.logCitations -> Int],
          fullCitations : Int, citation : Int, crossSource : Int, crossSourceCap : Int,
          similarityThreshold : Int, semantic : Int, llmWeight : Int, llmFull : Int]
    /\ 0 \in DOMAIN Scoring.logCitations /\ DOMAIN Scoring.logCitations \subseteq Nat
    /\ \A i \in DOMAIN Pool : InWindow(Pool[i]) =>
         Least(Today - Pool[i].day, Scoring.maxRecencyDays) \in DOMAIN Scoring.decay
    /\ \A topics \in SUBSET DOMAIN Topics : BoostOf(topics) \in Int
    /\ \A title \in DOMAIN Similar : Similar[title] \in Seq(Int \X Int)
    /\ \A scores \in LlmScores : \A id \in DOMAIN scores : scores[id] \in Int

VARIABLES
    items,          \* the items of the window, in the order of the query
    quotas, llm,
    state,          \* LinkerState, then RankerState
    tagged, groups, stories, scored,
    ranked,         \* what the quota filter goes through
    verdict,        \* place of ranked -> what the filter says of the story
    pass, place, used,
    dropped,        \* _dropped
    sections, output

linkedVars == <<items, quotas, llm, tagged, groups, stories, scored>>
filterVars == <<ranked, verdict, pass, place, used>>
selectionVars == <<linkedVars, state, filterVars, dropped, sections, output>>

NotYet == <<>>

(* ORDER BY published_at DESC leaves the order within a date to SQLite: here   *)
(* by URL, upwards or downwards.                                              *)
Query(stored) ==
    LET found == Pick(Pool, {i \in DOMAIN Pool : Pool[i].url \in stored /\ InWindow(Pool[i])})
    IN  {SortBy(found, [i \in DOMAIN found |-> <<-found[i].day, way * found[i].url>>]) : way \in {1, -1}}

SelectionInit ==
    /\ items \in UNION {Query(stored) : stored \in SUBSET {Pool[i].url : i \in DOMAIN Pool}}
    /\ quotas \in Quotas /\ llm \in LlmScores
    /\ state = "ITEMS_READY"
    /\ tagged = NotYet /\ groups = NotYet /\ stories = NotYet /\ scored = NotYet
    /\ ranked = NotYet /\ verdict = NotYet /\ pass = "none" /\ place = 0 /\ used = NotYet
    /\ dropped = NotYet /\ sections = NotYet /\ output = NotYet

Become(from, to) == state = from /\ state' = to

ToEntityTagged ==
    /\ Become("ITEMS_READY", "ENTITY_TAGGED")
    /\ tagged' = TagItems(items)
    /\ UNCHANGED <<items, quotas, llm, groups, stories, scored, filterVars, dropped, sections, output>>
ToCandidateGrouped ==
    /\ Become("ENTITY_TAGGED", "CANDIDATE_GROUPED")
    /\ groups' = GroupCandidates(tagged)
    /\ UNCHANGED <<items, quotas, llm, tagged, stories, scored, filterVars, dropped, sections, output>>
ToStoriesMerged ==
    /\ Become("CANDIDATE_GROUPED", "STORIES_MERGED")
    /\ stories' = MergeGroups(groups)
    /\ UNCHANGED <<items, quotas, llm, tagged, groups, scored, filterVars, dropped, sections, output>>
ToStoriesFinal ==
    /\ Become("STORIES_MERGED", "STORIES_FINAL")
    /\ stories' = FinalizeStories(stories)
    /\ UNCHANGED <<items, quotas, llm, tagged, groups, scored, filterVars, dropped, sections, output>>

ToScored ==
    /\ Become("STORIES_FINAL", "SCORED")
    /\ scored' = ScoreStories(stories, llm)
    /\ UNCHANGED <<items, quotas, llm, tagged, groups, stories, filterVars, dropped, sections, output>>

-----------------------------------------------------------------------------
(* apply_quotas: the stories are sorted, those excluded are dropped, and two  *)
(* passes with counts of their own go through the others.                     *)
BeginPass(quota, list) ==
    /\ pass' = quota /\ place' = 1
    /\ used' = [key \in {QuotaKey(quota, list[i]) : i \in DOMAIN list} |-> 0]

SortAndExclude ==
    /\ state = "SCORED" /\ pass = "none"
    /\ ranked' = SortByScore(scored)
    /\ LET excluded == {i \in DOMAIN ranked' : GetPaperExclusionKeyword(ranked'[i].story)}
           out == Pick(ranked', excluded)
       IN  /\ verdict' = [i \in DOMAIN ranked' |-> IF i \in excluded THEN "excluded" ELSE "kept"]
           /\ dropped' = [n \in DOMAIN out |-> RecordDrop(out[n], "excluded")]
    /\ BeginPass("source", ranked')
    /\ UNCHANGED <<linkedVars, state, sections, output>>

(* The story at place, unless it is dropped or the quota does not count it.   *)
Here == QuotaKey(pass, ranked[place])
Counted == verdict[place] = "kept" /\ (pass = "source" \/ Here # "none")
Admitted == used[Here] < QuotaMax(pass, quotas) \/ HasLlmBypass(ranked[place], quotas)

Visit ==
    /\ state = "SCORED" /\ place \in DOMAIN ranked
    /\ place' = place + 1
    /\ UNCHANGED <<linkedVars, state, ranked, pass, sections, output>>
PassOver ==
    /\ Visit /\ ~Counted
    /\ UNCHANGED <<verdict, used, dropped>>
(* Faulty variant: a story that bypasses the quota takes no slot.             *)
AdmitFree ==
    /\ Visit /\ Counted /\ Admitted
    /\ used' = IF HasLlmBypass(ranked[place], quotas) THEN used ELSE [used EXCEPT ![Here] = @ + 1]
    /\ UNCHANGED <<verdict, dropped>>
(* A story that bypasses the quota takes a slot too.                          *)
Admit ==
    /\ Visit /\ Counted /\ Admitted
    /\ used' = [used EXCEPT ![Here] = @ + 1]
    /\ UNCHANGED <<verdict, dropped>>
Drop ==
    /\ Visit /\ Counted /\ ~Admitted
    /\ verdict' = [verdict EXCEPT ![place] = pass]
    /\ dropped' = Append(dropped, RecordDrop(ranked[place], pass))
    /\ UNCHANGED used

(* A slot of its source that a story loses to its category stays used.        *)
NextPass ==
    /\ state = "SCORED" /\ pass = "source" /\ place \notin DOMAIN ranked
    /\ BeginPass("category", ranked)
    /\ UNCHANGED <<linkedVars, state, ranked, verdict, dropped, sections, output>>

ToQuotaFiltered ==
    /\ pass = "category" /\ place \notin DOMAIN ranked
    /\ Become("SCORED", "QUOTA_FILTERED")
    /\ sections' = AssignSections(Pick(ranked, {i \in DOMAIN ranked : verdict[i] = "kept"}), quotas)
    /\ dropped' = dropped \o [n \in DOMAIN sections'.left |-> RecordDrop(sections'.left[n], "radar")]
    /\ UNCHANGED <<linkedVars, filterVars, output>>
ToOrderedOutputs ==
    /\ Become("QUOTA_FILTERED", "ORDERED_OUTPUTS")
    /\ output' = BuildOutput(sections)
    /\ UNCHANGED <<linkedVars, filterVars, dropped, sections>>

SelectionNext ==
    \/ ToEntityTagged \/ ToCandidateGrouped \/ ToStoriesMerged \/ ToStoriesFinal
    \/ ToScored \/ SortAndExclude \/ PassOver \/ Admit \/ Drop \/ NextPass
    \/ ToQuotaFiltered \/ ToOrderedOutputs

SelectionSpec == SelectionInit /\ [][SelectionNext]_selectionVars

-----------------------------------------------------------------------------
Filtered == state \in {"QUOTA_FILTERED", "ORDERED_OUTPUTS"}

(* Every item of the window is in one story, no two stories have one id, and  *)
(* every story is once in the sections a reader sees, none of which shows it  *)
(* twice, or once in the record of the drops (linker.py:1-10 "deterministic", *)
(* RankerResult.dropped_entries).                                             *)
NothingLost ==
    state = "ORDERED_OUTPUTS" =>
        LET shown == Displayed(output)
            Shows(id) == {n \in DOMAIN shown : shown[n].id = id}
            Drops(id) == {n \in DOMAIN dropped : dropped[n].id = id}
            Has(item) == {at \in UNION {{k} \X (DOMAIN stories[k].items) : k \in DOMAIN stories} :
                            stories[at[1]].items[at[2]] = item}
        IN  /\ \A i \in DOMAIN items : Cardinality(Has(items[i])) = 1
            /\ \A k, l \in DOMAIN stories : stories[k].id = stories[l].id => k = l
            /\ \A k \in DOMAIN stories :
                 Cardinality(Shows(stories[k].id)) + Cardinality(Drops(stories[k].id)) = 1
            /\ {shown[n] : n \in DOMAIN shown} \subseteq {stories[k] : k \in DOMAIN stories}
            /\ {dropped[n].id : n \in DOMAIN dropped} \subseteq {stories[k].id : k \in DOMAIN stories}
            /\ CollectRankerStories(output) = shown

(* A story that meets a quota passes it exactly if it bypasses it or fewer    *)
(* stories of its source or category than the quota has slots are ranked      *)
(* above it and passed (quota.py:205, 270): a low story never takes the place *)
(* of a better one, and no slot stays empty while a story is refused.         *)
Meets(i, quota) ==
    IF quota = "source" THEN verdict[i] # "excluded"
    ELSE verdict[i] \notin {"excluded", "source"} /\ QuotaKey(quota, ranked[i]) # "none"
Passes(i, quota) == Meets(i, quota) /\ verdict[i] # quota
PassedAbove(i, quota) ==
    {j \in 1..(i - 1) : Passes(j, quota) /\ QuotaKey(quota, ranked[j]) = QuotaKey(quota, ranked[i])}
QuotaExact ==
    Filtered =>
        \A quota \in {"source", "category"} : \A i \in DOMAIN ranked : Meets(i, quota) =>
            (Passes(i, quota) <=> \/ HasLlmBypass(ranked[i], quotas)
                                  \/ Cardinality(PassedAbove(i, quota)) < QuotaMax(quota, quotas))

(* What is ranked, and so the report, is a function of the stories, not of    *)
(* the order in which the linker or the store has them (ranker.py             *)
(* "deterministic tie-breaker").                                              *)
OrderIrrelevant ==
    Filtered => \A i, j \in DOMAIN stories :
                  LET other == [stories EXCEPT ![i] = stories[j], ![j] = stories[i]]
                  IN  SortByScore(ScoreStories(other, llm)) = ranked
=============================================================================
