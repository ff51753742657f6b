------------------------------- MODULE Linker -------------------------------
(***************************************************************************)
(* The story linker, src/src/linker/: items that name one artefact become  *)
(* one story.  Everything here is a function of the items; Selection runs  *)
(* it.  An item is a record                                                *)
(*   url     its rank in the order of URLs; the store holds a URL once     *)
(*   site    the host pattern its URL matches, "other" if none             *)
(*   ids     what the URL patterns find: arxiv, github, hf, ms (None or n) *)
(*   raw     the arxiv_id of its raw_json                                  *)
(*   source, tier, kind, title, day (None: no date), conf                  *)
(*   hits    the entities its text mentions, in configuration order, each  *)
(*           with its match score                                          *)
(* and what the ranker reads of it, see Ranker.                            *)
(***************************************************************************)
EXTENDS Integers, Sequences, SequencesExt, Orders

CONSTANT PreferOrder        \* topics.prefer_primary_link_order

None == 0
Sites == {"arxiv", "github", "huggingface", "modelscope", "openreview"}
KindLinkTypes == [blog |-> "blog", news |-> "blog", paper |-> "paper", docs |-> "docs", release |-> "github"]
AllowlistedLinkTypes ==
    Sites \cup {"official", "paper", "blog", "docs"}

-----------------------------------------------------------------------------
InferLinkType(item) ==
    IF item.site \in Sites THEN item.site
    ELSE IF item.kind \in DOMAIN KindLinkTypes THEN KindLinkTypes[item.kind]
    ELSE IF item.tier = 0 THEN "official" ELSE "blog"

CreateStoryLink(item) ==
    [url |-> item.url, type |-> InferLinkType(item), source |-> item.source,
     tier |-> item.tier, title |-> item.title]

DedupeLinks(links) == Distinct(links, [i \in DOMAIN links |-> <<links[i].type, links[i].url>>])

TypePriority(type) ==
    LET places == {i \in DOMAIN PreferOrder : PreferOrder[i] = type}
    IN  IF places = {} THEN Len(PreferOrder) + 1 ELSE FirstPlace(places)

(* The configured order of the types first, then the tier, then the input's.  *)
SelectPrimaryLink(links) ==
    LET allowlisted == Pick(links, {i \in DOMAIN links : links[i].type \in AllowlistedLinkTypes})
        priority == [i \in DOMAIN allowlisted |-> <<TypePriority(allowlisted[i].type), allowlisted[i].tier>>]
    IN  IF Len(links) = 1 \/ allowlisted = <<>> THEN links[1] ELSE SortBy(allowlisted, priority)[1]

-----------------------------------------------------------------------------
(* An id is a tuple of numbers whose order is the order of the strings:       *)
(* "arxiv:" < "fallback:" < "github:" < "hf:" < "ms:".                        *)
(* The first that is there of: arXiv id of the URL, arXiv id of raw_json (as  *)
(* it is written there), GitHub release, Hugging Face, ModelScope.            *)
NoId == <<0, 0, 0, 0>>
ExtractStableId(item) ==
    IF item.ids.arxiv # None THEN <<1, item.ids.arxiv, 0, 0>>
    ELSE IF item.raw # None THEN <<1, item.raw, 0, 0>>
    ELSE IF item.ids.github # None THEN <<3, item.ids.github, 0, 0>>
    ELSE IF item.ids.hf # None THEN <<4, item.ids.hf, 0, 0>>
    ELSE IF item.ids.ms # None THEN <<5, item.ids.ms, 0, 0>>
    ELSE NoId

(* extract_all_stable_ids: of each kind the first a URL of the group has; an  *)
(* arXiv id of raw_json is not among them.                                    *)
FirstGiven(values) ==
    LET given == {i \in DOMAIN values : values[i] # None} IN IF given = {} THEN None ELSE values[FirstPlace(given)]
ExtractAllStableIds(items) ==
    [arxiv |-> FirstGiven([i \in DOMAIN items |-> items[i].ids.arxiv]),
     hf |-> FirstGiven([i \in DOMAIN items |-> items[i].ids.hf]),
     github |-> FirstGiven([i \in DOMAIN items |-> items[i].ids.github])]

GetDateBucket(items) == FirstGiven([i \in DOMAIN items |-> items[i].day])

(* The hash of normalized title, first entity and date is taken as injective. *)
FallbackId(items, entities) ==
    <<2, items[1].title, IF entities = <<>> THEN None ELSE entities[1], GetDateBucket(items)>>
GenerateStoryId(items, entities) ==
    LET identified == {i \in DOMAIN items : ExtractStableId(items[i]) # NoId}
    IN  IF identified # {} THEN ExtractStableId(items[FirstPlace(identified)]) ELSE FallbackId(items, entities)

-----------------------------------------------------------------------------
(* match_item_to_entities: best match first.                                  *)
MatchItemToEntities(item) ==
    LET best == SortBy(item.hits, [i \in DOMAIN item.hits |-> <<-item.hits[i].score>>])
    IN  [i \in DOMAIN best |-> best[i].entity]

TagItems(items) ==
    [i \in DOMAIN items |->
       [item |-> items[i], entities |-> MatchItemToEntities(items[i]), id |-> ExtractStableId(items[i])]]

(* Faulty variant: an item without a stable id is a group of its own.         *)
GroupKeyOfUrl(tagged) == IF tagged.id # NoId THEN tagged.id ELSE <<2, tagged.item.url, 0, 0>>

GroupKey(tagged) ==
    IF tagged.id # NoId THEN tagged.id ELSE GenerateStoryId(<<tagged.item>>, tagged.entities)
GroupCandidates(tagged) == Grouped(tagged, [i \in DOMAIN tagged |-> GroupKey(tagged[i])])

CollectEntityIds(group) ==
    LET found == Joined([i \in DOMAIN group |-> group[i].entities]) IN Distinct(found, found)

(* The confidences are sorted as strings: "high" < "low" < "medium".          *)
ConfidenceRank == [high |-> 1, low |-> 2, medium |-> 3]
GetBestPublishedAt(items) ==
    LET sorted == SortBy(items, [i \in DOMAIN items |-> <<ConfidenceRank[items[i].conf]>>])
    IN  FirstGiven([i \in DOMAIN sorted |-> sorted[i].day])

CreateStoryFromGroup(group) ==
    LET items == [i \in DOMAIN group |-> group[i].item]
        entities == CollectEntityIds(group)
        links == DedupeLinks([i \in DOMAIN items |-> CreateStoryLink(items[i])])
        ids == ExtractAllStableIds(items)
    IN  [id |-> GenerateStoryId(items, entities), primary |-> SelectPrimaryLink(links),
         links |-> links, entities |-> entities, day |-> GetBestPublishedAt(items),
         arxiv |-> ids.arxiv, hf |-> ids.hf, items |-> items]
MergeGroups(groups) == [g \in DOMAIN groups |-> CreateStoryFromGroup(groups[g])]

(* Dated stories first, the newest first, then by id, backwards too; the rest *)
(* by id.                                                                     *)
FinalOrder(story) ==
    IF story.day = None THEN <<1, 0, story.id[1], story.id[2], story.id[3], story.id[4]>>
    ELSE <<0, -story.day, -story.id[1], -story.id[2], -story.id[3], -story.id[4]>>
FinalizeStories(stories) == SortBy(stories, [k \in DOMAIN stories |-> FinalOrder(stories[k])])
=============================================================================
