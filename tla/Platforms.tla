----------------------------- MODULE Platforms -----------------------------
(***************************************************************************)
(* The collectors (src/src/collectors/: platform/, arxiv/rss.py, arxiv/    *)
(* api.py for its entries, rss_atom.py, html_list.py): what each makes of  *)
(* an entry, which edits its content hash notices, what the upserts of     *)
(* successive sources leave in the one row a URL has, and what the run     *)
(* says of each source.  The sources of a configuration list the same      *)
(* things, which their servers edit meanwhile; what happens to a request,  *)
(* conditional or refused, is in HttpFetcher and Ingest.                   *)
(***************************************************************************)
EXTENDS Linker, SourceStatus

CONSTANTS
    SourceLists,    \* the configurations: sequences of sources
    Platform,       \* source -> platform
    Things,         \* the releases, models, notes, papers or posts
    QualitySources, \* QUALITY_SIGNAL_SOURCES
    OwnPages,       \* the papers Papers With Code shows a page of its own for
    ItemCap,        \* max_items of a source, 0 for no cap
    PageFetches,    \* max_item_page_fetches of a profile
    Lookback,
    MaxEdits        \* bounds the edits of the servers

VARIABLES
    moment,         \* the time, which only the edits of the servers move
    sources,        \* the configuration
    thing,          \* thing -> what its servers say of it, 0 for what they do not
    rows,           \* URL -> row of the items table
    poll,           \* where the process is
    results         \* source_results: source -> what its poll in this run gave

platformVars == <<moment, sources, thing, rows, poll, results>>

NotPolling == [pc |-> "down", cur |-> 0, plain |-> {}, todo |-> {}]
(* SourceRunResult; read and wrote are history: whether the body was what it  *)
(* should be, and whether the poll changed a row.                             *)
NoResult == [items |-> {}, error |-> "none", state |-> "SOURCE_DONE", new |-> 0, updated |-> 0,
             read |-> TRUE, wrote |-> FALSE]
Polled == sources[poll.cur]
Here == Platform[Polled]
NoRows == [u \in {} |-> None]

Kinds == [github |-> "release", hf |-> "model", openreview |-> "note",
          rss |-> "paper", api |-> "paper", daily |-> "paper", pwc |-> "paper",
          blog |-> "post", list |-> "post"]
KindOfThings == Kinds[Platform[sources[1]]]

(* The sources of a configuration here all list things of one kind.           *)
ASSUME PlatformsAssumption ==
    /\ \A list \in SourceLists :
         /\ list \in Seq(DOMAIN Platform) /\ list # <<>>
         /\ \A i \in DOMAIN list : Platform[list[i]] \in DOMAIN Kinds /\ Kinds[Platform[list[i]]] = Kinds[Platform[list[1]]]
    /\ MaxEdits \in Nat

(* What the servers edit, and the edits that move the time of the last one: a *)
(* commit to a model, any edit of a note, a new version of a paper, any edit  *)
(* a reader of a post sees; the tags of a post, which nothing goes by, stay.  *)
Edited == [release |-> {"word", "letters", "body", "rest", "extra"}, model |-> {"label", "readme", "extra"},
           note |-> {"word", "body", "extra"}, paper |-> {"word", "body", "rest", "label", "extra"},
           post |-> {"word", "body"}]
Dating == [release |-> {}, model |-> {"label", "readme"}, note |-> {"word", "body", "extra"},
           paper |-> {"word", "body", "rest", "label"}, post |-> {"word", "body"}]

PlatformInit ==
    /\ moment = 0
    /\ sources \in SourceLists
    /\ thing = [t \in Things |-> [published |-> 0, updated |-> 0, word |-> 0, letters |-> 0, body |-> 0,
                                  rest |-> 0, label |-> 0, extra |-> 0, readme |-> 0]]
    /\ rows = NoRows /\ poll = NotPolling
    /\ results = <<>>

PublishThing(t) ==
    /\ thing[t].updated = 0 /\ moment < MaxEdits
    /\ moment' = moment + 1
    /\ \E published \in {0, moment'} :
         thing' = [thing EXCEPT ![t] = [f \in DOMAIN @ |-> IF f = "published" THEN published ELSE moment']]
    /\ UNCHANGED <<sources, rows, poll, results>>

Edit(t, field) ==
    /\ thing[t].updated # 0 /\ moment < MaxEdits
    /\ moment' = moment + 1
    /\ LET moved == {field} \cup (IF field \in Dating[KindOfThings] THEN {"updated"} ELSE {})
       IN  thing' = [thing EXCEPT ![t] = [f \in DOMAIN @ |-> IF f \in moved THEN moment' ELSE @[f]]]
    /\ UNCHANGED <<sources, rows, poll, results>>

-----------------------------------------------------------------------------
(* What a collector makes of an entry                                         *)

(* The hash of a title without its capitals, a URL and some fields.           *)
Hash(t, url, fields) == <<url, thing[t].word, [f \in fields |-> thing[t][f]]>>
Raw(t, arxiv, fields) == [platform |-> Here, arxiv |-> arxiv, shows |-> [f \in fields |-> thing[t][f]]]
Item(t, url, date, hash, raw) ==
    [url |-> url, source |-> Polled, thing |-> t, title |-> <<thing[t].word, thing[t].letters>>,
     date |-> date, hash |-> hash, raw |-> raw]

ReleaseUrl(t) == <<"github.com", t>>
RawRelease(t) == Raw(t, None, {"label", "extra", "word", "published", "body", "rest"})
HashRelease(t) == Hash(t, ReleaseUrl(t), {"label", "body", "published"})
ParseRelease(t) == Item(t, ReleaseUrl(t), thing[t].published, HashRelease(t), RawRelease(t))

ModelUrl(t) == <<"huggingface.co", t>>
RawModel(t) == Raw(t, None, {"updated", "label", "extra"})
HashModel(t) == Hash(t, ModelUrl(t), {"updated", "label"})
ParseModel(t) == Item(t, ModelUrl(t), thing[t].updated, HashModel(t), RawModel(t))

NoteUrl(t) == <<"openreview.net", t>>
RawNote(t) == Raw(t, None, {"updated", "extra", "word", "body", "published"})

(* Faulty variant: the hash of a note is its title alone.                     *)
HashNoteByTitle(t) == Hash(t, NoteUrl(t), {})
HashNote(t) == Hash(t, NoteUrl(t), {"updated"})
ParseNote(t) ==
    Item(t, NoteUrl(t), IF thing[t].updated # 0 THEN thing[t].updated ELSE thing[t].published,
         HashNote(t), RawNote(t))

(* An arXiv URL is <<host, paper, version>>, version 0 for none.              *)
AbsUrl(t) == <<"arxiv.org", t, 0>>
ExtractDate(t) == IF thing[t].published # 0 THEN thing[t].published ELSE thing[t].updated
RawEntry(t) == Raw(t, t, {"word", "body", "rest", "label"})
HashEntry(t) == Hash(t, AbsUrl(t), {"body", "label", "updated"})
ParseEntry(t) == Item(t, AbsUrl(t), ExtractDate(t), HashEntry(t), RawEntry(t))

ExtractApiDates(t) == IF thing[t].published # 0 THEN thing[t].published ELSE thing[t].updated
RawApiEntry(t) == Raw(t, t, {"word", "body", "rest", "label", "published", "updated"})
HashApiEntry(t) == Hash(t, AbsUrl(t), {"body", "label", "updated"})
ParseApiEntry(t) == Item(t, AbsUrl(t), ExtractApiDates(t), HashApiEntry(t), RawApiEntry(t))

ParseDailyPaper(t) ==
    Item(t, AbsUrl(t), thing[t].published, Hash(t, AbsUrl(t), {}), Raw(t, t, {"extra", "body", "rest"}))

(* The URL is the first version's, and canonicalize_url leaves that in it.    *)
AbsUrlWithVersion(t) == <<"arxiv.org", t, 1>>
PwcUrl(t) == IF t \in OwnPages THEN <<"paperswithcode.com", t>> ELSE AbsUrlWithVersion(t)

(* The id in the arxiv_id field, if the entry has it (given are the papers    *)
(* that do), or else in the URL; a page of its own may be all there is.       *)
IdIn(url) == IF url[1] = "arxiv.org" THEN url[2] ELSE None
(* Faulty variant: the id is taken from the field as it is, with its version. *)
ExtractArxivIdAsGiven(t, given) == IF t \in given THEN t + Cardinality(Things) ELSE IdIn(PwcUrl(t))
ExtractArxivId(t, given) == IF t \in given THEN t ELSE IdIn(PwcUrl(t))
ParsePwcPaper(t, given) ==
    Item(t, PwcUrl(t), thing[t].published, Hash(t, PwcUrl(t), {}),
         Raw(t, ExtractArxivId(t, given), {"extra", "body", "rest"}))

(* A feed dates a post by its publication, or else by its last update; an     *)
(* index page may show the former or none, and may be but a list of links.    *)
PostUrl(t) == <<"blog", t>>
HashPost(t, date, fields) ==
    <<PostUrl(t), thing[t].word, [f \in fields \cup {"date"} |-> IF f = "date" THEN date ELSE thing[t][f]]>>
ExtractFeedDate(t) == IF thing[t].published # 0 THEN thing[t].published ELSE thing[t].updated
ParseFeedEntry(t) ==
    Item(t, PostUrl(t), ExtractFeedDate(t), HashPost(t, ExtractFeedDate(t), {"body"}),
         Raw(t, None, {"word", "body", "rest", "label", "extra"}))
ParseContainer(t) ==
    Item(t, PostUrl(t), thing[t].published, HashPost(t, thing[t].published, {}), Raw(t, None, {"word", "body"}))
ParseLink(t) == Item(t, PostUrl(t), 0, HashPost(t, 0, {}), Raw(t, None, {"word"}))

-----------------------------------------------------------------------------
(* The items of a poll                                                        *)

FilterItemsByTime(items) == {i \in items : i.date # 0 /\ i.date >= moment - Lookback}

(* The first n, all for 0; equal ones in the order of their URLs.             *)
FirstBy(S, n, Key(_), Id(_)) ==
    {x \in S : n = 0 \/ Cardinality({y \in S : LexLess(<<-Key(y), Id(y)>>, <<-Key(x), Id(x)>>)}) < n}
EnforceMaxItems(items) == FirstBy(items, ItemCap, LAMBDA i : i.date, LAMBDA i : i.thing)
(* Without the sort the cap depends on the server's order.                    *)
EnforceMaxItemsUnsorted(items) ==
    {kept \in SUBSET items : IF ItemCap = 0 THEN kept = items
                             ELSE Cardinality(kept) = Cardinality(FirstBy(items, ItemCap, LAMBDA i : 0, LAMBDA i : i.thing))}

(* What the request asks for: the last releases, the models committed to last,*)
(* the notes created last, as many as the source may have.                    *)
Known == {t \in Things : thing[t].updated # 0}
LastBy(field) == FirstBy(Known, ItemCap, LAMBDA t : thing[t][field], LAMBDA t : t)

Poll(platform) == poll.pc = "fetch" /\ Here = platform
Result(result) == results' = [s \in DOMAIN results \cup {Polled} |-> IF s = Polled THEN result ELSE results[s]]
Give(items) ==
    /\ Result([NoResult EXCEPT !.items = items])
    /\ poll' = [poll EXCEPT !.pc = "upsert", !.todo = items]
Unfetched == UNCHANGED <<moment, sources, thing, rows>>

Releases == {ParseRelease(t) : t \in LastBy("published")}
CollectReleases ==
    /\ Poll("github")
    /\ Give(EnforceMaxItems(FilterItemsByTime(Releases)))
    /\ Unfetched
Models == {ParseModel(t) : t \in LastBy("updated")}
CollectModels ==
    /\ Poll("hf")
    /\ poll' = [poll EXCEPT !.pc = "readme", !.plain = EnforceMaxItems(FilterItemsByTime(Models))]
    /\ UNCHANGED results /\ Unfetched
Notes == {ParseNote(t) : t \in LastBy("published")}
CollectNotes ==
    /\ Poll("openreview")
    /\ Give(EnforceMaxItems(FilterItemsByTime(Notes)))
    /\ Unfetched
FeedEntries == {ParseEntry(t) : t \in Known}
CollectFeed ==
    /\ Poll("rss")
    /\ Give(EnforceMaxItems(FilterItemsByTime(FeedEntries)))
    /\ Unfetched
CollectQuery ==
    /\ Poll("api")
    /\ Give(EnforceMaxItems(FilterItemsByTime({ParseApiEntry(t) : t \in Known})))
    /\ Unfetched
DailyPapers == {ParseDailyPaper(t) : t \in Known}
CollectDailyPapers ==
    /\ Poll("daily")
    /\ \E items \in EnforceMaxItemsUnsorted(FilterItemsByTime(DailyPapers)) : Give(items)
    /\ Unfetched
PwcPapers(given) == {ParsePwcPaper(t, given) : t \in Known}
CollectPwcPapers ==
    /\ Poll("pwc")
    /\ \E given \in SUBSET Known :
       \E items \in EnforceMaxItemsUnsorted(FilterItemsByTime(PwcPapers(given))) : Give(items)
    /\ Unfetched
CollectPosts ==
    /\ Poll("blog")
    /\ Give(EnforceMaxItems(FilterItemsByTime({ParseFeedEntry(t) : t \in Known})))
    /\ Unfetched

(* The posts without a date are looked up on their own pages, the first on    *)
(* the index page up to the cap.                                              *)
ListItems == {{ParseContainer(t) : t \in Known}, {ParseLink(t) : t \in Known}}
CollectList ==
    /\ Poll("list")
    /\ \E items \in ListItems :
         LET undated == {i \in items : i.date = 0} IN
         \E asked \in SUBSET undated :
            /\ Cardinality(asked) = Min({PageFetches, Cardinality(undated)})
            /\ poll' = [poll EXCEPT !.pc = "pages", !.plain = asked, !.todo = items \ asked]
    /\ UNCHANGED results /\ Unfetched

(* Why a source may fail: a URL that is not the platform's, a refusal or an   *)
(* error of the fetch, a type that is not HTML, an exception.  Two collectors *)
(* say no reason, and take a 304 for a failure too.                           *)
Fail(reasons) ==
    /\ \E reason \in reasons : Result([NoResult EXCEPT !.error = reason, !.state = "SOURCE_FAILED"])
    /\ poll' = [poll EXCEPT !.pc = "polled"]
    /\ Unfetched
ReleasesFail == Poll("github") /\ Fail({"SCHEMA", "FETCH", "PARSE"})
ModelsFail == Poll("hf") /\ Fail({"SCHEMA", "FETCH", "PARSE"})
NotesFail == Poll("openreview") /\ Fail({"SCHEMA", "FETCH", "PARSE"})
FeedFails == Poll("rss") /\ Fail({"FETCH", "PARSE"})
QueryFails == Poll("api") /\ Fail({"FETCH", "PARSE"})
PostsFail == Poll("blog") /\ Fail({"FETCH", "PARSE"})
ListFails == Poll("list") /\ Fail({"FETCH", "PARSE"})

(* A body that is not the JSON, the feed or the page it should be: a parse    *)
(* warning, no items, and a source that is done.                              *)
BodyUnread ==
    /\ poll.pc = "fetch" /\ Here \in {"github", "hf", "openreview", "rss", "blog", "list"}
    /\ Result([NoResult EXCEPT !.read = FALSE])
    /\ poll' = [poll EXCEPT !.pc = "polled"]
    /\ Unfetched

DailyPapersFail == Poll("daily") /\ Fail({"none"})
PwcPapersFail == Poll("pwc") /\ Fail({"none"})

(* A README may be all headers and badges; its request may fail.              *)
ExtractReadmeSummary(t) == {0, thing[t].readme}
FetchReadmeSummary(t) == {0} \cup ExtractReadmeSummary(t)

(* _enrich_with_readme_summaries, after the cap, one request per item; the    *)
(* hash remains what it was.                                                  *)
ReadReadme(item, readme) ==
    /\ poll.pc = "readme" /\ item \in poll.plain
    /\ LET shows == IF readme = 0 THEN item.raw.shows
                    ELSE [f \in DOMAIN item.raw.shows \cup {"readme"} |->
                            IF f = "readme" THEN readme ELSE item.raw.shows[f]]
       IN  poll' = [poll EXCEPT !.plain = @ \ {item}, !.todo = @ \cup {[item EXCEPT !.raw.shows = shows]}]
    /\ UNCHANGED results /\ Unfetched
EnrichedAll ==
    /\ poll.pc = "readme" /\ poll.plain = {}
    /\ Give(poll.todo)
    /\ Unfetched

(* ItemPageFetcher: the date a page of a post gives, if it answers and says;  *)
(* the hash remains what it was.                                              *)
FetchAndExtractDate(t) == {0, thing[t].published, thing[t].updated}
RecoverDate(item, date) ==
    /\ poll.pc = "pages" /\ item \in poll.plain
    /\ LET shows == [f \in DOMAIN item.raw.shows \cup {"recovered"} |->
                       IF f = "recovered" THEN TRUE ELSE item.raw.shows[f]]
           recovered == IF date = 0 THEN item ELSE [item EXCEPT !.date = date, !.raw.shows = shows]
       IN  poll' = [poll EXCEPT !.plain = @ \ {item}, !.todo = @ \cup {recovered}]
    /\ UNCHANGED results /\ Unfetched
DatedAll ==
    /\ poll.pc = "pages" /\ poll.plain = {}
    /\ Give(EnforceMaxItems(FilterItemsByTime(poll.todo)))
    /\ Unfetched

-----------------------------------------------------------------------------
(* CollectorRunner.run, one source after another (the command has one worker),*)
(* for the sources of a method with a collector.  ArxivRssCollector is        *)
(* exported but not among the runner's; here it is run like the others.       *)
StartPolls ==
    /\ poll.pc = "down"
    /\ poll' = [NotPolling EXCEPT !.pc = "fetch", !.cur = 1]
    /\ results' = <<>>
    /\ Unfetched

(* upsert_item: a row with this hash is left as it is.                        *)
Event(item) == IF item.url \notin DOMAIN rows THEN "new"
               ELSE IF rows[item.url].hash # item.hash THEN "updated" ELSE "unchanged"
UpsertItem(item) ==
    /\ poll.pc = "upsert" /\ item \in poll.todo
    /\ poll' = [poll EXCEPT !.todo = @ \ {item}]
    /\ rows' = IF Event(item) = "unchanged" THEN rows
               ELSE [u \in DOMAIN rows \cup {item.url} |-> IF u = item.url THEN item ELSE rows[u]]
    /\ Result([results[Polled] EXCEPT !.new = IF Event(item) = "new" THEN @ + 1 ELSE @,
                                      !.updated = IF Event(item) = "updated" THEN @ + 1 ELSE @,
                                      !.wrote = @ \/ rows' # rows])
    /\ UNCHANGED <<moment, sources, thing>>
Upserted ==
    /\ poll.pc = "upsert" /\ poll.todo = {}
    /\ poll' = [poll EXCEPT !.pc = "polled"]
    /\ UNCHANGED results /\ Unfetched

NextPoll ==
    /\ poll.pc = "polled"
    /\ poll' = IF poll.cur < Len(sources) THEN [NotPolling EXCEPT !.pc = "fetch", !.cur = poll.cur + 1] ELSE NotPolling
    /\ UNCHANGED results /\ Unfetched

PlatformNext ==
    \/ \E t \in Things : PublishThing(t) \/ \E field \in Edited[KindOfThings] : Edit(t, field)
    \/ StartPolls \/ NextPoll
    \/ CollectReleases \/ CollectModels \/ CollectNotes \/ CollectFeed \/ CollectQuery
    \/ CollectDailyPapers \/ CollectPwcPapers \/ CollectPosts \/ CollectList
    \/ ReleasesFail \/ ModelsFail \/ NotesFail \/ FeedFails \/ QueryFails \/ DailyPapersFail \/ PwcPapersFail
    \/ PostsFail \/ ListFails
    \/ \E item \in poll.plain : \E readme \in FetchReadmeSummary(item.thing) : ReadReadme(item, readme)
    \/ \E item \in poll.plain : \E date \in FetchAndExtractDate(item.thing) : RecoverDate(item, date)
    \/ EnrichedAll \/ DatedAll \/ BodyUnread \/ Upserted
    \/ \E item \in poll.todo : UpsertItem(item)

PlatformSpec == PlatformInit /\ [][PlatformNext]_platformVars

-----------------------------------------------------------------------------
(* Once the items of a source are in the store their rows show what the       *)
(* source said, in the fields of which the server dates every edit or the     *)
(* collector hashes the value, whichever source wrote the row last and        *)
(* however many runs ago: UNCHANGED (store.py:435) never hides an edit.  The  *)
(* date a page of a post gave is in no hash, and stays the first that it was. *)
Noticed == [github |-> {"label", "word", "published", "body"}, hf |-> {"updated", "label"},
            openreview |-> {"updated", "extra", "word", "body", "published"},
            rss |-> {"word", "body", "rest", "label"}, api |-> {"word", "body", "rest", "label"},
            daily |-> {}, pwc |-> {}, blog |-> {"word", "body"}, list |-> {"word"}]
EditStored ==
    poll.pc = "polled" =>
        \A item \in results[Polled].items :
            LET row == rows[item.url] IN
            /\ row.title[1] = item.title[1]
            /\ row.date = item.date \/ "recovered" \in DOMAIN item.raw.shows
            /\ \A f \in Noticed[Here] : row.raw.shows[f] = item.raw.shows[f]

(* The rows that name a paper, by an arXiv URL or by an id in their raw_json, *)
(* whichever source wrote them and with whatever version, are one story to    *)
(* the linker, and not that of another paper (story_id.py:129).  A row of     *)
(* Papers With Code that names none has no part in it: it is a story of its   *)
(* own (papers_with_code.py:49).                                              *)
IdsOfUrl(row) ==
    LET Named(host) == IF row.url[1] = host THEN row.thing ELSE None
    IN  [arxiv |-> Named("arxiv.org"), github |-> Named("github.com"), hf |-> Named("huggingface.co"), ms |-> None]
StableId(row) == ExtractStableId([ids |-> IdsOfUrl(row), raw |-> row.raw.arxiv])
NamesPaper(row) == row.raw.arxiv # None \/ row.url[1] = "arxiv.org"
OneStory ==
    KindOfThings = "paper" =>
        \A u, v \in DOMAIN rows :
            NamesPaper(rows[u]) /\ NamesPaper(rows[v]) =>
                ((StableId(rows[u]) = StableId(rows[v])) <=> (rows[u].thing = rows[v].thing))

(* ranker/constants.py:31 "Papers appearing in these curated/targeted sources *)
(* get a bonus": its row names the source, or has its flag.  Not so, see the  *)
(* README.                                                                    *)
Bonus(row) == row.source \in QualitySources \/ row.raw.platform \in {"daily", "pwc"}
BonusGiven ==
    poll.pc = "down" => \A s \in DOMAIN results \cap QualitySources :
                          \A item \in results[s].items : Bonus(rows[item.url])

(* What the digest says of the sources once they are all polled.              *)
Methods == [github |-> "github_releases", hf |-> "hf_org", openreview |-> "openreview_venue",
            rss |-> "arxiv_rss", api |-> "arxiv_api", daily |-> "hf_daily_papers", pwc |-> "papers_with_code",
            blog |-> "rss_atom", list |-> "html_list"]
Statuses == ComputeAll(results, [s \in DOMAIN results |-> Methods[Platform[s]]])

(* A source is shown to have an update exactly if the run wrote a row for it, *)
(* and no collector's failure, explained or not, is shown as nothing new: the *)
(* row of a source on the page agrees with the items table (computer.py:65).  *)
StatusTold ==
    poll.pc = "down" =>
        \A s \in DOMAIN results :
            LET shown == Statuses[s] IN
            /\ (shown.status = "HAS_UPDATE") <=> results[s].wrote
            /\ results[s].state = "SOURCE_FAILED" => shown.status \in {"FETCH_FAILED", "PARSE_FAILED"}

(* computer.py:66 "NO_UPDATE: fetch+parse ok, zero NEW/UPDATED items".  Not   *)
(* so, see the README.                                                        *)
NoUpdateParsed ==
    poll.pc = "down" => \A s \in DOMAIN results : Statuses[s].status = "NO_UPDATE" => results[s].read
=============================================================================
