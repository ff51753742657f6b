-------------------------------- MODULE MCRun --------------------------------
(* The run command and what its collectors get from servers, each on a small  *)
(* instance of its own: a behaviour is one of Pipeline, of HttpFetcher, or of *)
(* Ingest with servers that answer.                                           *)
EXTENDS HttpFetcher, MCPipeline

CONSTANTS
    e1, m1, e2,
    NewsEtag,    \* the pages of the part "news" that have an ETag
    NewsDate     \* those that have a Last-Modified

VARIABLES part, version, newsRow, stored, state, running, dropped, ended

newsVars == <<version, newsRow, stored, state, running, dropped, ended>>
runVars == <<part, vars, pipelineVars, newsVars>>

(* One reply of every class, and the pairs of validators a server that        *)
(* changed its page once could send.                                          *)
Reply(kind, etag, modified, retryAfter) ==
    [kind |-> kind, etag |-> etag, modified |-> modified, retryAfter |-> retryAfter]

MCTags == {NoTag, e1, m1, e2}
MCReplies ==
    {Reply(k, NoTag, NoTag, 0) : k \in ReplyKinds \ {"rate_limited"}}
    \cup {Reply("rate_limited", NoTag, NoTag, n) : n \in {-1, 0, 5, 100}}
    \cup {Reply("ok", e1, m1, 0), Reply("ok", e2, NoTag, 0),
          Reply("not_modified", e1, NoTag, 0), Reply("client_error", e2, NoTag, 0)}

(* Two lists of pages, one with no dates.                                     *)
ListThenPages == <<"list", "blog">>
NewsKind == [s \in {"list", "blog"} |-> "html"]
News == INSTANCE Ingest WITH
          row <- newsRow, run <- running, Order <- ListThenPages, Kind <- NewsKind,
          UsesEtag <- NewsEtag, UsesDate <- NewsDate, Undated <- {"blog"}, Window <- 2, MaxItems <- 1,
          PageCap <- 2, MaxVersion <- 3, Failures <- {}

-----------------------------------------------------------------------------
RunInit == Init /\ PipelineInit /\ News!IngestInit /\ part \in {"fetch", "pipeline", "news"}

FetchStep == part = "fetch" /\ Next /\ UNCHANGED <<part, pipelineVars, newsVars>>
PipelinePart(step) == part = "pipeline" /\ step /\ UNCHANGED <<part, vars, newsVars>>
NewsPart(step) == part = "news" /\ step /\ UNCHANGED <<part, vars, pipelineVars>>
RunNext == FetchStep \/ PipelinePart(PipelineNext) \/ NewsPart(News!IngestNext)

(* The fairness of Pipeline and of Ingest.                                    *)
RunSpec ==
    /\ RunInit /\ [][RunNext]_runVars
    /\ WF_runVars(PipelinePart(GoOn)) /\ WF_runVars(NewsPart(News!ProcessStep))

-----------------------------------------------------------------------------
(* The newest item of a page that has settled reaches the items table.        *)
NewsArrives == part = "news" /\ version["list"] = 3 ~> (part = "news" => 3 \in stored["list"])

(* item_fetcher.py:112 "Fetches up to K item pages to extract dates": every   *)
(* item page within the cap that answers gives its date.                      *)
NewsDatesRecovered == [][part = "news" => News!RecoverDates]_runVars

(* Answered requests fail no source.  Not so, see the README.                 *)
NewsSucceeds == part = "news" => News!NotModifiedSucceeds
=============================================================================
