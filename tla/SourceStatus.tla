---------------------------- MODULE SourceStatus ----------------------------
(***************************************************************************)
(* The status of a source at the end of a run                              *)
(* (src/src/features/status/computer.py, error_mapper.py), from what the   *)
(* runner kept of its poll: error "none" or an error class, the state of   *)
(* the collector, the items upserted, and how many were new and updated.   *)
(***************************************************************************)
EXTENDS FiniteSetsExt

ParseErrors == {"PARSE", "SCHEMA"}
Emitted(result) == Cardinality(result.items)

(* _check_fetch_parse_status: a failure nobody explained is one of the fetch. *)
ParseOk(result) == result.error = "none" /\ (result.state = "SOURCE_FAILED" => Emitted(result) > 0)
FetchOk(result) == ParseOk(result) \/ result.error \in ParseErrors

AllDatesMissing(result) == result.items # {} /\ \A item \in result.items : item.date = 0
HasStableOrdering(method) == method \in {"arxiv_api", "github_releases", "openreview_venue"}
NewestItemDate(result) == Max({item.date : item \in result.items} \cup {0})

(* No message is passed, so a timeout or a 404 reads as a network error.      *)
NetworkError == "FETCH_NETWORK_ERROR"
ParseReason(error) == IF error = "SCHEMA" THEN "PARSE_SCHEMA_ERROR" ELSE "PARSE_HTML_ERROR"

(* Faulty variant: an update is news only if some item is new.                *)
ClassifyByNew(result, method) ==
    CASE ~FetchOk(result) -> <<"FETCH_FAILED", NetworkError>>
      [] FetchOk(result) /\ ~ParseOk(result) -> <<"PARSE_FAILED", ParseReason(result.error)>>
      [] ParseOk(result) /\ result.new > 0 -> <<"HAS_UPDATE", "FETCH_PARSE_OK_HAS_NEW">>
      [] OTHER -> <<"NO_UPDATE", "FETCH_PARSE_OK_NO_DELTA">>

(* _classify_status, its rules in their order; the guard of the last one      *)
(* cannot trip after the first two, and a status-only source has no collector *)
(* and so no result in a run.                                                 *)
ClassifyStatus(result, method) ==
    CASE method = "status_only" -> <<"STATUS_ONLY", "STATUS_ONLY_SOURCE">>
      [] method # "status_only" /\ ~FetchOk(result) -> <<"FETCH_FAILED", NetworkError>>
      [] method # "status_only" /\ FetchOk(result) /\ ~ParseOk(result) ->
            <<"PARSE_FAILED", ParseReason(result.error)>>
      [] OTHER ->
            IF result.new > 0 THEN <<"HAS_UPDATE", "FETCH_PARSE_OK_HAS_NEW">>
            ELSE IF result.updated > 0 THEN <<"HAS_UPDATE", "FETCH_PARSE_OK_HAS_UPDATED">>
            ELSE IF AllDatesMissing(result) /\ ~HasStableOrdering(method)
                 THEN <<"CANNOT_CONFIRM", "DATES_MISSING_NO_ORDERING">>
            ELSE <<"NO_UPDATE", "FETCH_PARSE_OK_NO_DELTA">>

ComputeSingle(result, method) ==
    LET status == ClassifyStatus(result, method)
    IN  [status |-> status[1], reason |-> status[2], newest |-> NewestItemDate(result),
         new |-> result.new, updated |-> result.updated]

(* compute_all, for the sources of the runner's results.                      *)
ComputeAll(results, methods) == [s \in DOMAIN results |-> ComputeSingle(results[s], methods[s])]
=============================================================================
