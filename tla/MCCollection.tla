---------------------------- MODULE MCCollection ----------------------------
(* The collection, each module on small instances of its own: a behaviour is  *)
(* one of Ingest, of ArxivApi, of Platforms, of TokenBucket, of Migrations or  *)
(* of StateStore without its lock.  The variables of the others keep the       *)
(* values they begin with.                                                     *)
EXTENDS StateStore, Migrations, TokenBucket, ArxivApi, Ingest, Platforms

VARIABLE part

storeVars == <<clock, items, runs, conns, lock, returned, newReports>>
collectionVars == <<part, ingestVars, apiVars, platformVars, storeVars, bucketVars, migrationVars>>

(* Two sources of a run in which anything may fail: one that takes a 304 for  *)
(* a failure, one that does not.                                              *)
StrictThenFeed == <<"strict", "feed">>
FaultKind == [s \in {"strict", "feed"} |-> IF s = "feed" THEN "rss" ELSE "strict"]

(* A query of the daily run and one of a backfill, with pages of one paper.   *)
MCBackfill == <<FALSE, TRUE>>
MCBackoff == [a \in 0..1 |-> a + 1]

(* One source of releases, models or notes; a paper or a post in two sources. *)
MCPlatform ==
    [releases |-> "github", models |-> "hf", notes |-> "openreview", feed |-> "rss",
     category |-> "api", keyword |-> "api", daily |-> "daily", code |-> "pwc",
     posts |-> "blog", index |-> "list"]
MCSourceLists ==
    {<<"releases">>, <<"models">>, <<"notes">>, <<"feed", "keyword">>, <<"category", "daily">>, <<"keyword", "code">>,
     <<"posts", "index">>}
MCNoOrder == <<>>

(* The one migration, some of its statements.                                 *)
MCUpSql == <<<<"runs", "http_cache", "items">>>>

-----------------------------------------------------------------------------
CollectionInit ==
    /\ Init /\ MigrationInit /\ BucketInit /\ ApiInit /\ IngestInit /\ PlatformInit
    /\ part \in {"faults", "api", "platforms", "bucket", "migrations", "store"}
    /\ part # "platforms" => sources = <<"releases">>

FaultsStep == part = "faults" /\ IngestNext /\ UNCHANGED <<part, apiVars, platformVars, storeVars, bucketVars, migrationVars>>
ApiStep == part = "api" /\ ApiNext /\ UNCHANGED <<part, ingestVars, platformVars, storeVars, bucketVars, migrationVars>>
PlatformStep ==
    part = "platforms" /\ PlatformNext
    /\ UNCHANGED <<part, ingestVars, apiVars, storeVars, bucketVars, migrationVars>>
BucketStep ==
    part = "bucket" /\ BucketNext /\ UNCHANGED <<part, ingestVars, apiVars, platformVars, storeVars, migrationVars>>
MigrationStep ==
    part = "migrations" /\ MigrationNext /\ UNCHANGED <<part, ingestVars, apiVars, platformVars, storeVars, bucketVars>>
StoreStep ==
    part = "store" /\ Next /\ UNCHANGED <<part, ingestVars, apiVars, platformVars, bucketVars, migrationVars>>
CollectionNext == FaultsStep \/ ApiStep \/ PlatformStep \/ BucketStep \/ MigrationStep \/ StoreStep

CollectionSpec == CollectionInit /\ [][CollectionNext]_collectionVars
=============================================================================
