----------------------------- MODULE CachedFetch -----------------------------
(***************************************************************************)
(* What a caller of HttpFetcher.fetch may count on, retries left out: a    *)
(* call that is given one reply, and a cache row that changes exactly when *)
(* a reply is delivered, by that reply.  A call that dies leaves the row.  *)
(***************************************************************************)
EXTENDS HttpCache

CONSTANT Replies          \* what a server and the network can answer

VARIABLES phase, row, delivered

fetchVars == <<phase, row, delivered>>

FetchInit == phase = "idle" /\ row = NewRow /\ delivered \in Replies

Start == phase = "idle" /\ phase' = "busy" /\ UNCHANGED <<row, delivered>>

Deliver ==
    /\ phase = "busy"
    /\ phase' = "idle"
    /\ \E reply \in Replies :
         /\ delivered' = reply
         /\ row' = UpdateFromResult(row, reply)

Abandon == phase = "busy" /\ phase' = "idle" /\ UNCHANGED <<row, delivered>>

FetchSpec == FetchInit /\ [][Start \/ Deliver \/ Abandon]_fetchVars
=============================================================================
