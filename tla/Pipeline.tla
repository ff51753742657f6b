------------------------------- MODULE Pipeline -------------------------------
(***************************************************************************)
(* The run command, src/src/cli/digest.py: one process after another that  *)
(* validates its configuration, opens a run in the store, collects source  *)
(* by source, refuses to go on without its arXiv sources, links, scores,   *)
(* ranks, translates, renders and closes the run.  What a phase computes   *)
(* is left to the other modules; here a phase succeeds, degrades, raises   *)
(* or dies with its process.                                               *)
(***************************************************************************)
CONSTANTS
    Configured,      \* the sources of sources.yaml
    Enabled,         \* the enabled ones
    ArxivApi,        \* the ones with method arxiv_api
    Credentials,     \* an LLM API key is configured
    Translate        \* the run has no --no-translate flag

ASSUME PipelineAssumption ==
    /\ Enabled \subseteq Configured /\ ArxivApi \subseteq Configured
    /\ Credentials \in BOOLEAN /\ Translate \in BOOLEAN

VARIABLES
    phase,       \* where the process is; "down" when there is none
    runRow,         \* the row of its run in the runs table
    outcome,     \* source -> result in RunnerResult.source_results
    scores,      \* what the ranking got from the LLM phase
    titles,      \* what the rendering got from the translation phase
    site,        \* what the rendering left of this run in the output
    exit         \* how the last process ended

pipelineVars == <<phase, runRow, outcome, scores, titles, site, exit>>
results == <<outcome, scores, titles>>

Phases == {"down", "config", "begun", "collect", "gate", "link", "llm", "rank",
           "translate", "render", "close", "evidence", "failed"}
Critical == Enabled \cap ArxivApi

PipelineInit ==
    /\ phase = "down"
    /\ runRow = "absent"
    /\ outcome = [s \in Configured |-> "none"]
    /\ scores = "none" /\ titles = "none"
    /\ site = "untouched"
    /\ exit = "none"

Go(next) == phase' = next /\ UNCHANGED exit
Leave(code) == phase' = "down" /\ exit' = code

Start ==
    /\ phase = "down"
    /\ Go("config")
    /\ runRow' = "absent"
    /\ outcome' = [s \in Configured |-> "none"]
    /\ scores' = "none" /\ titles' = "none"
    /\ site' = "untouched"

(* A bad timezone or configuration ends the process before the store opens. *)
LoadConfiguration ==
    /\ phase = "config"
    /\ UNCHANGED <<runRow, site, results>>
    /\ \/ Go("begun")
       \/ Leave("error")

(* begin_run commits the row before anything is fetched. *)
BeginRun ==
    /\ phase = "begun" /\ runRow = "absent"
    /\ runRow' = "running"
    /\ UNCHANGED <<phase, site, exit, results>>

\* Faulty variant: the first source is fetched before the row is committed.
EnterCollectionFirst ==
    /\ phase = "begun"
    /\ Go("collect")
    /\ UNCHANGED <<runRow, site, results>>

EnterCollection ==
    /\ phase = "begun" /\ runRow = "running"
    /\ Go("collect")
    /\ UNCHANGED <<runRow, site, results>>

(* One source after the other; a disabled source gets no result. *)
CollectSource(s) ==
    /\ phase = "collect"
    /\ s \in Enabled /\ outcome[s] = "none"
    /\ \E result \in {"ok", "failed"} : outcome' = [outcome EXCEPT ![s] = result]
    /\ UNCHANGED <<phase, runRow, site, exit, scores, titles>>

\* Faulty variant: the runner waits for the result of every listed source.
CollectionCompleteAll ==
    /\ phase = "collect"
    /\ \A s \in Configured : outcome[s] # "none"
    /\ Go("gate")
    /\ UNCHANGED <<runRow, site, results>>

CollectionComplete ==
    /\ phase = "collect"
    /\ \A s \in Enabled : outcome[s] # "none"
    /\ Go("gate")
    /\ UNCHANGED <<runRow, site, results>>

\* Faulty variant: a source that was tried counts as covered.
FailedArxivSourcesMissing == {s \in Critical : outcome[s] = "none"}

FailedArxivSources == {s \in Critical : outcome[s] # "ok"}

(* The run is closed as a failure and the process exits 1. *)
StopIncomplete ==
    /\ phase = "gate" /\ FailedArxivSources # {}
    /\ runRow' = "failure"
    /\ phase' = "failed"
    /\ UNCHANGED <<site, exit, results>>

ExitIncomplete ==
    /\ phase = "failed"
    /\ Leave("error")
    /\ UNCHANGED <<runRow, site, results>>

PassGate ==
    /\ phase = "gate" /\ FailedArxivSources = {}
    /\ Go("link")
    /\ UNCHANGED <<runRow, site, results>>

Link ==
    /\ phase = "link"
    /\ Go("llm")
    /\ UNCHANGED <<runRow, site, results>>

(* Without credentials, and after any error, the cached scores are used;    *)
(* there may be none.                                                       *)
ScoreStories ==
    /\ phase = "llm"
    /\ \E got \in {"cached", "empty"} \cup (IF Credentials THEN {"fresh"} ELSE {}) :
         scores' = got
    /\ Go("rank")
    /\ UNCHANGED <<runRow, site, outcome, titles>>

Rank ==
    /\ phase = "rank"
    /\ Go("translate")
    /\ UNCHANGED <<runRow, site, results>>

TranslateStories ==
    /\ phase = "translate"
    /\ \E got \in IF Translate
                  THEN {"cached", "none"} \cup (IF Credentials THEN {"fresh"} ELSE {})
                  ELSE {"none"} :
         titles' = got
    /\ Go("render")
    /\ UNCHANGED <<runRow, site, outcome, scores>>

(* render() catches what goes wrong, before its first file or between two,  *)
(* and returns a failed result, which the phase logs.                       *)
Render ==
    /\ phase = "render"
    /\ site' \in {"untouched", "partial", "complete"}
    /\ Go("close")
    /\ UNCHANGED <<runRow, results>>

\* Faulty variant: the run is closed after the evidence has been written.
EndRunLate ==
    /\ phase = "close"
    /\ Go("evidence")
    /\ UNCHANGED <<runRow, site, results>>

EndRun ==
    /\ phase = "close"
    /\ runRow' = "success"
    /\ Go("evidence")
    /\ UNCHANGED <<site, results>>

WriteEvidence ==
    /\ phase = "evidence"
    /\ Leave("ok")
    /\ UNCHANGED <<runRow, site, results>>

(* What no phase catches: the store, a collector outside its own handlers,  *)
(* the linker, the ranker, the settings the two optional phases read before *)
(* their try, the status page, the evidence file.  The row stays as it is.  *)
Raising == {"begun", "collect", "gate", "link", "llm", "rank", "translate",
            "render", "close", "evidence"}
Raise ==
    /\ phase \in Raising
    /\ Leave("error")
    /\ UNCHANGED <<runRow, site, results>>

Crash ==
    /\ phase # "down"
    /\ Leave("killed")
    /\ UNCHANGED <<runRow, site, results>>

(* What a process does by itself, from one phase to the next. *)
GoOn ==
    \/ LoadConfiguration \/ BeginRun \/ EnterCollection \/ CollectionComplete
    \/ StopIncomplete \/ ExitIncomplete \/ PassGate
    \/ Link \/ ScoreStories \/ Rank \/ TranslateStories \/ Render
    \/ EndRun \/ WriteEvidence

PipelineNext == Start \/ GoOn \/ (\E s \in Configured : CollectSource(s)) \/ Raise \/ Crash

(* A process that is neither killed nor raises goes on.  That a collector   *)
(* returns is not assumed: see RawJson, and acquire with a rate below one.  *)
PipelineSpec == PipelineInit /\ [][PipelineNext]_pipelineVars /\ WF_pipelineVars(GoOn)

-----------------------------------------------------------------------------
PipelineTyped ==
    /\ phase \in Phases
    /\ runRow \in {"absent", "running", "success", "failure"}
    /\ outcome \in [Configured -> {"none", "ok", "failed"}]
    /\ \A s \in Configured \ Enabled : outcome[s] = "none"
    /\ scores \in {"none", "fresh", "cached", "empty"}
    /\ titles \in {"none", "fresh", "cached"}
    /\ site \in {"untouched", "partial", "complete"}
    /\ exit \in {"none", "ok", "error", "killed"}

(* No page is written, and no success recorded, by a run that lacks one of   *)
(* its arXiv sources, whatever the order and the mix of failures.            *)
ArxivGate ==
    runRow = "success" \/ site # "untouched" => \A s \in Critical : outcome[s] = "ok"

(* Exit status 0, which lets the job script publish, is given only by a run  *)
(* that is on record as a success, tried every enabled source and has all of *)
(* its arXiv sources.                                                        *)
ExitZeroRecorded ==
    phase = "down" /\ exit = "ok" =>
        /\ runRow = "success"
        /\ \A s \in Enabled : outcome[s] # "none" /\ (s \in ArxivApi => outcome[s] = "ok")

(* A run ends, or it is the collector of an enabled source it waits for: no  *)
(* mix of failed and disabled sources, missing keys and failed phases leaves *)
(* it waiting for anything else.                                             *)
AwaitsCollector == phase = "collect" /\ \E s \in Enabled : outcome[s] = "none"
RunSettles == phase # "down" ~> phase = "down" \/ AwaitsCollector

(* Seen through its row and its phase, every run moves by the table of       *)
(* RunStateMachine: no phase is skipped, and a finished run stays finished.  *)
Lifecycle ==
    IF phase \in {"down", "config"} \/ (phase = "begun" /\ runRow = "absent") THEN "NONE"
    ELSE IF phase = "begun" THEN "RUN_STARTED"
    ELSE IF phase \in {"collect", "gate"} THEN "RUN_COLLECTING"
    ELSE IF runRow = "success" THEN "RUN_FINISHED_SUCCESS"
    ELSE IF runRow = "failure" THEN "RUN_FINISHED_FAILURE"
    ELSE "RUN_RENDERING"
Machine == INSTANCE RunLifecycle WITH lifecycle <- Lifecycle
RefinesLifecycle == Machine!LifecycleSpec

(* state_machine.py:19 "RUN_RENDERING -> RUN_FINISHED_FAILURE: Rendering     *)
(* failed": a run whose rendering failed is not recorded as a success.       *)
RenderFailureFails == runRow = "success" => site = "complete"

(* Not so, see the README.  state_machine.py:20                              *)
(* "RUN_STARTED/COLLECTING/RENDERING -> RUN_FINISHED_FAILURE: Failure at any *)
(* stage": a process that ends with an error leaves no run open.             *)
ErrorClosesRun == phase = "down" /\ exit = "error" => runRow # "running"
=============================================================================
