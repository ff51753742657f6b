---------------------------- MODULE PipelineProofs ----------------------------
(* Proofs about Pipeline, for any set of sources and any configuration. *)
EXTENDS Pipeline, TLAPS

Closing == {"link", "llm", "rank", "translate", "render", "close", "evidence"}

(* The row a process has at each place, and the gate behind it. *)
RowOf ==
    /\ phase = "config" => runRow = "absent"
    /\ phase = "begun" => runRow \in {"absent", "running"}
    /\ phase \in {"collect", "gate", "link", "llm", "rank", "translate", "render", "close"}
         => runRow = "running"
    /\ phase = "evidence" => runRow = "success"
    /\ phase = "failed" => runRow = "failure"
    /\ phase \in {"config", "begun", "collect", "gate", "failed", "link", "llm", "rank",
                  "translate", "render"} => site = "untouched"

(* Past the collection every enabled source has a result, past the gate      *)
(* every arXiv source a good one.                                            *)
Gated ==
    /\ phase \in Closing \cup {"gate"} => \A s \in Enabled : outcome[s] # "none"
    /\ phase \in Closing => \A s \in Critical : outcome[s] = "ok"

IInv == PipelineTyped /\ RowOf /\ Gated /\ ArxivGate /\ ExitZeroRecorded

LEMMA InitInv == PipelineInit => IInv
BY DEF PipelineInit, IInv, PipelineTyped, RowOf, Gated, ArxivGate, ExitZeroRecorded, Closing, Phases

LEMMA StepInv == IInv /\ [PipelineNext]_pipelineVars => IInv'
<1> SUFFICES ASSUME IInv, [PipelineNext]_pipelineVars PROVE IInv'
    OBVIOUS
<1> USE DEF IInv, PipelineTyped, RowOf, Gated, ArxivGate, ExitZeroRecorded, Closing, Phases,
            Critical, Go, Leave, results
<1>1. CASE Start
    BY <1>1 DEF Start
<1>2. CASE LoadConfiguration
    BY <1>2 DEF LoadConfiguration
<1>3. CASE BeginRun
    BY <1>3 DEF BeginRun
<1>4. CASE EnterCollection
    BY <1>4 DEF EnterCollection
<1>5. ASSUME NEW s \in Configured, CollectSource(s)
      PROVE IInv'
    BY <1>5 DEF CollectSource
<1>6. CASE CollectionComplete
    BY <1>6 DEF CollectionComplete
<1>7. CASE StopIncomplete
    BY <1>7 DEF StopIncomplete
<1>8. CASE ExitIncomplete
    BY <1>8 DEF ExitIncomplete
<1>9. CASE PassGate
    BY <1>9 DEF PassGate, FailedArxivSources
<1>10. CASE Link
    BY <1>10 DEF Link
<1>11. CASE ScoreStories
    BY <1>11 DEF ScoreStories
<1>12. CASE Rank
    BY <1>12 DEF Rank
<1>13. CASE TranslateStories
    BY <1>13 DEF TranslateStories
<1>14. CASE Render
    BY <1>14 DEF Render
<1>15. CASE EndRun
    BY <1>15 DEF EndRun
<1>16. CASE WriteEvidence
    BY <1>16 DEF WriteEvidence
<1>17. CASE Raise
    BY <1>17 DEF Raise, Raising
<1>18. CASE Crash
    BY <1>18 DEF Crash
<1>19. CASE UNCHANGED pipelineVars
    BY <1>19 DEF pipelineVars
<1>20. QED
    BY <1>1, <1>2, <1>3, <1>4, <1>5, <1>6, <1>7, <1>8, <1>9, <1>10, <1>11, <1>12, <1>13,
       <1>14, <1>15, <1>16, <1>17, <1>18, <1>19 DEF PipelineNext, GoOn

(* Every state of every run of the pipeline is well formed, is gated by its  *)
(* arXiv sources, and exits 0 only with its success on record.               *)
LEMMA Inductive == PipelineSpec => []IInv
BY InitInv, StepInv, PTL DEF PipelineSpec

(* The state of digest.py's run command keeps its types, and a disabled      *)
(* source never gets a result.                                               *)
THEOREM PipelineTypes == PipelineSpec => []PipelineTyped
<1>1. IInv => PipelineTyped
    BY DEF IInv
<1>2. QED
    BY <1>1, Inductive, PTL

(* _failed_arxiv_sources keeps a run without full arXiv coverage from        *)
(* writing pages or being recorded as a success.                             *)
THEOREM CoverageGate == PipelineSpec => []ArxivGate
<1>1. IInv => ArxivGate
    BY DEF IInv
<1>2. QED
    BY <1>1, Inductive, PTL

(* The command exits 0 only when end_run has recorded the success of a run   *)
(* that tried every enabled source and has all of its arXiv sources.         *)
THEOREM ExitZeroIsRecorded == PipelineSpec => []ExitZeroRecorded
<1>1. IInv => ExitZeroRecorded
    BY DEF IInv
<1>2. QED
    BY <1>1, Inductive, PTL

LEMMA LifecycleStart == PipelineInit => Machine!LifecycleInit
BY DEF PipelineInit, Lifecycle, Machine!LifecycleInit

LifecycleMove == Machine!Begin \/ Machine!Transition \/ Machine!Exit

LEMMA LifecycleStep == IInv /\ [PipelineNext]_pipelineVars => [LifecycleMove]_Lifecycle
<1> SUFFICES ASSUME IInv, [PipelineNext]_pipelineVars PROVE [LifecycleMove]_Lifecycle
    OBVIOUS
<1> USE DEF Lifecycle
<1>1. CASE Start \/ LoadConfiguration \/ BeginRun \/ EnterCollection
  <2>1. CASE Start
      BY <2>1 DEF Start, Go
  <2>2. CASE LoadConfiguration
      BY <2>2 DEF LoadConfiguration, Go, Leave, IInv, RowOf
  <2>3. CASE BeginRun
      BY <2>3 DEF BeginRun, LifecycleMove, Machine!Begin
  <2>4. CASE EnterCollection
      BY <2>4 DEF EnterCollection, Go, LifecycleMove, Machine!Transition, Machine!RunStates,
                  Machine!ValidTransitions
  <2>5. QED
      BY <1>1, <2>1, <2>2, <2>3, <2>4
<1>2. CASE (\E s \in Configured : CollectSource(s)) \/ CollectionComplete
    BY <1>2 DEF CollectSource, CollectionComplete, Go
<1>3. CASE StopIncomplete \/ PassGate
    BY <1>3 DEF StopIncomplete, PassGate, Go, IInv, RowOf, LifecycleMove,
                Machine!Transition, Machine!RunStates, Machine!ValidTransitions
<1>4. CASE Link \/ ScoreStories \/ Rank \/ TranslateStories \/ Render
    BY <1>4 DEF Link, ScoreStories, Rank, TranslateStories, Render, Go
<1>5. CASE EndRun
    BY <1>5 DEF EndRun, Go, IInv, RowOf, LifecycleMove,
                Machine!Transition, Machine!RunStates, Machine!ValidTransitions
<1>6. CASE ExitIncomplete \/ WriteEvidence \/ Raise \/ Crash
  <2>1. phase' = "down"
      BY <1>6 DEF ExitIncomplete, WriteEvidence, Raise, Crash, Leave
  <2>2. Lifecycle' = "NONE"
      BY <2>1
  <2>3. Lifecycle \in Machine!RunStates \cup {"NONE"}
      BY DEF Machine!RunStates
  <2>4. QED
      BY <2>2, <2>3 DEF LifecycleMove, Machine!Exit
<1>7. CASE UNCHANGED pipelineVars
    BY <1>7 DEF pipelineVars
<1>8. QED
    BY <1>1, <1>2, <1>3, <1>4, <1>5, <1>6, <1>7 DEF PipelineNext, GoOn

(* The run command implements the life cycle RunStateMachine tabulates,      *)
(* whichever sources fail and wherever it stops.                             *)
THEOREM ImplementsLifecycle == PipelineSpec => RefinesLifecycle
<1>1. IInv /\ [PipelineNext]_pipelineVars => [Machine!Begin \/ Machine!Transition \/ Machine!Exit]_Lifecycle
    BY LifecycleStep DEF LifecycleMove
<1>2. QED
    BY <1>1, LifecycleStart, Inductive, PTL
       DEF PipelineSpec, RefinesLifecycle, Machine!LifecycleSpec
=============================================================================
