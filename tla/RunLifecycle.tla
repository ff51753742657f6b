----------------------------- MODULE RunLifecycle -----------------------------
(***************************************************************************)
(* The life of a run as RunStateMachine tabulates it                       *)
(* (src/src/features/store/state_machine.py).  The command line keeps no   *)
(* such machine; Pipeline is shown to move as if it did.                   *)
(***************************************************************************)
VARIABLE lifecycle        \* RunState, or "NONE" between two processes

RunStates == {"RUN_STARTED", "RUN_COLLECTING", "RUN_RENDERING",
              "RUN_FINISHED_SUCCESS", "RUN_FINISHED_FAILURE"}

LifecycleInit == lifecycle = "NONE"

Begin == lifecycle = "NONE" /\ lifecycle' = "RUN_STARTED"

ValidTransitions ==
    [RUN_STARTED |-> {"RUN_COLLECTING", "RUN_FINISHED_FAILURE"},
     RUN_COLLECTING |-> {"RUN_RENDERING", "RUN_FINISHED_FAILURE"},
     RUN_RENDERING |-> {"RUN_FINISHED_SUCCESS", "RUN_FINISHED_FAILURE"},
     RUN_FINISHED_SUCCESS |-> {},
     RUN_FINISHED_FAILURE |-> {}]

Transition ==
    /\ lifecycle \in RunStates
    /\ lifecycle' \in ValidTransitions[lifecycle]

(* The process ends, with its run finished or not. *)
Exit == lifecycle \in RunStates /\ lifecycle' = "NONE"

LifecycleSpec == LifecycleInit /\ [][Begin \/ Transition \/ Exit]_lifecycle
=============================================================================
