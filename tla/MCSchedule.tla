------------------------------ MODULE MCSchedule ------------------------------
(* Schedule on a small calendar that keeps the order of the due times: the   *)
(* timers start the daily job before the reports, the dispatcher after them. *)
EXTENDS Schedule

TimerSlots == [daily |-> 0, weekly |-> 1, monthly |-> 2]
DispatcherSlots == [daily |-> 3, weekly |-> 1, monthly |-> 2]
=============================================================================
