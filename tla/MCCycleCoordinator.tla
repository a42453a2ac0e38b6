------------------------- MODULE MCCycleCoordinator -------------------------
(* Three foreground threads and two background threads: three is the least *)
(* number with two threads waiting behind a running one, so that both an   *)
(* overtaking and a notification of the wrong thread can happen.           *)
EXTENDS CycleCoordinator

=============================================================================
