--------------------------- MODULE MCAutonomousRun ---------------------------
(* Small instances of AutonomousRun for TLC.                               *)
EXTENDS AutonomousRun

CONSTANT r1

OneRun == {r1}

AllOps == {"pause", "resume", "cancel"}
CancelOnly == {"cancel"}

=============================================================================
