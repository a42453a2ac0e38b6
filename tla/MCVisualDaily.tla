--------------------------- MODULE MCVisualDaily ---------------------------
(* Instance of VisualDaily with a limit below the number of past days.       *)
EXTENDS VisualDaily
=============================================================================
