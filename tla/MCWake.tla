------------------------------- MODULE MCWake -------------------------------
(* Instance of Wake with one pending intent and a clock that reaches past    *)
(* two intervals, the end of a rest and the end of the window.               *)
EXTENDS Wake
=============================================================================
