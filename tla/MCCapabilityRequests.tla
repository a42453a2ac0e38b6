------------------------ MODULE MCCapabilityRequests ------------------------
(* The runner and one client capability; two requests, so that a second     *)
(* dispatch meets the first at every stage of it, and a result cycle can    *)
(* send a follow-up request.                                                *)
EXTENDS CapabilityRequests

=============================================================================
