--------------------------- MODULE MCMemoryUnits ---------------------------
(* Instance of MemoryUnits.                                                  *)
EXTENDS MemoryUnits, TLC

CONSTANTS x, y, nothing, t1, t2

Says(status, object, sense, direct) ==
    [status |-> status, object |-> object, sense |-> sense, commit |-> "none",
     direct |-> direct, dated |-> FALSE, replaces |-> FALSE, negates |-> FALSE,
     parallel |-> FALSE]

MCCandidates ==
    {Says("inferred", x, "pos", FALSE),
     Says("confirmed", x, "neg", TRUE),
     Says("confirmed", y, "plain", TRUE),
     [Says("inferred", x, "neg", FALSE) EXCEPT !.parallel = TRUE],
     [Says("revoked", nothing, "plain", TRUE) EXCEPT !.negates = TRUE],
     Says("dormant", x, "plain", FALSE)}
MCAll ==
    MCCandidates \cup
    {[Says("inferred", x, "pos", FALSE) EXCEPT !.commit = "open"],
     [Says("inferred", y, "plain", FALSE) EXCEPT !.commit = "open"],
     [Says("confirmed", x, "neg", TRUE) EXCEPT !.commit = "open"]}
Threads == Permutations({t1, t2})
MCObjects == {x, y}
MCKinds == {"fact", "commitment", "summary"}
=============================================================================
