------------------------ MODULE MCMemoryPostprocess ------------------------
(* Instance of MemoryPostprocess: two of three jobs have one queued_at, and  *)
(* the memory set of the first two is deleted.                               *)
EXTENDS MemoryPostprocess

MCQueuedAt == <<1, 2, 2>>
MCDoomed == {1, 2}
=============================================================================
