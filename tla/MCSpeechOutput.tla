--------------------------- MODULE MCSpeechOutput ---------------------------
(* Instance of SpeechOutput: a console that shows texts and plays audio, and  *)
(* a local client that only plays it.                                        *)
EXTENDS SpeechOutput, TLC

CONSTANTS console, local

\* Both claim the same camera: the one that comes second is refused while the
\* first is registered.
MCHellos ==
    { [client |-> console, kind |-> "cocoro_console",
       events |-> {"assistant_message", "assistant_audio"}, sources |-> {"camera"}],
      [client |-> local, kind |-> "otomekairo_audio",
       events |-> {"assistant_audio"}, sources |-> {"camera"}] }

MCSettings == {"disabled", "cocoro_console"}

MCSymmetry == Permutations(Sessions) \cup Permutations(Cycles)
=============================================================================
