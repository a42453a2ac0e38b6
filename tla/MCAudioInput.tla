---------------------------- MODULE MCAudioInput ----------------------------
(* Instance of AudioInput: a browser with one event stream connection, a     *)
(* local and a Web microphone, settings that select either.                  *)
EXTENDS AudioInput, TLC

CONSTANTS browser, local, web

MCHellos ==
    { [client |-> browser, kind |-> "browser", events |-> {}, sources |-> {}] }

MCEndpoint == (local :> "local_microphone") @@ (web :> "web_microphone")

MCStart == [source |-> "web_microphone", stt |-> TRUE]

MCSettings == { MCStart, [source |-> "local_microphone", stt |-> FALSE] }
=============================================================================
