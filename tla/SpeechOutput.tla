---------------------------- MODULE SpeechOutput ----------------------------
(***************************************************************************)
(* Speech output: service/speech_output.py and tts/runtime.py on top of    *)
(* the event streams.  A judgement cycle that speaks reserves a delivery,  *)
(* broadcasts the text to the clients and then activates the delivery; one *)
(* worker takes the deliveries from a bounded queue, synthesizes each and  *)
(* sends the audio to the clients of one kind.  Cycles reserve and         *)
(* broadcast on their own threads, outside the cycle coordinator.          *)
(*                                                                         *)
(* A delivery is named by the cycle that speaks.  One send to one session  *)
(* is one step.                                                            *)
(***************************************************************************)
EXTENDS EventStream, Sequences

CONSTANTS
    Cycles,     \* the cycles that speak, one delivery each
    Capacity,   \* TTS_QUEUE_CAPACITY
    Settings,   \* values of audio_output_settings.destination, and "disabled"
                \*   for tts.enabled = false
    NoCycle     \* no delivery in the worker's hand

ASSUME SpeechAssumption ==
    /\ Capacity \in Nat \ {0}
    /\ Settings \subseteq {"disabled", "otomekairo", "cocoro_console", "browser"}
    /\ NoCycle \notin Cycles

VARIABLES
    speaking,   \* cycle -> where its thread is in the emission of its speech
    target,     \* cycle -> the target_client_kind of its delivery, or ""
    recipients, \* cycle -> the snapshot of sessions it has still to send to
    queue,      \* TtsRuntime._queue; NoCycle is the None that ends the worker
    ready,      \* deliveries whose event is set
    cancelled,  \* deliveries that close has taken out
    worker,     \* where the worker is
    hand,       \* the delivery it has taken
    listeners,  \* its snapshot: <<session, client>> it has still to send to
    shutdown,   \* how far TtsRuntime.close has come
    heard       \* history: <<cycle, session, client>> of assistant_audio sent

speechVars == <<speaking, target, recipients, queue, ready, cancelled,
                worker, hand, listeners, shutdown, heard>>

vars == <<streamVars, speechVars>>

ClientKind == [otomekairo |-> "otomekairo_audio",
               cocoro_console |-> "cocoro_console",
               browser |-> "browser"]

TypeOK ==
    /\ StreamTypeOK
    /\ speaking \in [Cycles -> {"thinking", "chosen", "reserved", "sending", "spoken"}]
    /\ target \in [Cycles -> {"", "otomekairo_audio", "cocoro_console", "browser"}]
    /\ recipients \in [Cycles -> SUBSET Sessions]
    /\ queue \in Seq(Cycles \cup {NoCycle}) /\ Len(queue) <= Capacity
    /\ ready \subseteq Cycles /\ cancelled \subseteq Cycles
    /\ worker \in {"top", "get", "wait", "check", "synthesize", "sending", "ended"}
    /\ hand \in Cycles \cup {NoCycle}
    /\ listeners \subseteq Sessions \X Clients
    /\ shutdown \in {"no", "draining", "drained", "closed"}
    /\ heard \subseteq Cycles \X Sessions \X Clients

Init ==
    /\ StreamInit
    /\ speaking = [c \in Cycles |-> "thinking"]
    /\ target = [c \in Cycles |-> ""]
    /\ recipients = [c \in Cycles |-> {}]
    /\ queue = <<>>
    /\ ready = {} /\ cancelled = {}
    /\ worker = "top" /\ hand = NoCycle /\ listeners = {}
    /\ shutdown = "no"
    /\ heard = {}

-----------------------------------------------------------------------------
(* A cycle speaks: reserve, broadcast, activate. *)

Audible(kind) == SubscribersOfKind("assistant_audio", kind) # {}

\* The console's speech goes to the local output when no console is there.
Destination(setting) ==
    IF setting = "cocoro_console" /\ ~Audible("cocoro_console")
      THEN "otomekairo" ELSE setting

\* The setting is whatever is stored when the cycle reads it.
Choose(c) ==
    /\ speaking[c] = "thinking"
    /\ \E setting \in Settings :
          IF setting = "disabled"
            THEN /\ speaking' = [speaking EXCEPT ![c] = "reserved"]
                 /\ UNCHANGED target
            ELSE /\ speaking' = [speaking EXCEPT ![c] = "chosen"]
                 /\ target' = [target EXCEPT ![c] = ClientKind[Destination(setting)]]
    /\ UNCHANGED <<streamVars, recipients, queue, ready, cancelled,
                   worker, hand, listeners, shutdown, heard>>

\* A faulty Reserve: the delivery may start as soon as it is in the queue.
ReserveActivated(c) ==
    /\ speaking[c] = "chosen"
    /\ speaking' = [speaking EXCEPT ![c] = "reserved"]
    /\ IF Audible(target[c]) /\ Len(queue) < Capacity
         THEN queue' = Append(queue, c) /\ ready' = ready \cup {c} /\ UNCHANGED target
         ELSE target' = [target EXCEPT ![c] = ""] /\ UNCHANGED <<queue, ready>>
    /\ UNCHANGED <<streamVars, recipients, cancelled, worker, hand, listeners, shutdown, heard>>

\* tts_target_unavailable and tts_queue_full leave the cycle without a delivery.
Reserve(c) ==
    /\ speaking[c] = "chosen"
    /\ speaking' = [speaking EXCEPT ![c] = "reserved"]
    /\ IF Audible(target[c]) /\ Len(queue) < Capacity
         THEN queue' = Append(queue, c) /\ UNCHANGED target
         ELSE target' = [target EXCEPT ![c] = ""] /\ UNCHANGED queue
    /\ UNCHANGED <<streamVars, recipients, ready, cancelled,
                   worker, hand, listeners, shutdown, heard>>

\* A faulty Broadcast: with nobody to show the text to, the cycle is done.
BroadcastToSomebody(c) ==
    /\ speaking[c] = "reserved"
    /\ recipients' = [recipients EXCEPT ![c] = Subscribers("assistant_message")]
    /\ speaking' = [speaking EXCEPT ![c] = IF recipients'[c] = {} THEN "spoken" ELSE "sending"]
    /\ UNCHANGED <<streamVars, target, queue, ready, cancelled,
                   worker, hand, listeners, shutdown, heard>>

Broadcast(c) ==
    /\ speaking[c] = "reserved"
    /\ speaking' = [speaking EXCEPT ![c] = "sending"]
    /\ recipients' = [recipients EXCEPT ![c] = Subscribers("assistant_message")]
    /\ UNCHANGED <<streamVars, target, queue, ready, cancelled,
                   worker, hand, listeners, shutdown, heard>>

SendMessage(c) ==
    /\ speaking[c] = "sending"
    /\ \E s \in recipients[c] :
          /\ SendTo(s)
          /\ recipients' = [recipients EXCEPT ![c] = @ \ {s}]
    /\ UNCHANGED <<speaking, target, queue, ready, cancelled,
                   worker, hand, listeners, shutdown, heard>>

\* A cycle without a delivery activates nothing.
Activate(c) ==
    /\ speaking[c] = "sending" /\ recipients[c] = {}
    /\ speaking' = [speaking EXCEPT ![c] = "spoken"]
    /\ ready' = IF target[c] = "" THEN ready ELSE ready \cup {c}
    /\ UNCHANGED <<streamVars, target, recipients, queue, cancelled,
                   worker, hand, listeners, shutdown, heard>>

-----------------------------------------------------------------------------
(* The worker. *)

Stopping == shutdown # "no"

WorkerTop ==
    /\ worker = "top"
    /\ worker' = IF Stopping THEN "ended" ELSE "get"
    /\ hand' = NoCycle
    /\ UNCHANGED <<streamVars, speaking, target, recipients, queue, ready,
                   cancelled, listeners, shutdown, heard>>

WorkerGet ==
    /\ worker = "get" /\ queue # <<>>
    /\ hand' = Head(queue)
    /\ queue' = Tail(queue)
    /\ worker' = IF hand' = NoCycle THEN "ended" ELSE "wait"
    /\ UNCHANGED <<streamVars, speaking, target, recipients, ready, cancelled,
                   listeners, shutdown, heard>>

\* Polls every 0.1 s whether the service stops.
WorkerWait ==
    /\ worker = "wait"
    /\ \/ /\ hand \in ready
          /\ worker' = IF hand \in cancelled \/ Stopping THEN "top" ELSE "check"
       \/ hand \notin ready /\ Stopping /\ worker' = "ended"
    /\ UNCHANGED <<streamVars, speaking, target, recipients, queue, ready,
                   cancelled, hand, listeners, shutdown, heard>>

WorkerCheck ==
    /\ worker = "check"
    /\ worker' = IF Audible(target[hand]) THEN "synthesize" ELSE "top"
    /\ UNCHANGED <<streamVars, speaking, target, recipients, queue, ready,
                   cancelled, hand, listeners, shutdown, heard>>

\* Succeeds or fails; both send an assistant_audio to the same subscribers.
Synthesize ==
    /\ worker = "synthesize"
    /\ worker' = "sending"
    /\ listeners' = {<<s, table[s].client>> :
                        s \in SubscribersOfKind("assistant_audio", target[hand])}
    /\ UNCHANGED <<streamVars, speaking, target, recipients, queue, ready,
                   cancelled, hand, shutdown, heard>>

SendAudio ==
    /\ worker = "sending"
    /\ \E l \in listeners :
          /\ SendTo(l[1])
          /\ listeners' = listeners \ {l}
          /\ heard' = IF Delivered(l[1]) THEN heard \cup {<<hand, l[1], l[2]>>} ELSE heard
    /\ UNCHANGED <<speaking, target, recipients, queue, ready, cancelled,
                   worker, hand, shutdown>>

WorkerNext ==
    /\ worker = "sending" /\ listeners = {}
    /\ worker' = "top"
    /\ UNCHANGED <<streamVars, speaking, target, recipients, queue, ready,
                   cancelled, hand, listeners, shutdown, heard>>

Worker == WorkerTop \/ WorkerGet \/ WorkerWait \/ WorkerCheck \/ Synthesize
          \/ SendAudio \/ WorkerNext

-----------------------------------------------------------------------------
(* Shutdown: TtsRuntime.close, then the event streams. *)

Close ==
    /\ shutdown = "no"
    /\ shutdown' = "draining"
    /\ UNCHANGED <<streamVars, speaking, target, recipients, queue, ready,
                   cancelled, worker, hand, listeners, heard>>

Drain ==
    /\ shutdown = "draining"
    /\ IF queue = <<>>
         THEN shutdown' = "drained" /\ UNCHANGED <<queue, ready, cancelled>>
         ELSE /\ queue' = Tail(queue)
              /\ ready' = ready \cup ({Head(queue)} \cap Cycles)
              /\ cancelled' = cancelled \cup ({Head(queue)} \cap Cycles)
              /\ UNCHANGED shutdown
    /\ UNCHANGED <<streamVars, speaking, target, recipients,
                   worker, hand, listeners, heard>>

\* A faulty EndWorker: the worker is left to find out by itself.
EndWorkerSilently ==
    /\ shutdown = "drained"
    /\ shutdown' = "closed"
    /\ UNCHANGED <<streamVars, speaking, target, recipients, queue, ready, cancelled,
                   worker, hand, listeners, heard>>

\* put_nowait(None); cycles may have filled the queue again.
EndWorker ==
    /\ shutdown = "drained"
    /\ shutdown' = "closed"
    /\ queue' = IF Len(queue) < Capacity THEN Append(queue, NoCycle) ELSE queue
    /\ UNCHANGED <<streamVars, speaking, target, recipients, ready, cancelled,
                   worker, hand, listeners, heard>>

\* The join of the worker may give up after five seconds.
CloseStreams ==
    /\ shutdown = "closed"
    /\ CloseAll
    /\ UNCHANGED speechVars

Speaker(c) == Choose(c) \/ Reserve(c) \/ Broadcast(c) \/ SendMessage(c) \/ Activate(c)

Closer == Close \/ Drain \/ EndWorker \/ CloseStreams

Next ==
    \/ StreamNext /\ UNCHANGED speechVars
    \/ \E s \in Sessions : TellClientGone(s) /\ UNCHANGED speechVars
    \/ \E c \in Cycles : Speaker(c)
    \/ Worker
    \/ Closer

Spec == Init /\ [][Next]_vars

-----------------------------------------------------------------------------
(* Properties. *)

\* No client hears the audio of a speech before its text was sent to all that
\* subscribe to texts, although the worker takes the delivery from the queue as
\* soon as it is reserved: activate comes after the broadcast.
AudioFollowsMessage == \A x \in heard : speaking[x[1]] = "spoken"

\* A client hears each speech once, also when it reconnects while the worker
\* sends: the snapshot of the listeners holds one session per client, and a
\* session that takes over later is not in it.
HeardOnce ==
    \A x, y \in heard : x[1] = y[1] /\ x[3] = y[3] => x = y

Queued(c) == \E i \in 1..Len(queue) : queue[i] = c

\* The one worker waits for the delivery at the head of the queue to be
\* activated; every delivery that it has or will get is activated already, or
\* its cycle is on the way to it.  One that nobody activates would silence the
\* service for good.
WillBeActivated ==
    \A c \in Cycles :
        Queued(c) \/ (hand = c /\ worker = "wait") =>
            c \in ready \/ speaking[c] \in {"reserved", "sending"}

\* Once close has returned, the worker has ended or can come to its end: it is
\* not left in a queue.get that nothing answers, whatever was reserved between
\* the draining of the queue and the None that ends it.
WorkerNotStranded == shutdown = "closed" /\ worker = "get" => queue # <<>>
=============================================================================
