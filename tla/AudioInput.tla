----------------------------- MODULE AudioInput -----------------------------
(***************************************************************************)
(* The audio input runtime (audio/runtime.py) on top of the event streams: *)
(* which microphone connection holds the input lease, the Web input        *)
(* session, the enrollment of a speaker, the bounded queue of utterances   *)
(* and the one worker that recognises them.                                *)
(*                                                                         *)
(* Every critical section of AudioRuntime is one step; recognition and the *)
(* conversation run outside them.  The work and settings generations are   *)
(* compared with those of one utterance only, the one in the worker's      *)
(* hand, and every change of either goes through _discard_audio_locked:    *)
(* fresh says whether there was one since that utterance was captured.     *)
(* Sends to microphone connections are taken to succeed.                   *)
(***************************************************************************)
EXTENDS EventStream, Sequences

CONSTANTS
    Microphones,    \* audio stream connections
    Endpoint,       \* [Microphones -> endpoint_source]
    Settings,       \* audio settings: [source, stt]; stt: enabled, with a key
    Start,          \* the settings the service starts with
    MaxLeases,      \* bound on leases handed out
    MaxEnrollments, \* bound on enrollments
    MaxWaiting,     \* MAX_WAITING_UTTERANCES
    Required,       \* ENROLLMENT_REQUIRED_SAMPLES
    None            \* no connection, no enrollment, no utterance

Enrollments == [number : 1..MaxEnrollments, owner : Clients, samples : 0..(Required + 1)]

ASSUME AudioAssumption ==
    /\ MaxLeases \in Nat /\ MaxEnrollments \in Nat
    /\ MaxWaiting \in Nat \ {0} /\ Required \in Nat \ {0}
    /\ None \notin Microphones \cup Enrollments /\ Start \in Settings

VARIABLES
    mic,        \* connection -> unborn, open, timed out (its handler still runs),
                \*   closed by the watchdog, or ended
    client,     \* connection -> the client_id of its audio_start, or Nobody
    lease,      \* connection -> its lease_generation, 0 for None
    active,     \* _active_connection
    leases,     \* _lease_generation
    settings,   \* _settings
    session,    \* the owner of the Web input session, or Nobody
    enrollment, \* [number, owner, samples]: the session and its accepted samples
    enrollments,\* how many there were
    paused,     \* _paused_reason, "" for None
    blocked,    \* _conversation_input_blocked_reason is set
    speakers,   \* some speaker is registered
    forgetting, \* unregister_speaker is between the store and the lock
    waiting,    \* _waiting: utterances [lease, enrollment]
    worker,     \* where the worker is
    hand,       \* the utterance it works on
    fresh,      \* no discard since hand was captured
    sampled,    \* history: <<enrollment, enrollment of the utterance>> of samples
    delivered   \* history: enrollments (0 for none) during which what became a
                \*   conversation was said

leaseVars == <<mic, client, lease, active, leases>>
modeVars == <<settings, session, enrollment, enrollments, speakers, forgetting>>
queueVars == <<paused, blocked, waiting>>
workerVars == <<worker, hand, sampled, delivered>>
audioVars == <<leaseVars, modeVars, queueVars, workerVars, fresh>>
vars == <<streamVars, audioVars>>

Utterances == [lease : 1..MaxLeases, enrollment : 0..MaxEnrollments]

TypeOK ==
    /\ StreamTypeOK
    /\ mic \in [Microphones -> {"unborn", "open", "timed_out", "closed", "ended"}]
    /\ client \in [Microphones -> Clients \cup {Nobody}]
    /\ lease \in [Microphones -> 0..MaxLeases]
    /\ active \in Microphones \cup {None}
    /\ leases \in 0..MaxLeases
    /\ settings \in Settings
    /\ session \in Clients \cup {Nobody}
    /\ enrollment \in Enrollments \cup {None}
    /\ enrollments \in 0..MaxEnrollments
    /\ paused \in {"", "queue_full", "stt_disabled", "stt_configuration_error"}
    /\ blocked \in BOOLEAN /\ speakers \in BOOLEAN /\ forgetting \in BOOLEAN
    /\ waiting \in Seq(Utterances) /\ Len(waiting) <= MaxWaiting
    /\ worker \in {"idle", "taken", "enrolling", "recognising", "accepted", "finishing"}
    /\ hand \in Utterances \cup {None}
    /\ fresh \in BOOLEAN
    /\ sampled \subseteq (1..MaxEnrollments) \X (0..MaxEnrollments)
    /\ delivered \subseteq 0..MaxEnrollments

Init ==
    /\ StreamInit
    /\ mic = [m \in Microphones |-> "unborn"]
    /\ client = [m \in Microphones |-> Nobody]
    /\ lease = [m \in Microphones |-> 0]
    /\ active = None /\ leases = 0
    /\ settings = Start /\ session = Nobody
    /\ enrollment = None /\ enrollments = 0
    /\ paused = "" /\ blocked = FALSE
    /\ speakers \in BOOLEAN /\ forgetting = FALSE
    /\ waiting = <<>>
    /\ worker = "idle" /\ hand = None /\ fresh = FALSE
    /\ sampled = {} /\ delivered = {}

-----------------------------------------------------------------------------
(* The helpers that run under the lock, each a part of an action. *)

DiscardAudio == waiting' = <<>> /\ fresh' = FALSE

\* _evaluate_pause_reason_locked, then the queue.
PauseReason(e, w) ==
    IF e = None /\ ~settings.stt THEN "stt_disabled"
    ELSE IF Len(w) >= MaxWaiting THEN "queue_full" ELSE ""

\* _refresh_pause_state_locked, with enrollment e, queue w and whether there
\* are speakers as they are after the step; the source stays as it is.
RefreshPause(e, w, known) ==
    /\ paused' = IF active = None THEN "" ELSE PauseReason(e, w)
    /\ blocked' = (active # None /\ PauseReason(e, w) = "" /\ e = None /\ ~known)

\* A faulty ReleaseActive: the connection keeps its lease.
ReleaseKeepingLease ==
    /\ active' = None
    /\ paused' = "" /\ blocked' = FALSE
    /\ DiscardAudio
    /\ UNCHANGED lease

\* _release_active_locked, and _revoke_active_locked but for its message.
ReleaseActive ==
    /\ lease' = IF active = None THEN lease ELSE [lease EXCEPT ![active] = 0]
    /\ active' = None
    /\ paused' = "" /\ blocked' = FALSE
    /\ DiscardAudio

\* A faulty CancelEnrollment: what was captured for it stays in the queue.
CancelKeepingAudio ==
    /\ enrollment' = None
    /\ RefreshPause(None, waiting, speakers)
    /\ UNCHANGED <<waiting, fresh>>

CancelEnrollment ==
    /\ enrollment' = None
    /\ DiscardAudio
    /\ RefreshPause(None, <<>>, speakers)

-----------------------------------------------------------------------------
(* Microphone connections. *)

Handles(m) == mic[m] \in {"open", "timed_out"}

Registered(m) == mic[m] \in {"open", "timed_out", "closed"}

RegisterConnection(m) ==
    /\ mic[m] = "unborn"
    /\ mic' = [mic EXCEPT ![m] = "open"]
    /\ UNCHANGED <<streamVars, client, lease, active, leases, modeVars, queueVars,
                   workerVars, fresh>>

IsWebOf(m, c) == Endpoint[m] = "web_microphone" /\ client[m] = c /\ c # Nobody

\* _handle_audio_start; the connection may hold the lease already.
AudioStart(m, c) ==
    /\ Handles(m)
    /\ leases < MaxLeases
    /\ Endpoint[m] = settings.source
    /\ Endpoint[m] = "web_microphone" => session = c
    /\ active \in {None, m}
    /\ client' = [client EXCEPT ![m] = c]
    /\ leases' = leases + 1
    /\ lease' = [lease EXCEPT ![m] = leases + 1]
    /\ active' = m
    /\ IF active = m THEN DiscardAudio ELSE UNCHANGED <<waiting, fresh>>
    /\ paused' = PauseReason(enrollment, waiting')
    /\ blocked' = (paused' = "" /\ enrollment = None /\ ~speakers)
    /\ UNCHANGED <<streamVars, mic, modeVars, workerVars>>

\* _handle_binary with the frame that completes an utterance.
Utter(m) ==
    /\ Handles(m) /\ active = m /\ lease[m] # 0
    /\ paused = ""
    /\ enrollment = None => ~blocked
    /\ IF Len(waiting) < MaxWaiting
         THEN waiting' = Append(waiting,
                 [lease |-> lease[m],
                  enrollment |-> IF enrollment = None THEN 0 ELSE enrollment.number])
         ELSE UNCHANGED waiting
    /\ paused' = IF Len(waiting') >= MaxWaiting THEN "queue_full" ELSE paused
    /\ UNCHANGED <<streamVars, leaseVars, modeVars, blocked, workerVars, fresh>>

\* An audio_stop ends the enrollment whose owner's Web microphone it is.
AudioStop(m) ==
    /\ Handles(m) /\ active = m
    /\ IF enrollment # None /\ IsWebOf(m, enrollment.owner)
         THEN enrollment' = None ELSE UNCHANGED enrollment
    /\ ReleaseActive
    /\ UNCHANGED <<streamVars, mic, client, leases, settings, session, enrollments,
                   speakers, forgetting, workerVars>>

\* The watchdog, 15 s after the last heartbeat; it closes the socket outside
\* the lock, which ends the connection's handler.
LeaseTimeout ==
    /\ active # None
    /\ mic' = [mic EXCEPT ![active] = IF @ = "open" THEN "timed_out" ELSE @]
    /\ ReleaseActive
    /\ UNCHANGED <<streamVars, client, leases, modeVars, workerVars>>

CloseTimedOut(m) ==
    /\ mic[m] = "timed_out"
    /\ mic' = [mic EXCEPT ![m] = "closed"]
    /\ UNCHANGED <<streamVars, client, lease, active, leases, modeVars, queueVars,
                   workerVars, fresh>>

\* The handler of a connection ends, whatever the connection was doing.
UnregisterConnection(m) ==
    /\ Registered(m)
    /\ mic' = [mic EXCEPT ![m] = "ended"]
    /\ session' = IF IsWebOf(m, session) THEN Nobody ELSE session
    /\ LET ends == enrollment # None /\ IsWebOf(m, enrollment.owner) IN
          /\ enrollment' = IF ends THEN None ELSE enrollment
          /\ IF active = m
               THEN ReleaseActive
               ELSE /\ IF ends
                         THEN DiscardAudio /\ RefreshPause(None, <<>>, speakers)
                         ELSE UNCHANGED <<queueVars, fresh>>
                    /\ UNCHANGED <<lease, active>>
    /\ UNCHANGED <<streamVars, client, leases, settings, enrollments, speakers,
                   forgetting, workerVars>>

-----------------------------------------------------------------------------
(* Settings, Web input sessions and enrollments. *)

ReloadSettings(new) ==
    /\ new # settings
    /\ settings' = new
    /\ session' = Nobody
    /\ lease' = IF active = None THEN lease ELSE [lease EXCEPT ![active] = 0]
    /\ active' = None
    /\ paused' = ""
    /\ DiscardAudio
    /\ UNCHANGED <<streamVars, mic, client, leases, enrollment, enrollments, speakers,
                   forgetting, blocked, workerVars>>

\* The owner is looked up in the event streams under the audio lock.
StartWebInput(c) ==
    /\ IsClientConnected(c)
    /\ session = Nobody
    /\ session' = c
    /\ ReleaseActive
    /\ UNCHANGED <<streamVars, mic, client, leases, settings, enrollment, enrollments,
                   speakers, forgetting, workerVars>>

StopWebInput ==
    /\ session # Nobody
    /\ session' = Nobody
    /\ ReleaseActive
    /\ UNCHANGED <<streamVars, mic, client, leases, settings, enrollment, enrollments,
                   speakers, forgetting, workerVars>>

StartEnrollment(c) ==
    /\ enrollment = None /\ enrollments < MaxEnrollments
    /\ IsClientConnected(c)
    /\ active # None
    /\ enrollments' = enrollments + 1
    /\ enrollment' = [number |-> enrollments + 1, owner |-> c, samples |-> 0]
    /\ DiscardAudio
    /\ RefreshPause(enrollment', <<>>, speakers)
    /\ UNCHANGED <<streamVars, leaseVars, settings, session, speakers, forgetting,
                   workerVars>>

\* The owner cancels it, or two minutes are over and the watchdog does.
EndEnrollment ==
    /\ enrollment # None
    /\ CancelEnrollment
    /\ UNCHANGED <<streamVars, leaseVars, settings, session, enrollments, speakers,
                   forgetting, workerVars>>

\* unregister_speaker, one call at a time: the store forgets a speaker, perhaps
\* the last one, and the runtime hears of it under its lock afterwards.
ForgetSpeaker ==
    /\ speakers /\ ~forgetting
    /\ speakers' \in BOOLEAN
    /\ forgetting' = TRUE
    /\ UNCHANGED <<streamVars, leaseVars, settings, session, enrollment, enrollments,
                   queueVars, workerVars, fresh>>

SpeakerForgotten ==
    /\ forgetting
    /\ forgetting' = FALSE
    /\ DiscardAudio
    /\ RefreshPause(enrollment, <<>>, speakers)
    /\ UNCHANGED <<streamVars, leaseVars, settings, session, enrollment, enrollments,
                   speakers, workerVars>>

\* on_event_client_disconnected, the rest of TellClientGone.
EventClientGone(s) ==
    /\ TellClientGone(s)
    /\ LET c == gone[s]
           cancels == enrollment # None /\ enrollment.owner = c
       IN /\ enrollment' = IF cancels THEN None ELSE enrollment
          /\ IF session = c
               THEN session' = Nobody /\ ReleaseActive
               ELSE /\ IF cancels
                         THEN DiscardAudio /\ RefreshPause(None, <<>>, speakers)
                         ELSE UNCHANGED <<queueVars, fresh>>
                    /\ UNCHANGED <<session, lease, active>>
    /\ UNCHANGED <<mic, client, leases, settings, forgetting, enrollments, speakers, workerVars>>

-----------------------------------------------------------------------------
(* The worker. *)

\* A faulty Current: the generations are not compared.
CurrentByLease == active # None /\ lease[active] = hand.lease

\* _item_is_current_locked
Current == fresh /\ active # None /\ lease[active] = hand.lease

\* A faulty WorkerTake: the source stays paused until the utterance is done.
TakeStillPaused ==
    /\ worker = "idle" /\ waiting # <<>>
    /\ hand' = Head(waiting)
    /\ waiting' = Tail(waiting)
    /\ fresh' = TRUE
    /\ worker' = "taken"
    /\ UNCHANGED <<streamVars, leaseVars, modeVars, paused, blocked, sampled, delivered>>

WorkerTake ==
    /\ worker = "idle" /\ waiting # <<>>
    /\ hand' = Head(waiting)
    /\ waiting' = Tail(waiting)
    /\ fresh' = TRUE
    /\ worker' = "taken"
    /\ IF paused = "queue_full"
         THEN RefreshPause(enrollment, waiting', speakers)
         ELSE UNCHANGED <<paused, blocked>>
    /\ UNCHANGED <<streamVars, leaseVars, modeVars, sampled, delivered>>

\* Which way it goes is read without the lock.
WorkerChoose ==
    /\ worker = "taken"
    /\ worker' = IF enrollment # None THEN "enrolling" ELSE "recognising"
    /\ UNCHANGED <<streamVars, leaseVars, modeVars, queueVars, hand, sampled, delivered, fresh>>

\* The end of _process_enrollment_utterance.  A save that fails (the display
\* name was given away meanwhile) leaves the samples as they are, and only a
\* count of exactly Required saves: such an enrollment can but expire.
WorkerEnroll ==
    /\ worker = "enrolling"
    /\ worker' = "finishing"
    /\ \/ \* too short, or too late
          UNCHANGED <<enrollment, speakers, sampled, queueVars, fresh>>
       \/ /\ Current /\ enrollment # None
          /\ sampled' = sampled \cup {<<enrollment.number, hand.enrollment>>}
          /\ \/ /\ enrollment' = [enrollment EXCEPT
                                     !.samples = IF @ > Required THEN @ ELSE @ + 1]
                /\ RefreshPause(enrollment', waiting, speakers)
                /\ UNCHANGED <<speakers, waiting, fresh>>
             \/ /\ enrollment.samples + 1 = Required
                /\ enrollment' = None /\ speakers' = TRUE
                /\ DiscardAudio
                /\ RefreshPause(None, <<>>, TRUE)
    /\ UNCHANGED <<streamVars, leaseVars, settings, session, enrollments, forgetting,
                   hand, delivered>>

\* The critical section of _process_normal_utterance, after the recognition.
WorkerRecognise ==
    /\ worker = "recognising"
    /\ \/ /\ Current \* understood, and its speaker identified
          /\ worker' = "accepted"
          /\ UNCHANGED <<queueVars, fresh>>
       \/ /\ worker' = "finishing"
          /\ UNCHANGED <<queueVars, fresh>>
       \/ /\ Current \* the service refuses the key: stt_configuration_error
          /\ worker' = "finishing"
          /\ paused' = "stt_configuration_error"
          /\ DiscardAudio
          /\ UNCHANGED blocked
    /\ UNCHANGED <<streamVars, leaseVars, modeVars, hand, sampled, delivered>>

\* _deliver_conversation does not look again whether the utterance is current.
WorkerDeliver ==
    /\ worker = "accepted"
    /\ worker' = "finishing"
    /\ delivered' = IF speakers THEN delivered \cup {hand.enrollment} ELSE delivered
    /\ UNCHANGED <<streamVars, leaseVars, modeVars, queueVars, hand, sampled, fresh>>

WorkerFinish ==
    /\ worker = "finishing"
    /\ worker' = "idle" /\ hand' = None /\ fresh' = FALSE
    /\ RefreshPause(enrollment, waiting, speakers)
    /\ UNCHANGED <<streamVars, leaseVars, modeVars, waiting, sampled, delivered>>

Worker == WorkerTake \/ WorkerChoose \/ WorkerEnroll \/ WorkerRecognise
          \/ WorkerDeliver \/ WorkerFinish

-----------------------------------------------------------------------------
Microphone(m) ==
    \/ RegisterConnection(m)
    \/ \E c \in Clients : AudioStart(m, c)
    \/ Utter(m)
    \/ AudioStop(m)
    \/ CloseTimedOut(m)
    \/ UnregisterConnection(m)

Api ==
    \/ \E new \in Settings : ReloadSettings(new)
    \/ \E c \in Clients : StartWebInput(c) \/ StartEnrollment(c)
    \/ StopWebInput
    \/ EndEnrollment
    \/ ForgetSpeaker
    \/ SpeakerForgotten

Next ==
    \/ StreamNext /\ UNCHANGED audioVars
    \/ \E s \in Sessions : EventClientGone(s)
    \/ \E m \in Microphones : Microphone(m)
    \/ LeaseTimeout
    \/ Api
    \/ Worker

Spec == Init /\ [][Next]_vars

-----------------------------------------------------------------------------
(* Properties. *)

\* A connection holds a lease exactly while it is the active one, and the
\* active one is registered and of the source that the settings name: whichever
\* of the seven ways ends a lease - a stop, a close, a time-out, new settings, a
\* session that begins or ends, the owner's disconnect - no other connection is
\* left able to feed audio.
LeaseIsActive ==
    /\ \A m \in Microphones : lease[m] # 0 <=> active = m
    /\ active # None => Registered(active) /\ Endpoint[active] = settings.source

\* Samples of an enrollment were captured during that very enrollment, though
\* the worker looks at the mode without the lock and the embedding takes time:
\* not from a conversation before it, not from another speaker's enrollment.
SamplesAreOwn == \A x \in sampled : x[1] = x[2]

\* What is said during an enrollment never becomes a conversation, even if the
\* enrollment ends before the worker gets to it.
EnrollmentIsPrivate == delivered \subseteq {0}

\* The source is paused for a full queue only while the queue is full, so that
\* the worker's next step resumes it; and an active source that is not paused
\* is blocked for want of a speaker exactly when there is none: recognition is
\* not paid for when nobody can be identified, and starts when somebody can.
PauseIsExact ==
    /\ paused = "queue_full" => Len(waiting) = MaxWaiting
    /\ active # None /\ paused = "" /\ ~forgetting =>
          (blocked <=> enrollment = None /\ ~speakers)
=============================================================================
