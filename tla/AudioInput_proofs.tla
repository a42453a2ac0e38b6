-------------------------- MODULE AudioInput_proofs --------------------------
(***************************************************************************)
(* Proofs about AudioInput for any number of connections, clients, leases  *)
(* and enrollments, any settings and any length of the queue: a lease is   *)
(* held by the active connection alone, the samples of an enrollment and   *)
(* what becomes a conversation were captured as such, and the pause of the *)
(* source is exact.                                                        *)
(***************************************************************************)
EXTENDS AudioInput, TLAPS

\* The enrollment that is under way, 0 for none: what an utterance remembers.
Mode == IF enrollment = None THEN 0 ELSE enrollment.number

\* What waits, and what the worker has in hand while nothing was discarded, was
\* captured in the mode that is still on.
Captured ==
    /\ \A i \in 1..Len(waiting) : waiting[i].enrollment = Mode
    /\ fresh => hand.enrollment = Mode

InHand ==
    /\ worker # "idle" => hand \in Utterances
    /\ fresh => worker # "idle"

\* What the worker treats as conversation was not said during an enrollment, or
\* will not be accepted.
Conversational ==
    /\ worker = "recognising" /\ fresh => hand.enrollment = 0
    /\ worker = "accepted" => hand.enrollment = 0

IInv == /\ TypeOK /\ LeaseIsActive /\ PauseIsExact
        /\ Captured /\ InHand /\ Conversational /\ SamplesAreOwn /\ EnrollmentIsPrivate

LeaseTypes ==
    /\ mic \in [Microphones -> {"unborn", "open", "timed_out", "closed", "ended"}]
    /\ client \in [Microphones -> Clients \cup {Nobody}]
    /\ lease \in [Microphones -> 0..MaxLeases]
    /\ active \in Microphones \cup {None}
    /\ leases \in 0..MaxLeases

ModeTypes ==
    /\ settings \in Settings
    /\ session \in Clients \cup {Nobody}
    /\ enrollment \in Enrollments \cup {None}
    /\ enrollments \in 0..MaxEnrollments
    /\ speakers \in BOOLEAN /\ forgetting \in BOOLEAN

QueueTypes ==
    /\ paused \in {"", "queue_full", "stt_disabled", "stt_configuration_error"}
    /\ blocked \in BOOLEAN
    /\ waiting \in Seq(Utterances) /\ Len(waiting) <= MaxWaiting

WorkerTypes ==
    /\ worker \in {"idle", "taken", "enrolling", "recognising", "accepted", "finishing"}
    /\ hand \in Utterances \cup {None}
    /\ fresh \in BOOLEAN
    /\ sampled \subseteq (1..MaxEnrollments) \X (0..MaxEnrollments)
    /\ delivered \subseteq 0..MaxEnrollments

-----------------------------------------------------------------------------
(* The helpers.                                                            *)

LEMMA Bounds ==
    /\ MaxLeases \in Nat /\ MaxEnrollments \in Nat /\ MaxWaiting \in Nat \ {0}
    /\ Required \in Nat \ {0} /\ None \notin Microphones
BY AudioAssumption

LEMMA Typed ==
    ASSUME IInv
    PROVE  /\ LeaseTypes /\ ModeTypes /\ QueueTypes /\ WorkerTypes
           /\ Len(waiting) \in Nat
<1>1. LeaseTypes /\ ModeTypes /\ QueueTypes /\ WorkerTypes
  BY DEF IInv, TypeOK, LeaseTypes, ModeTypes, QueueTypes, WorkerTypes
<1>2. waiting \in Seq(Utterances)
  BY <1>1 DEF QueueTypes
<1>3. Len(waiting) \in Nat
  BY ONLY <1>2
<1> QED
  BY <1>1, <1>3

\* An empty queue, as a discard leaves it.
LEMMA Discarded ==
    ASSUME waiting' = <<>>
    PROVE  /\ waiting' \in Seq(Utterances) /\ Len(waiting') = 0 /\ Len(waiting') <= MaxWaiting
           /\ \A i : i \notin 1..Len(waiting')
<1>1. waiting' \in Seq(Utterances) /\ Len(waiting') = 0
  OBVIOUS
<1> QED
  BY <1>1, Bounds

LEMMA Modes ==
    ASSUME IInv
    PROVE  Mode \in 0..MaxEnrollments /\ (enrollment # None => Mode \in 1..MaxEnrollments)
<1>1. enrollment \in Enrollments \cup {None}
  BY Typed DEF ModeTypes
<1> QED
  BY <1>1, Bounds DEF Mode, Enrollments

\* Why a source is paused.
LEMMA Pausing ==
    ASSUME NEW e, NEW w, Len(w) \in Nat
    PROVE  /\ PauseReason(e, w) \in {"", "queue_full", "stt_disabled"}
           /\ PauseReason(e, w) = "queue_full" => Len(w) >= MaxWaiting
BY DEF PauseReason

LEMMA Refreshed ==
    ASSUME NEW e, NEW w, NEW known \in BOOLEAN, RefreshPause(e, w, known), Len(w) \in Nat
    PROVE  /\ paused' \in {"", "queue_full", "stt_disabled"} /\ blocked' \in BOOLEAN
           /\ paused' = "queue_full" => Len(w) >= MaxWaiting
           /\ active # None /\ paused' = "" => (blocked' <=> e = None /\ ~known)
BY Pausing DEF RefreshPause

\* With the active connection its lease goes, and all that was captured.
LEMMA Released ==
    ASSUME LeaseTypes, LeaseIsActive, ReleaseActive
    PROVE  /\ lease' \in [Microphones -> 0..MaxLeases] /\ active' = None
           /\ \A m \in Microphones : lease'[m] = 0
           /\ paused' = "" /\ blocked' = FALSE /\ waiting' = <<>> /\ fresh' = FALSE
<1>1. /\ lease' = IF active = None THEN lease ELSE [lease EXCEPT ![active] = 0]
      /\ active' = None
      /\ paused' = "" /\ blocked' = FALSE /\ waiting' = <<>> /\ fresh' = FALSE
  BY DEF ReleaseActive, DiscardAudio
<1>2. \A m \in Microphones : m # active => lease[m] = 0
  BY DEF LeaseIsActive, LeaseTypes
<1>3. CASE active = None
  BY <1>1, <1>2, <1>3, Bounds DEF LeaseTypes
<1>4. CASE active \in Microphones
  <2>1. lease' = [lease EXCEPT ![active] = 0]
    BY <1>1, <1>4, Bounds
  <2>2. lease \in [Microphones -> 0..MaxLeases] /\ 0 \in 0..MaxLeases
    BY Bounds DEF LeaseTypes
  <2>3. lease' \in [Microphones -> 0..MaxLeases]
    BY <2>1, <2>2
  <2>4. \A m \in Microphones : lease'[m] = 0
    BY <1>2, <2>1, <2>2
  <2> QED
    BY <1>1, <2>3, <2>4
<1> QED
  BY <1>1, <1>3, <1>4 DEF LeaseTypes

LEMMA NoLease ==
    ASSUME active' = None, \A m \in Microphones : lease'[m] = 0
    PROVE  LeaseIsActive'
BY Bounds DEF LeaseIsActive

-----------------------------------------------------------------------------
(* The leases.                                                             *)

LEMMA LeaseStep == IInv /\ [Next]_vars => LeaseIsActive' /\ LeaseTypes'
<1> SUFFICES ASSUME IInv, [Next]_vars  PROVE LeaseIsActive' /\ LeaseTypes'
  OBVIOUS
<1>1. LeaseTypes /\ LeaseIsActive
  BY Typed DEF IInv
<1>2. CASE UNCHANGED <<lease, active, settings, client, leases, mic>>
  BY <1>1, <1>2 DEF LeaseIsActive, LeaseTypes, Registered
<1>3. ASSUME ReleaseActive, leases' = leases, client' = client,
             mic' \in [Microphones -> {"unborn", "open", "timed_out", "closed", "ended"}]
      PROVE  LeaseIsActive' /\ LeaseTypes'
  <2>1. /\ lease' \in [Microphones -> 0..MaxLeases] /\ active' = None
        /\ \A m \in Microphones : lease'[m] = 0
    BY <1>1, <1>3, Released
  <2> QED
    BY <1>1, <1>3, <2>1, NoLease DEF LeaseTypes
<1>4. ASSUME NEW m \in Microphones, RegisterConnection(m) \/ CloseTimedOut(m)
      PROVE  LeaseIsActive' /\ LeaseTypes'
  <2>1. /\ UNCHANGED <<lease, active, settings, client, leases>>
        /\ \E new \in {"open", "closed"} : mic' = [mic EXCEPT ![m] = new]
    BY <1>4 DEF RegisterConnection, CloseTimedOut, modeVars
  <2> QED
    BY <1>1, <2>1 DEF LeaseIsActive, LeaseTypes, Registered
<1>5. ASSUME NEW m \in Microphones, NEW c \in Clients, AudioStart(m, c)
      PROVE  LeaseIsActive' /\ LeaseTypes'
  <2>1. /\ mic[m] \in {"open", "timed_out"} /\ leases < MaxLeases /\ Endpoint[m] = settings.source
        /\ active \in {None, m} /\ active' = m /\ leases' = leases + 1
        /\ client' = [client EXCEPT ![m] = c] /\ lease' = [lease EXCEPT ![m] = leases + 1]
        /\ mic' = mic /\ settings' = settings
    BY <1>5 DEF AudioStart, Handles, modeVars
  <2>2. LeaseTypes'
    BY <1>1, <2>1, Bounds DEF LeaseTypes
  <2>3. leases + 1 # 0 /\ \A n \in Microphones \ {m} : lease[n] = 0
    BY <1>1, <2>1, Bounds DEF LeaseTypes, LeaseIsActive
  <2>4. LeaseIsActive'
    BY <1>1, <2>1, <2>3, Bounds DEF LeaseIsActive, LeaseTypes, Registered
  <2> QED
    BY <2>2, <2>4
<1>6. ASSUME NEW m \in Microphones, AudioStop(m)  PROVE LeaseIsActive' /\ LeaseTypes'
  BY <1>1, <1>3, <1>6 DEF AudioStop, LeaseTypes
<1>7. CASE LeaseTimeout
  BY <1>1, <1>3, <1>7 DEF LeaseTimeout, LeaseTypes
<1>8. ASSUME NEW m \in Microphones, UnregisterConnection(m)  PROVE LeaseIsActive' /\ LeaseTypes'
  <2>1. mic' = [mic EXCEPT ![m] = "ended"] /\ leases' = leases /\ client' = client
        /\ settings' = settings
    BY <1>8 DEF UnregisterConnection
  <2>2. CASE active = m
    BY <1>1, <1>3, <1>8, <2>1, <2>2 DEF UnregisterConnection, LeaseTypes
  <2>3. CASE active # m
    <3>1. UNCHANGED <<lease, active>>
      BY <1>8, <2>3 DEF UnregisterConnection
    <3> QED
      BY <1>1, <2>1, <2>3, <3>1 DEF LeaseIsActive, LeaseTypes, Registered
  <2> QED
    BY <2>2, <2>3
<1>9. ASSUME NEW new \in Settings, ReloadSettings(new)  PROVE LeaseIsActive' /\ LeaseTypes'
  <2>1. /\ lease' = IF active = None THEN lease ELSE [lease EXCEPT ![active] = 0]
        /\ active' = None /\ UNCHANGED <<mic, client, leases>>
    BY <1>9 DEF ReloadSettings
  <2>2. \A m \in Microphones : m # active => lease[m] = 0
    BY <1>1 DEF LeaseIsActive, LeaseTypes
  <2>3. lease' \in [Microphones -> 0..MaxLeases] /\ \A m \in Microphones : lease'[m] = 0
    BY <1>1, <2>1, <2>2, Bounds DEF LeaseTypes
  <2> QED
    BY <1>1, <2>1, <2>3, NoLease DEF LeaseTypes
<1>10. ASSUME (\E c \in Clients : StartWebInput(c)) \/ StopWebInput
       PROVE  LeaseIsActive' /\ LeaseTypes'
  BY <1>1, <1>3, <1>10 DEF StartWebInput, StopWebInput, LeaseTypes
<1>11. ASSUME NEW s \in Sessions, EventClientGone(s)  PROVE LeaseIsActive' /\ LeaseTypes'
  <2>1. UNCHANGED <<mic, client, leases, settings>>
    BY <1>11 DEF EventClientGone
  <2>2. ReleaseActive \/ UNCHANGED <<lease, active>>
    BY <1>11 DEF EventClientGone
  <2> QED
    BY <1>1, <1>2, <1>3, <2>1, <2>2 DEF LeaseTypes
<1>12. (\E c \in Clients : StartEnrollment(c)) \/ EndEnrollment \/ ForgetSpeaker
       \/ SpeakerForgotten => UNCHANGED <<lease, active, settings, client, leases, mic>>
  BY DEF StartEnrollment, EndEnrollment, ForgetSpeaker, SpeakerForgotten, leaseVars
<1>13. Worker \/ (\E m \in Microphones : Utter(m)) \/ UNCHANGED audioVars
       => UNCHANGED <<lease, active, settings, client, leases, mic>>
  BY DEF Worker, WorkerTake, WorkerChoose, WorkerEnroll, WorkerRecognise, WorkerDeliver,
         WorkerFinish, Utter, audioVars, leaseVars, modeVars
<1> QED
  BY <1>2, <1>4, <1>5, <1>6, <1>7, <1>8, <1>9, <1>10, <1>11, <1>12, <1>13
     DEF Next, Microphone, Api, vars

-----------------------------------------------------------------------------
(* Types.                                                                  *)

LEMMA StreamStep ==
    ASSUME StreamTypeOK,
           StreamNext \/ (\E s \in Sessions : TellClientGone(s)) \/ UNCHANGED streamVars
    PROVE  StreamTypeOK'
<1> USE HellosAssumption
<1>1. ASSUME NEW s \in Sessions, AddConnection(s) \/ PeerBreaks(s) \/ SendTo(s)
      PROVE  StreamTypeOK'
  BY <1>1 DEF StreamTypeOK, AddConnection, PeerBreaks, SendTo
<1>2. ASSUME NEW s \in Sessions, NEW h \in Hellos, HelloRefused(s, h)
      PROVE  StreamTypeOK'
  BY <1>2 DEF StreamTypeOK, HelloRefused, WithoutOthersOf
<1>3. ASSUME NEW s \in Sessions, NEW h \in Hellos, HelloAccepted(s, h)
      PROVE  StreamTypeOK'
  BY <1>3 DEF StreamTypeOK, HelloAccepted, WithoutOthersOf, SessionsOf
<1>4. ASSUME NEW s \in Sessions, HelloOfRemovedSession(s) \/ CloseReplaced(s)
      PROVE  StreamTypeOK'
  BY <1>4 DEF StreamTypeOK, HelloOfRemovedSession, CloseReplaced
<1>5. ASSUME NEW s \in Sessions, CloseRefused(s) \/ StopReading(s)  PROVE StreamTypeOK'
  BY <1>5 DEF StreamTypeOK, CloseRefused, StopReading
<1>6. ASSUME NEW s \in Sessions, RemoveConnection(s)  PROVE StreamTypeOK'
  BY <1>6 DEF StreamTypeOK, RemoveConnection
<1>7. ASSUME NEW s \in Sessions, CheckClientGone(s) \/ TellClientGone(s)
      PROVE  StreamTypeOK'
  BY <1>7 DEF StreamTypeOK, CheckClientGone, TellClientGone
<1>8. CASE UNCHANGED streamVars
  BY <1>8 DEF StreamTypeOK, streamVars
<1> QED
  BY <1>1, <1>2, <1>3, <1>4, <1>5, <1>6, <1>7, <1>8
     DEF StreamNext, Peer, HandlerStep, SendFails

LEMMA StreamKept == IInv /\ [Next]_vars => StreamTypeOK'
<1> SUFFICES ASSUME IInv, [Next]_vars  PROVE StreamTypeOK'
  OBVIOUS
<1>1. ASSUME NEW m \in Microphones, Microphone(m)  PROVE UNCHANGED streamVars
  BY <1>1 DEF Microphone, RegisterConnection, AudioStart, Utter, AudioStop, CloseTimedOut,
              UnregisterConnection
<1>2. ASSUME Api  PROVE UNCHANGED streamVars
  BY <1>2 DEF Api, ReloadSettings, StartWebInput, StartEnrollment, StopWebInput,
              EndEnrollment, ForgetSpeaker, SpeakerForgotten
<1>3. ASSUME Worker \/ LeaseTimeout  PROVE UNCHANGED streamVars
  BY <1>3 DEF Worker, WorkerTake, WorkerChoose, WorkerEnroll, WorkerRecognise, WorkerDeliver,
              WorkerFinish, LeaseTimeout
<1>4. ASSUME NEW s \in Sessions, EventClientGone(s)  PROVE TellClientGone(s)
  BY <1>4 DEF EventClientGone
<1>5. StreamNext \/ (\E s \in Sessions : TellClientGone(s)) \/ UNCHANGED streamVars
  BY <1>1, <1>2, <1>3, <1>4 DEF Next, vars
<1>6. StreamTypeOK
  BY DEF IInv, TypeOK
<1> QED
  BY <1>5, <1>6, StreamStep

LEMMA ModeStep == IInv /\ [Next]_vars => ModeTypes'
<1> SUFFICES ASSUME IInv, [Next]_vars  PROVE ModeTypes'
  OBVIOUS
<1>1. ModeTypes /\ 0 \in 0..(Required + 1)
  BY Typed, Bounds
<1>2. ASSUME NEW m \in Microphones, Microphone(m)  PROVE ModeTypes'
  BY <1>1, <1>2 DEF Microphone, RegisterConnection, AudioStart, Utter, AudioStop, CloseTimedOut,
                    UnregisterConnection, ModeTypes, modeVars
<1>3. ASSUME NEW new \in Settings, ReloadSettings(new)  PROVE ModeTypes'
  BY <1>1, <1>3 DEF ReloadSettings, ModeTypes
<1>4. ASSUME NEW c \in Clients, StartWebInput(c)  PROVE ModeTypes'
  BY <1>1, <1>4 DEF StartWebInput, ModeTypes
<1>5. ASSUME NEW c \in Clients, StartEnrollment(c)  PROVE ModeTypes'
  <2>1. enrollments' = enrollments + 1 /\ enrollments < MaxEnrollments
        /\ enrollment' = [number |-> enrollments + 1, owner |-> c, samples |-> 0]
    BY <1>5 DEF StartEnrollment
  <2>2. enrollments + 1 \in 1..MaxEnrollments /\ enrollments + 1 \in 0..MaxEnrollments
    BY <1>1, <2>1, Bounds DEF ModeTypes
  <2>3. enrollment' \in Enrollments
    BY <1>1, <2>1, <2>2 DEF Enrollments
  <2> QED
    BY <1>1, <1>5, <2>1, <2>2, <2>3 DEF StartEnrollment, ModeTypes
<1>6. CASE StopWebInput \/ EndEnrollment \/ ForgetSpeaker \/ SpeakerForgotten
  BY <1>1, <1>6 DEF StopWebInput, EndEnrollment, CancelEnrollment, ForgetSpeaker,
                    SpeakerForgotten, ModeTypes
<1>7. ASSUME NEW s \in Sessions, EventClientGone(s)  PROVE ModeTypes'
  BY <1>1, <1>7 DEF EventClientGone, ModeTypes
<1>8. CASE WorkerEnroll
  <2>1. ASSUME enrollment # None,
               enrollment' = [enrollment EXCEPT !.samples = IF @ > Required THEN @ ELSE @ + 1]
        PROVE  enrollment' \in Enrollments
    <3>1. enrollment \in Enrollments
      BY <1>1, <2>1 DEF ModeTypes
    <3>2. (IF enrollment.samples > Required THEN enrollment.samples ELSE enrollment.samples + 1)
             \in 0..(Required + 1)
      BY <3>1, Bounds DEF Enrollments
    <3> QED
      BY <2>1, <3>1, <3>2 DEF Enrollments
  <2>2. enrollment' \in Enrollments \cup {None} /\ speakers' \in BOOLEAN
    BY <1>1, <1>8, <2>1 DEF WorkerEnroll, ModeTypes
  <2> QED
    BY <1>1, <1>8, <2>2 DEF WorkerEnroll, ModeTypes
<1>9. CASE Worker /\ ~WorkerEnroll
  BY <1>1, <1>9 DEF Worker, WorkerTake, WorkerChoose, WorkerRecognise, WorkerDeliver,
                    WorkerFinish, modeVars, ModeTypes
<1>10. CASE LeaseTimeout \/ UNCHANGED audioVars
  BY <1>1, <1>10 DEF LeaseTimeout, audioVars, modeVars, ModeTypes
<1> QED
  BY <1>2, <1>3, <1>4, <1>5, <1>6, <1>7, <1>8, <1>9, <1>10 DEF Next, Api, vars

-----------------------------------------------------------------------------
(* What was captured, and as what.                                         *)

Capture ==
    /\ waiting \in Seq(Utterances) /\ Len(waiting) <= MaxWaiting
    /\ WorkerTypes /\ Captured /\ InHand /\ Conversational
    /\ SamplesAreOwn /\ EnrollmentIsPrivate

LEMMA CaptureHolds == IInv => Capture
BY Typed DEF IInv, Capture, QueueTypes

\* A discard leaves nothing that was captured in another mode.
LEMMA Emptied ==
    ASSUME IInv, waiting' = <<>>, fresh' = FALSE, UNCHANGED workerVars
    PROVE  Capture'
<1>1. Capture /\ UNCHANGED <<worker, hand, sampled, delivered>>
  BY CaptureHolds DEF workerVars
<1>2. Captured'
  BY Discarded DEF Captured
<1> QED
  BY <1>1, <1>2, Discarded
     DEF Capture, WorkerTypes, InHand, Conversational, SamplesAreOwn, EnrollmentIsPrivate

LEMMA Undisturbed ==
    ASSUME IInv, UNCHANGED <<waiting, fresh, workerVars>>, Mode' = Mode
    PROVE  Capture'
<1>1. Capture /\ UNCHANGED <<waiting, fresh, worker, hand, sampled, delivered>>
  BY CaptureHolds DEF workerVars
<1> QED
  BY <1>1 DEF Capture, Captured, WorkerTypes, InHand, Conversational, SamplesAreOwn,
              EnrollmentIsPrivate

LEMMA Appended ==
    ASSUME waiting \in Seq(Utterances), NEW u \in Utterances, waiting' = Append(waiting, u)
    PROVE  /\ waiting' \in Seq(Utterances) /\ Len(waiting) \in Nat
           /\ Len(waiting') = Len(waiting) + 1
           /\ \A i \in 1..Len(waiting') : i \in 1..Len(waiting) \/ waiting'[i] = u
           /\ \A i \in 1..Len(waiting) : waiting'[i] = waiting[i]
OBVIOUS

LEMMA Taken ==
    ASSUME waiting \in Seq(Utterances), waiting # <<>>, waiting' = Tail(waiting)
    PROVE  /\ waiting' \in Seq(Utterances) /\ Len(waiting') \in Nat
           /\ Len(waiting) = Len(waiting') + 1 /\ 1 \in 1..Len(waiting)
           /\ Head(waiting) = waiting[1] /\ Head(waiting) \in Utterances
           /\ \A i \in 1..Len(waiting') : i + 1 \in 1..Len(waiting) /\ waiting'[i] = waiting[i + 1]
OBVIOUS

LEMMA UtterStep ==
    ASSUME IInv, NEW m \in Microphones, Utter(m)
    PROVE  Capture'
<1>1. enrollment' = enrollment /\ fresh' = fresh /\ UNCHANGED workerVars
  BY DEF Utter, modeVars
<1>2. Mode' = Mode
  BY <1>1 DEF Mode
<1>3. CASE waiting' = waiting
  BY <1>1, <1>2, <1>3, Undisturbed
<1>4. CASE waiting' # waiting
  <2> DEFINE u == [lease |-> lease[m],
                   enrollment |-> IF enrollment = None THEN 0 ELSE enrollment.number]
  <2>1. waiting' = Append(waiting, u) /\ Len(waiting) < MaxWaiting /\ lease[m] # 0
    BY <1>4 DEF Utter
  <2>2. u.enrollment = Mode /\ u \in Utterances
    <3>1. lease[m] \in 1..MaxLeases
      BY <2>1, Typed, Bounds DEF LeaseTypes
    <3>2. u.enrollment = Mode
      BY DEF Mode
    <3> QED
      BY <3>1, <3>2, Modes DEF Utterances, Mode
  <2> HIDE DEF u
  <2>3. /\ waiting' \in Seq(Utterances) /\ Len(waiting) \in Nat
        /\ Len(waiting') = Len(waiting) + 1
        /\ \A i \in 1..Len(waiting') : i \in 1..Len(waiting) \/ waiting'[i] = u
        /\ \A i \in 1..Len(waiting) : waiting'[i] = waiting[i]
    BY <2>1, <2>2, CaptureHolds, Appended DEF Capture
  <2>4. Len(waiting') <= MaxWaiting
    BY <2>1, <2>3, Bounds
  <2>5. Capture /\ UNCHANGED <<worker, hand, sampled, delivered>>
    BY <1>1, CaptureHolds DEF workerVars
  <2>6. Captured'
    BY <1>1, <1>2, <2>2, <2>3, <2>5 DEF Capture, Captured
  <2> QED
    BY <1>1, <2>3, <2>4, <2>5, <2>6
       DEF Capture, WorkerTypes, InHand, Conversational, SamplesAreOwn, EnrollmentIsPrivate
<1> QED
  BY <1>3, <1>4

LEMMA WorkerStep ==
    ASSUME IInv, Worker
    PROVE  Capture'
<1>1. Capture /\ ModeTypes
  BY CaptureHolds, Typed
<1>2. CASE WorkerTake
  <2> DEFINE u == Head(waiting)
  <2>1. /\ waiting # <<>> /\ waiting' = Tail(waiting) /\ hand' = u /\ fresh' = TRUE
        /\ worker' = "taken" /\ UNCHANGED <<enrollment, sampled, delivered>>
    BY <1>2 DEF WorkerTake, modeVars
  <2>2. /\ waiting' \in Seq(Utterances) /\ Len(waiting') \in Nat
        /\ Len(waiting) = Len(waiting') + 1 /\ 1 \in 1..Len(waiting)
        /\ u = waiting[1] /\ u \in Utterances
        /\ \A i \in 1..Len(waiting') : i + 1 \in 1..Len(waiting) /\ waiting'[i] = waiting[i + 1]
    BY <1>1, <2>1, Taken DEF Capture
  <2> HIDE DEF u
  <2>3. Len(waiting') <= MaxWaiting
    BY <1>1, <2>2, Bounds DEF Capture
  <2>4. Mode' = Mode
    BY <2>1 DEF Mode
  <2>5. Captured'
    BY <1>1, <2>1, <2>2, <2>4 DEF Capture, Captured
  <2> QED
    BY <1>1, <2>1, <2>2, <2>3, <2>5
       DEF Capture, WorkerTypes, InHand, Conversational, SamplesAreOwn, EnrollmentIsPrivate
<1>3. ASSUME UNCHANGED <<waiting, hand, fresh>>, Mode' = Mode,
             worker # "idle",
             worker' \in {"taken", "enrolling", "recognising", "accepted", "finishing"}
      PROVE  /\ waiting' \in Seq(Utterances) /\ Len(waiting') <= MaxWaiting
             /\ Captured' /\ InHand' /\ hand' \in Utterances \cup {None} /\ fresh' \in BOOLEAN
  BY <1>1, <1>3 DEF Capture, Captured, InHand, WorkerTypes
<1>4. CASE WorkerChoose
  <2>1. /\ worker = "taken" /\ worker' = IF enrollment # None THEN "enrolling" ELSE "recognising"
        /\ UNCHANGED <<enrollment, waiting, hand, fresh, sampled, delivered>>
    BY <1>4 DEF WorkerChoose, modeVars, queueVars
  <2>2. Mode' = Mode
    BY <2>1 DEF Mode
  <2>3. Conversational'
    BY <1>1, <2>1 DEF Capture, Captured, Conversational, Mode
  <2> QED
    BY <1>1, <1>3, <2>1, <2>2, <2>3 DEF Capture, WorkerTypes, SamplesAreOwn, EnrollmentIsPrivate
<1>5. CASE WorkerEnroll
  <2>1. worker = "enrolling" /\ worker' = "finishing" /\ UNCHANGED <<hand, delivered>>
    BY <1>5 DEF WorkerEnroll
  <2> DEFINE next == IF enrollment.samples > Required
                       THEN enrollment.samples ELSE enrollment.samples + 1
  <2>2. \/ UNCHANGED <<enrollment, sampled, waiting, fresh>>
        \/ /\ fresh /\ enrollment # None
           /\ sampled' = sampled \cup {<<enrollment.number, hand.enrollment>>}
           /\ \/ /\ UNCHANGED <<waiting, fresh>>
                 /\ enrollment' = [enrollment EXCEPT !.samples = next]
              \/ waiting' = <<>> /\ fresh' = FALSE
    BY <1>5 DEF WorkerEnroll, Current, DiscardAudio, queueVars
  <2>3. /\ sampled' \subseteq (1..MaxEnrollments) \X (0..MaxEnrollments) /\ SamplesAreOwn'
    <3>1. CASE sampled' = sampled
      BY <1>1, <3>1 DEF Capture, WorkerTypes, SamplesAreOwn
    <3>2. CASE fresh /\ enrollment # None
               /\ sampled' = sampled \cup {<<enrollment.number, hand.enrollment>>}
      <4>1. hand.enrollment = enrollment.number /\ Mode = enrollment.number
        BY <1>1, <3>2 DEF Capture, Captured, Mode
      <4>2. enrollment.number \in 1..MaxEnrollments /\ hand.enrollment \in 0..MaxEnrollments
        BY <3>2, <4>1, Modes
      <4> QED
        BY <1>1, <3>2, <4>1, <4>2 DEF Capture, WorkerTypes, SamplesAreOwn
    <3> QED
      BY <2>2, <3>1, <3>2
  <2>4. Conversational' /\ delivered' \subseteq 0..MaxEnrollments /\ EnrollmentIsPrivate'
    BY <1>1, <2>1 DEF Capture, Conversational, WorkerTypes, EnrollmentIsPrivate
  <2>5. CASE UNCHANGED <<waiting, fresh>>
             /\ \/ enrollment' = enrollment
                \/ enrollment # None /\ enrollment' = [enrollment EXCEPT !.samples = next]
    <3>1. enrollment \in Enrollments \cup {None}
      BY <1>1 DEF ModeTypes
    <3>2. Mode' = Mode
      <4>1. CASE enrollment' = enrollment
        BY <4>1 DEF Mode
      <4>2. CASE enrollment # None /\ enrollment' = [enrollment EXCEPT !.samples = next]
        <5>1. next \in 0..(Required + 1)
          BY <3>1, <4>2, Bounds DEF Enrollments
        <5> HIDE DEF next
        <5>2. enrollment' \in Enrollments /\ enrollment'.number = enrollment.number
          BY <3>1, <4>2, <5>1 DEF Enrollments
        <5>3. enrollment' # None
          BY <5>2, AudioAssumption
        <5> QED
          BY <4>2, <5>2, <5>3 DEF Mode
      <4> QED
        BY <2>5, <4>1, <4>2
    <3> QED
      BY <1>3, <2>1, <2>3, <2>4, <2>5, <3>2 DEF Capture, WorkerTypes
  <2>6. CASE waiting' = <<>> /\ fresh' = FALSE
    <3>1. Captured' /\ waiting' \in Seq(Utterances) /\ Len(waiting') <= MaxWaiting
      BY <2>6, Discarded DEF Captured
    <3> QED
      BY <1>1, <2>1, <2>3, <2>4, <2>6, <3>1 DEF Capture, InHand, WorkerTypes
  <2> QED
    BY <2>2, <2>5, <2>6
<1>6. CASE WorkerRecognise
  <2>1. /\ worker = "recognising" /\ worker' \in {"accepted", "finishing"}
        /\ worker' = "accepted" => fresh
        /\ UNCHANGED <<enrollment, hand, sampled, delivered>>
        /\ UNCHANGED <<waiting, fresh>> \/ (waiting' = <<>> /\ fresh' = FALSE)
    BY <1>6 DEF WorkerRecognise, Current, DiscardAudio, modeVars, queueVars
  <2>2. Mode' = Mode
    BY <2>1 DEF Mode
  <2>3. Conversational' /\ SamplesAreOwn' /\ EnrollmentIsPrivate'
    BY <1>1, <2>1 DEF Capture, Conversational, SamplesAreOwn, EnrollmentIsPrivate
  <2>4. CASE UNCHANGED <<waiting, fresh>>
    BY <1>1, <1>3, <2>1, <2>2, <2>3, <2>4 DEF Capture, WorkerTypes
  <2>5. CASE waiting' = <<>> /\ fresh' = FALSE
    <3>1. Captured' /\ waiting' \in Seq(Utterances) /\ Len(waiting') <= MaxWaiting
      BY <2>5, Discarded DEF Captured
    <3> QED
      BY <1>1, <2>1, <2>3, <2>5, <3>1 DEF Capture, InHand, WorkerTypes
  <2> QED
    BY <2>1, <2>4, <2>5
<1>7. CASE WorkerDeliver
  <2>1. /\ worker = "accepted" /\ worker' = "finishing"
        /\ UNCHANGED <<enrollment, waiting, fresh, hand, sampled>>
        /\ delivered' \subseteq delivered \cup {hand.enrollment}
    BY <1>7 DEF WorkerDeliver, modeVars, queueVars
  <2>2. Mode' = Mode
    BY <2>1 DEF Mode
  <2>3. /\ delivered' \subseteq {0} /\ delivered' \subseteq 0..MaxEnrollments
    BY <1>1, <2>1, Bounds DEF Capture, Conversational, EnrollmentIsPrivate
  <2> QED
    BY <1>1, <1>3, <2>1, <2>2, <2>3
       DEF Capture, WorkerTypes, Conversational, SamplesAreOwn, EnrollmentIsPrivate
<1>8. CASE WorkerFinish
  <2>1. /\ worker' = "idle" /\ hand' = None /\ fresh' = FALSE
        /\ UNCHANGED <<enrollment, waiting, sampled, delivered>>
    BY <1>8 DEF WorkerFinish, modeVars
  <2>2. Mode' = Mode
    BY <2>1 DEF Mode
  <2> QED
    BY <1>1, <2>1, <2>2
       DEF Capture, Captured, InHand, WorkerTypes, Conversational, SamplesAreOwn,
           EnrollmentIsPrivate
<1> QED
  BY <1>2, <1>4, <1>5, <1>6, <1>7, <1>8 DEF Worker

LEMMA CaptureStep == IInv /\ [Next]_vars => Capture'
<1> SUFFICES ASSUME IInv, [Next]_vars  PROVE Capture'
  OBVIOUS
<1>1. ASSUME UNCHANGED workerVars,
             \/ waiting' = <<>> /\ fresh' = FALSE
             \/ UNCHANGED <<waiting, fresh, enrollment>>
      PROVE  Capture'
  <2>1. CASE waiting' = <<>> /\ fresh' = FALSE
    BY <1>1, <2>1, Emptied
  <2>2. CASE UNCHANGED <<waiting, fresh, enrollment>>
    <3>1. Mode' = Mode
      BY <2>2 DEF Mode
    <3> QED
      BY <1>1, <2>2, <3>1, Undisturbed
  <2> QED
    BY <1>1, <2>1, <2>2
<1>2. ASSUME NEW m \in Microphones, Microphone(m)  PROVE Capture'
  <2>1. CASE Utter(m)
    BY <2>1, UtterStep
  <2>2. CASE RegisterConnection(m) \/ CloseTimedOut(m)
    BY <1>1, <2>2 DEF RegisterConnection, CloseTimedOut, modeVars, queueVars
  <2>3. ASSUME NEW c \in Clients, AudioStart(m, c)  PROVE Capture'
    BY <1>1, <2>3 DEF AudioStart, DiscardAudio, modeVars
  <2>4. CASE AudioStop(m)
    BY <1>1, <2>4 DEF AudioStop, ReleaseActive, DiscardAudio
  <2>5. CASE UnregisterConnection(m)
    BY <1>1, <2>5 DEF UnregisterConnection, ReleaseActive, DiscardAudio, queueVars
  <2> QED
    BY <1>2, <2>1, <2>2, <2>3, <2>4, <2>5 DEF Microphone
<1>3. ASSUME Api  PROVE Capture'
  BY <1>1, <1>3 DEF Api, ReloadSettings, StartWebInput, StopWebInput, StartEnrollment,
                    EndEnrollment, CancelEnrollment, ForgetSpeaker, SpeakerForgotten,
                    ReleaseActive, DiscardAudio, queueVars
<1>4. ASSUME NEW s \in Sessions, EventClientGone(s)  PROVE Capture'
  BY <1>1, <1>4 DEF EventClientGone, ReleaseActive, DiscardAudio, queueVars
<1>5. CASE LeaseTimeout \/ UNCHANGED audioVars
  BY <1>1, <1>5 DEF LeaseTimeout, ReleaseActive, DiscardAudio, audioVars, modeVars, queueVars
<1> QED
  BY <1>2, <1>3, <1>4, <1>5, WorkerStep DEF Next, vars

-----------------------------------------------------------------------------
(* The pause of the source.                                                *)

PauseTypes ==
    /\ paused \in {"", "queue_full", "stt_disabled", "stt_configuration_error"}
    /\ blocked \in BOOLEAN

\* A pause that is computed anew, for the queue and the mode after the step.
LEMMA PauseFollows ==
    ASSUME Capture', ModeTypes', active' = active,
           RefreshPause(enrollment', waiting', speakers')
    PROVE  PauseTypes' /\ PauseIsExact'
<1>1. waiting' \in Seq(Utterances) /\ Len(waiting') <= MaxWaiting
  BY DEF Capture
<1>2. Len(waiting') \in Nat
  BY ONLY <1>1
<1>3. speakers' \in BOOLEAN
  BY DEF ModeTypes
<1>4. /\ paused' \in {"", "queue_full", "stt_disabled"} /\ blocked' \in BOOLEAN
      /\ paused' = "queue_full" => Len(waiting') >= MaxWaiting
      /\ active # None /\ paused' = "" => (blocked' <=> enrollment' = None /\ ~speakers')
  BY ONLY <1>2, <1>3, Refreshed, RefreshPause(enrollment', waiting', speakers')
<1>5. paused' = "queue_full" => Len(waiting') = MaxWaiting
  BY <1>1, <1>2, <1>4, Bounds
<1> QED
  BY <1>4, <1>5 DEF PauseTypes, PauseIsExact

LEMMA PauseStep == IInv /\ [Next]_vars => PauseTypes' /\ PauseIsExact'
<1> SUFFICES ASSUME IInv, [Next]_vars  PROVE PauseTypes' /\ PauseIsExact'
  OBVIOUS
<1>1. PauseTypes /\ PauseIsExact /\ Capture' /\ ModeTypes'
  BY CaptureStep, ModeStep, Typed DEF IInv, PauseTypes, QueueTypes
<1>2. Len(waiting') \in Nat /\ Len(waiting') <= MaxWaiting
  <2>1. waiting' \in Seq(Utterances) /\ Len(waiting') <= MaxWaiting
    BY <1>1 DEF Capture
  <2>2. Len(waiting') \in Nat
    BY ONLY <2>1
  <2> QED
    BY <2>1, <2>2
<1>3. ASSUME active' = None, paused' = "", blocked' \in BOOLEAN
      PROVE  PauseTypes' /\ PauseIsExact'
  BY <1>3 DEF PauseTypes, PauseIsExact
<1>4. ReleaseActive => active' = None /\ paused' = "" /\ blocked' \in BOOLEAN
  BY DEF ReleaseActive
<1>5. ASSUME UNCHANGED <<active, paused, blocked, waiting>>,
             forgetting' \/ UNCHANGED <<forgetting, speakers, enrollment>>
      PROVE  PauseTypes' /\ PauseIsExact'
  <2>1. PauseTypes'
    BY <1>1, <1>5 DEF PauseTypes
  <2>2. paused' = "queue_full" => Len(waiting') = MaxWaiting
    BY <1>1, <1>5 DEF PauseIsExact
  <2>3. CASE forgetting'
    BY <2>1, <2>2, <2>3 DEF PauseIsExact
  <2>4. CASE UNCHANGED <<forgetting, speakers, enrollment>>
    <3>1. active' # None /\ paused' = "" /\ ~forgetting' =>
             (blocked' <=> enrollment' = None /\ ~speakers')
      <4>1. PauseIsExact
            /\ UNCHANGED <<active, paused, blocked, forgetting, speakers, enrollment>>
        BY <1>1, <1>5, <2>4
      <4> QED
        BY ONLY <4>1 DEF PauseIsExact
    <3> QED
      BY <2>1, <2>2, <3>1 DEF PauseIsExact
  <2> QED
    BY <1>5, <2>3, <2>4
<1>6. ASSUME NEW m \in Microphones, Microphone(m)  PROVE PauseTypes' /\ PauseIsExact'
  <2>1. CASE RegisterConnection(m) \/ CloseTimedOut(m)
    BY <1>5, <2>1 DEF RegisterConnection, CloseTimedOut, modeVars, queueVars
  <2>2. ASSUME NEW c \in Clients, AudioStart(m, c)  PROVE PauseTypes' /\ PauseIsExact'
    <3>1. /\ paused' = PauseReason(enrollment, waiting')
          /\ blocked' = (paused' = "" /\ enrollment = None /\ ~speakers)
          /\ enrollment' = enrollment /\ speakers' = speakers
      BY <2>2 DEF AudioStart, modeVars
    <3>2. /\ paused' \in {"", "queue_full", "stt_disabled"}
          /\ paused' = "queue_full" => Len(waiting') >= MaxWaiting
      BY <1>2, <3>1 DEF PauseReason
    <3>3. paused' = "queue_full" => Len(waiting') = MaxWaiting
      BY <1>2, <3>2, Bounds
    <3>4. blocked' \in BOOLEAN /\ (paused' = "" => (blocked' <=> enrollment' = None /\ ~speakers'))
      BY <3>1
    <3> QED
      BY <3>2, <3>3, <3>4 DEF PauseTypes, PauseIsExact
  <2>3. CASE Utter(m)
    <3>1. /\ paused = "" /\ UNCHANGED <<active, blocked, enrollment, speakers, forgetting>>
          /\ paused' = IF Len(waiting') >= MaxWaiting THEN "queue_full" ELSE paused
      BY <2>3 DEF Utter, leaseVars, modeVars
    <3>2. paused' \in {"", "queue_full"} /\ (paused' = "queue_full" => Len(waiting') = MaxWaiting)
      <4>1. paused' = IF Len(waiting') >= MaxWaiting THEN "queue_full" ELSE ""
        BY <3>1
      <4>2. Len(waiting') >= MaxWaiting => Len(waiting') = MaxWaiting
        BY ONLY <1>2, Bounds
      <4> QED
        BY ONLY <4>1, <4>2
    <3> QED
      BY <1>1, <3>1, <3>2 DEF PauseTypes, PauseIsExact
  <2>4. CASE AudioStop(m)
    BY <1>3, <1>4, <2>4 DEF AudioStop
  <2>5. CASE UnregisterConnection(m)
    <3>1. CASE active = m
      BY <1>3, <1>4, <2>5, <3>1 DEF UnregisterConnection
    <3>2. CASE active # m /\ enrollment # None /\ IsWebOf(m, enrollment.owner)
      <4>1. /\ DiscardAudio /\ RefreshPause(None, <<>>, speakers)
            /\ enrollment' = None /\ UNCHANGED <<active, speakers>>
        BY <2>5, <3>2 DEF UnregisterConnection
      <4> QED
        BY <1>1, <4>1, PauseFollows DEF DiscardAudio
    <3>3. CASE active # m /\ ~(enrollment # None /\ IsWebOf(m, enrollment.owner))
      BY <1>5, <2>5, <3>3 DEF UnregisterConnection, queueVars
    <3> QED
      BY <3>1, <3>2, <3>3
  <2> QED
    BY <1>6, <2>1, <2>2, <2>3, <2>4, <2>5 DEF Microphone
<1>7. ASSUME NEW new \in Settings, ReloadSettings(new)  PROVE PauseTypes' /\ PauseIsExact'
  <2>1. active' = None /\ paused' = "" /\ blocked' = blocked
    BY <1>7 DEF ReloadSettings
  <2> QED
    BY <1>1, <2>1 DEF PauseTypes, PauseIsExact
<1>8. CASE LeaseTimeout \/ (\E c \in Clients : StartWebInput(c)) \/ StopWebInput
  BY <1>3, <1>4, <1>8 DEF LeaseTimeout, StartWebInput, StopWebInput
<1>9. ASSUME NEW c \in Clients, StartEnrollment(c)  PROVE PauseTypes' /\ PauseIsExact'
  <2>1. DiscardAudio /\ RefreshPause(enrollment', <<>>, speakers) /\ UNCHANGED <<active, speakers>>
    BY <1>9 DEF StartEnrollment, leaseVars
  <2> QED
    BY <1>1, <2>1, PauseFollows DEF DiscardAudio
<1>10. CASE EndEnrollment
  <2>1. /\ DiscardAudio /\ RefreshPause(None, <<>>, speakers)
        /\ enrollment' = None /\ UNCHANGED <<active, speakers>>
    BY <1>10 DEF EndEnrollment, CancelEnrollment, leaseVars
  <2> QED
    BY <1>1, <2>1, PauseFollows DEF DiscardAudio
<1>11. CASE ForgetSpeaker
  BY <1>5, <1>11 DEF ForgetSpeaker, leaseVars, queueVars
<1>12. CASE SpeakerForgotten
  <2>1. /\ DiscardAudio /\ RefreshPause(enrollment, <<>>, speakers)
        /\ UNCHANGED <<active, speakers, enrollment>>
    BY <1>12 DEF SpeakerForgotten, leaseVars
  <2> QED
    BY <1>1, <2>1, PauseFollows DEF DiscardAudio
<1>13. ASSUME NEW s \in Sessions, EventClientGone(s)  PROVE PauseTypes' /\ PauseIsExact'
  <2>1. UNCHANGED <<speakers, forgetting>>
    BY <1>13 DEF EventClientGone
  <2>2. \/ ReleaseActive
        \/ /\ DiscardAudio /\ RefreshPause(None, <<>>, speakers)
           /\ enrollment' = None /\ UNCHANGED active
        \/ UNCHANGED <<active, queueVars, enrollment>>
    BY <1>13 DEF EventClientGone
  <2>3. CASE DiscardAudio /\ RefreshPause(None, <<>>, speakers)
             /\ enrollment' = None /\ UNCHANGED active
    BY <1>1, <2>1, <2>3, PauseFollows DEF DiscardAudio
  <2>4. CASE UNCHANGED <<active, queueVars, enrollment>>
    BY <1>5, <2>1, <2>4 DEF queueVars
  <2> QED
    BY <1>3, <1>4, <2>2, <2>3, <2>4
<1>14. CASE WorkerTake
  <2>1. UNCHANGED <<active, enrollment, speakers, forgetting>>
    BY <1>14 DEF WorkerTake, leaseVars, modeVars
  <2>2. CASE paused = "queue_full"
    <3>1. RefreshPause(enrollment, waiting', speakers)
      BY <1>14, <2>2 DEF WorkerTake
    <3> QED
      BY <1>1, <2>1, <3>1, PauseFollows DEF DiscardAudio
  <2>3. CASE paused # "queue_full"
    <3>1. UNCHANGED <<paused, blocked>>
      BY <1>14, <2>3 DEF WorkerTake
    <3> QED
      BY <1>1, <2>1, <2>3, <3>1 DEF PauseTypes, PauseIsExact
  <2> QED
    BY <2>2, <2>3
<1>15. CASE WorkerChoose \/ WorkerDeliver
  BY <1>5, <1>15 DEF WorkerChoose, WorkerDeliver, leaseVars, modeVars, queueVars
<1>16. CASE WorkerEnroll
  <2>1. UNCHANGED <<active, forgetting>>
    BY <1>16 DEF WorkerEnroll, leaseVars
  <2>2. \/ UNCHANGED <<enrollment, speakers, queueVars>>
        \/ RefreshPause(enrollment', waiting, speakers) /\ UNCHANGED <<speakers, waiting>>
        \/ /\ enrollment' = None /\ speakers' = TRUE
           /\ DiscardAudio /\ RefreshPause(None, <<>>, TRUE)
    BY <1>16 DEF WorkerEnroll
  <2>3. CASE UNCHANGED <<enrollment, speakers, queueVars>>
    BY <1>5, <2>1, <2>3 DEF queueVars
  <2>4. CASE RefreshPause(enrollment', waiting, speakers) /\ UNCHANGED <<speakers, waiting>>
    BY <1>1, <2>1, <2>4, PauseFollows DEF DiscardAudio
  <2>5. CASE enrollment' = None /\ speakers' = TRUE /\ DiscardAudio
             /\ RefreshPause(None, <<>>, TRUE)
    BY <1>1, <2>1, <2>5, PauseFollows DEF DiscardAudio
  <2> QED
    BY <2>2, <2>3, <2>4, <2>5
<1>17. CASE WorkerRecognise
  <2>1. UNCHANGED <<active, enrollment, speakers, forgetting, blocked>>
        /\ (UNCHANGED <<paused, waiting>> \/ paused' = "stt_configuration_error")
    BY <1>17 DEF WorkerRecognise, leaseVars, modeVars, queueVars
  <2>2. CASE paused' = "stt_configuration_error"
    BY <1>1, <2>1, <2>2 DEF PauseTypes, PauseIsExact
  <2> QED
    BY <1>5, <2>1, <2>2
<1>18. CASE WorkerFinish
  <2>1. RefreshPause(enrollment, waiting, speakers)
        /\ UNCHANGED <<active, enrollment, speakers, waiting>>
    BY <1>18 DEF WorkerFinish, leaseVars, modeVars
  <2> QED
    BY <1>1, <2>1, PauseFollows DEF DiscardAudio
<1>19. CASE UNCHANGED audioVars
  BY <1>5, <1>19 DEF audioVars, leaseVars, modeVars, queueVars
<1> QED
  BY <1>6, <1>7, <1>8, <1>9, <1>10, <1>11, <1>12, <1>13, <1>14, <1>15, <1>16, <1>17, <1>18, <1>19
     DEF Next, Api, Worker, vars

-----------------------------------------------------------------------------
(* The theorems.                                                           *)

LEMMA InitIInv == Init => IInv
<1> SUFFICES ASSUME Init  PROVE IInv
  OBVIOUS
<1>1. StreamTypeOK
  BY DEF Init, StreamInit, StreamTypeOK
<1>2. LeaseTypes /\ LeaseIsActive
  <2>1. LeaseTypes
    <3>1. 0 \in 0..MaxLeases
      BY Bounds
    <3> QED
      BY <3>1 DEF Init, LeaseTypes
  <2>2. LeaseIsActive
    BY Bounds DEF Init, LeaseIsActive
  <2> QED
    BY <2>1, <2>2
<1>3. ModeTypes
  <2>1. 0 \in 0..MaxEnrollments
    BY Bounds
  <2>2. speakers \in BOOLEAN /\ forgetting \in BOOLEAN
    BY DEF Init
  <2>3. settings \in Settings /\ session = Nobody /\ enrollment = None /\ enrollments = 0
    BY AudioAssumption DEF Init
  <2> QED
    BY <2>1, <2>2, <2>3 DEF ModeTypes
<1>4. waiting = <<>>
  BY DEF Init
<1>5. waiting \in Seq(Utterances) /\ Len(waiting) = 0
  BY ONLY <1>4
<1>6. QueueTypes
  <2>1. paused = "" /\ blocked \in BOOLEAN
    BY DEF Init
  <2>2. Len(waiting) <= MaxWaiting
    BY <1>5, Bounds
  <2> QED
    BY <1>5, <2>1, <2>2 DEF QueueTypes
<1>7. WorkerTypes
  BY DEF Init, WorkerTypes
<1>8. Captured
  <2>1. \A i : i \notin 1..Len(waiting)
    BY <1>5
  <2>2. fresh = FALSE
    BY DEF Init
  <2> QED
    BY <2>1, <2>2 DEF Captured
<1>9. InHand /\ Conversational /\ SamplesAreOwn /\ EnrollmentIsPrivate
  BY DEF Init, InHand, Conversational, SamplesAreOwn, EnrollmentIsPrivate
<1>10. PauseIsExact
  BY DEF Init, PauseIsExact
<1> QED
  BY <1>1, <1>2, <1>3, <1>6, <1>7, <1>8, <1>9, <1>10
     DEF IInv, TypeOK, LeaseTypes, ModeTypes, QueueTypes, WorkerTypes

LEMMA Invariance == Spec => []IInv
<1>1. ASSUME IInv, [Next]_vars  PROVE IInv'
  <2>1. /\ StreamTypeOK' /\ ModeTypes' /\ LeaseTypes' /\ LeaseIsActive'
        /\ Capture' /\ PauseTypes' /\ PauseIsExact'
    BY <1>1, StreamKept, ModeStep, LeaseStep, CaptureStep, PauseStep
  <2>2. TypeOK'
    BY <2>1 DEF TypeOK, LeaseTypes, ModeTypes, Capture, WorkerTypes, PauseTypes
  <2> QED
    BY <2>1, <2>2 DEF IInv, Capture
<1> QED
  BY InitIInv, <1>1, PTL DEF Spec

\* Connections, leases, the queue, the enrollment and the worker keep their
\* types, and the queue stays within its limit.
THEOREM TypeCorrect == Spec => []TypeOK
<1>1. IInv => TypeOK
  BY DEF IInv
<1> QED
  BY <1>1, Invariance, PTL

\* Only the active connection holds a lease, and it is registered and of the
\* source that is set.
THEOREM OnlyTheActiveFeeds == Spec => []LeaseIsActive
<1>1. IInv => LeaseIsActive
  BY DEF IInv
<1> QED
  BY <1>1, Invariance, PTL

\* What becomes a sample was said during the enrollment it is a sample of.
THEOREM SamplesStayOwn == Spec => []SamplesAreOwn
<1>1. IInv => SamplesAreOwn
  BY DEF IInv
<1> QED
  BY <1>1, Invariance, PTL

\* What was said during an enrollment never becomes a conversation.
THEOREM EnrollmentStaysPrivate == Spec => []EnrollmentIsPrivate
<1>1. IInv => EnrollmentIsPrivate
  BY DEF IInv
<1> QED
  BY <1>1, Invariance, PTL

\* The source is paused for a full queue, or blocked for want of a speaker,
\* only while that is so.
THEOREM PauseStaysExact == Spec => []PauseIsExact
<1>1. IInv => PauseIsExact
  BY DEF IInv
<1> QED
  BY <1>1, Invariance, PTL

=============================================================================
