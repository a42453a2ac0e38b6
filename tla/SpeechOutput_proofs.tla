------------------------- MODULE SpeechOutput_proofs -------------------------
(***************************************************************************)
(* Proofs about SpeechOutput and the event streams below it, for any       *)
(* number of connections, clients and cycles, any hellos and any capacity  *)
(* of the queue: no client is registered twice, no source is claimed       *)
(* twice, speech is heard once and after its text, and the worker neither  *)
(* waits for ever for a delivery nor is left in the queue at the end.      *)
(***************************************************************************)
EXTENDS SpeechOutput, TLAPS

\* The worker has a delivery in hand from the wait until it is sent.
InHand == worker \in {"wait", "check", "synthesize", "sending"} => hand \in Cycles

\* An event is set by its cycle, when the text was sent, or by close.
Activated == \A c \in ready : speaking[c] = "spoken" \/ c \in cancelled

\* What the worker speaks has been shown.
Shown == worker \in {"check", "synthesize", "sending"} => speaking[hand] = "spoken"

\* A delivery that is in the queue, or waited for, is one its cycle knows of.
Expected ==
    /\ \A c \in Cycles : speaking[c] = "chosen" => target[c] # ""
    /\ \A c \in Cycles :
          Queued(c) \/ (hand = c /\ worker = "wait") =>
             c \in ready \/ (speaking[c] \in {"reserved", "sending"} /\ target[c] # "")

Heard(c) == \E x \in heard : x[1] = c

\* A delivery is reserved, queued, in hand and heard, in this order, each once.
Unreserved ==
    \A c \in Cycles : speaking[c] \in {"thinking", "chosen"} =>
        ~Queued(c) /\ hand # c /\ ~Heard(c)

QueuedOnce ==
    /\ \A i, k \in 1..Len(queue) : queue[i] = queue[k] /\ queue[i] \in Cycles => i = k
    /\ \A c \in Cycles : Queued(c) => hand # c /\ ~Heard(c)

Unheard ==
    worker \in {"wait", "check", "synthesize"} => ~Heard(hand)

\* The listeners that are still to hear the delivery in hand.
Audience ==
    worker = "sending" =>
        /\ \A l, m \in listeners : l[2] = m[2] => l = m
        /\ \A l \in listeners, x \in heard : x[1] = hand => x[3] # l[2]

Registry == StreamTypeOK /\ OneSessionPerClient /\ SourcesUnique

Deliveries == Activated /\ Expected

Once == Unreserved /\ QueuedOnce /\ Unheard /\ Audience /\ HeardOnce

IInv == /\ TypeOK /\ OneSessionPerClient /\ SourcesUnique
        /\ InHand /\ Deliveries /\ Shown /\ AudioFollowsMessage /\ Once /\ WorkerNotStranded

-----------------------------------------------------------------------------
(* The registry of sessions.                                               *)

LEMMA HelloFacts ==
    /\ \A h \in Hellos : h.client \in Clients
    /\ Unknown \notin Hellos /\ Absent \notin Hellos /\ Nobody \notin Clients
BY HellosAssumption

\* Sessions that leave the table, or have not said hello, do no harm.
LEMMA Removal ==
    ASSUME OneSessionPerClient, SourcesUnique,
           \A s \in Sessions : table'[s] = table[s] \/ table'[s] \notin Hellos
    PROVE  OneSessionPerClient' /\ SourcesUnique'
BY DEF OneSessionPerClient, SourcesUnique

\* A hello that is accepted takes the client's earlier session out, and its
\* sources are none of those that stay.
LEMMA Acceptance ==
    ASSUME StreamTypeOK, OneSessionPerClient, SourcesUnique,
           NEW s \in Sessions, NEW h \in Hellos, HelloAccepted(s, h)
    PROVE  OneSessionPerClient' /\ SourcesUnique'
<1>1. table' = [WithoutOthersOf(s, h.client) EXCEPT ![s] = h]
      /\ h.sources \cap ClaimedByOthers(s, h.client) = {}
  BY DEF HelloAccepted
<1>2. /\ table'[s] = h
      /\ \A t \in Sessions \ {s} : table'[t] \in Hellos =>
            table'[t] = table[t] /\ table[t].client # h.client
  BY <1>1, HelloFacts DEF WithoutOthersOf, SessionsOf
<1>3. ASSUME NEW t \in Sessions \ {s}, table'[t] \in Hellos
      PROVE  table[t].sources \cap h.sources = {}
  <2>1. t \in Sessions \ ({s} \cup SessionsOf(h.client)) /\ table[t] \in Hellos
    BY <1>2, <1>3 DEF SessionsOf
  <2>2. table[t].sources \subseteq ClaimedByOthers(s, h.client)
    BY <2>1 DEF ClaimedByOthers
  <2> QED
    BY <1>1, <2>2
<1>4. OneSessionPerClient'
  BY <1>2 DEF OneSessionPerClient
<1>5. SourcesUnique'
  BY <1>2, <1>3 DEF SourcesUnique
<1> QED
  BY <1>4, <1>5

LEMMA RegistryStep ==
    ASSUME Registry,
           \/ StreamNext
           \/ \E s \in Sessions : TellClientGone(s)
           \/ \E s \in Sessions : SendTo(s)
           \/ CloseAll
           \/ UNCHANGED streamVars
    PROVE  Registry'
<1> USE HelloFacts
<1> DEFINE Leaves == \A s \in Sessions : table'[s] = table[s] \/ table'[s] \notin Hellos
<1>1. ASSUME NEW s \in Sessions, AddConnection(s)  PROVE StreamTypeOK' /\ Leaves
  BY <1>1 DEF Registry, StreamTypeOK, AddConnection
<1>2. ASSUME NEW s \in Sessions, NEW h \in Hellos, HelloRefused(s, h)
      PROVE  StreamTypeOK' /\ Leaves
  BY <1>2 DEF Registry, StreamTypeOK, HelloRefused, WithoutOthersOf
<1>3. ASSUME NEW s \in Sessions, NEW h \in Hellos, HelloAccepted(s, h)
      PROVE  StreamTypeOK' /\ OneSessionPerClient' /\ SourcesUnique'
  <2>1. StreamTypeOK'
    BY <1>3 DEF Registry, StreamTypeOK, HelloAccepted, WithoutOthersOf, SessionsOf
  <2> QED
    BY <1>3, <2>1, Acceptance DEF Registry
<1>4. ASSUME NEW s \in Sessions, PeerBreaks(s)  PROVE StreamTypeOK' /\ Leaves
  BY <1>4 DEF Registry, StreamTypeOK, PeerBreaks
<1>5. ASSUME NEW s \in Sessions, SendTo(s)  PROVE StreamTypeOK' /\ Leaves
  BY <1>5 DEF Registry, StreamTypeOK, SendTo
<1>6. ASSUME NEW s \in Sessions, HelloOfRemovedSession(s) \/ CloseReplaced(s)
      PROVE  StreamTypeOK' /\ Leaves
  BY <1>6 DEF Registry, StreamTypeOK, HelloOfRemovedSession, CloseReplaced
<1>7. ASSUME NEW s \in Sessions, CloseRefused(s) \/ StopReading(s)
      PROVE  StreamTypeOK' /\ Leaves
  BY <1>7 DEF Registry, StreamTypeOK, CloseRefused, StopReading
<1>8. ASSUME NEW s \in Sessions, RemoveConnection(s)  PROVE StreamTypeOK' /\ Leaves
  BY <1>8 DEF Registry, StreamTypeOK, RemoveConnection
<1>9. ASSUME NEW s \in Sessions, CheckClientGone(s) \/ TellClientGone(s)
      PROVE  StreamTypeOK' /\ Leaves
  BY <1>9 DEF Registry, StreamTypeOK, CheckClientGone, TellClientGone
<1>10. ASSUME CloseAll  PROVE StreamTypeOK' /\ Leaves
  BY <1>10 DEF Registry, StreamTypeOK, CloseAll
<1>11. ASSUME UNCHANGED streamVars  PROVE StreamTypeOK' /\ Leaves
  BY <1>11 DEF Registry, StreamTypeOK, streamVars
<1>12. ASSUME StreamNext  PROVE (StreamTypeOK' /\ Leaves)
                                 \/ (StreamTypeOK' /\ OneSessionPerClient' /\ SourcesUnique')
  BY <1>1, <1>2, <1>3, <1>4, <1>5, <1>6, <1>7, <1>8, <1>9, <1>12
     DEF StreamNext, Peer, HandlerStep, SendFails
<1> HIDE DEF Leaves
<1>13. (StreamTypeOK' /\ Leaves) \/ (StreamTypeOK' /\ OneSessionPerClient' /\ SourcesUnique')
  BY <1>5, <1>9, <1>10, <1>11, <1>12
<1> QED
  BY <1>13, Removal DEF Registry, Leaves

-----------------------------------------------------------------------------
(* The queue.                                                              *)

Items == Cycles \cup {NoCycle}

LEMMA Appended ==
    ASSUME queue \in Seq(Items), NEW x \in Items, queue' = Append(queue, x)
    PROVE  /\ queue' \in Seq(Items) /\ Len(queue) \in Nat
           /\ Len(queue') = Len(queue) + 1
           /\ queue'[Len(queue) + 1] = x
           /\ \A i \in 1..Len(queue) : queue'[i] = queue[i]
           /\ \A c : Queued(c)' <=> Queued(c) \/ c = x
<1>1. /\ queue' \in Seq(Items) /\ Len(queue) \in Nat
      /\ Len(queue') = Len(queue) + 1
      /\ queue'[Len(queue) + 1] = x
      /\ \A i \in 1..Len(queue) : queue'[i] = queue[i]
  OBVIOUS
<1>2. ASSUME NEW c  PROVE Queued(c)' <=> Queued(c) \/ c = x
  BY <1>1 DEF Queued
<1> QED
  BY <1>1, <1>2

LEMMA Taken ==
    ASSUME queue \in Seq(Items), queue # <<>>, queue' = Tail(queue)
    PROVE  /\ queue' \in Seq(Items) /\ Len(queue') \in Nat /\ Len(queue) \in Nat
           /\ Len(queue) = Len(queue') + 1
           /\ Head(queue) = queue[1] /\ Head(queue) \in Items
           /\ \A i \in 1..Len(queue') : i + 1 \in 1..Len(queue) /\ queue'[i] = queue[i + 1]
           /\ \A c : Queued(c)' => Queued(c)
           /\ Queued(Head(queue))
<1>1. /\ queue' \in Seq(Items) /\ Len(queue') \in Nat /\ Len(queue) \in Nat
      /\ Len(queue) = Len(queue') + 1
      /\ Head(queue) = queue[1] /\ Head(queue) \in Items
      /\ \A i \in 1..Len(queue') : i + 1 \in 1..Len(queue) /\ queue'[i] = queue[i + 1]
  OBVIOUS
<1>2. ASSUME NEW c  PROVE Queued(c)' => Queued(c)
  BY <1>1 DEF Queued
<1>3. Queued(Head(queue))
  BY <1>1 DEF Queued
<1> QED
  BY <1>1, <1>2, <1>3

\* The head of a queue that holds each delivery once is not in its tail.
LEMMA TakenOnce ==
    ASSUME queue \in Seq(Items), queue # <<>>, queue' = Tail(queue), QueuedOnce
    PROVE  /\ \A c \in Cycles : c = Head(queue) => ~Queued(c)'
           /\ \A i, k \in 1..Len(queue') :
                 queue'[i] = queue'[k] /\ queue'[i] \in Cycles => i = k
<1>1. ASSUME NEW c \in Cycles, c = Head(queue), Queued(c)'  PROVE FALSE
  <2>1. PICK i \in 1..Len(queue') : queue'[i] = c
    BY <1>1 DEF Queued
  <2>2. i + 1 \in 1..Len(queue) /\ queue'[i] = queue[i + 1] /\ Head(queue) = queue[1]
    BY <2>1, Taken
  <2>3. 1 \in 1..Len(queue) /\ i + 1 # 1
    BY <2>1, <2>2, Taken
  <2> QED
    BY <1>1, <2>1, <2>2, <2>3 DEF QueuedOnce
<1>2. ASSUME NEW i \in 1..Len(queue'), NEW k \in 1..Len(queue'),
             queue'[i] = queue'[k], queue'[i] \in Cycles
      PROVE  i = k
  <2>1. i + 1 \in 1..Len(queue) /\ k + 1 \in 1..Len(queue)
        /\ queue[i + 1] = queue[k + 1] /\ queue[i + 1] \in Cycles
    BY <1>2, Taken
  <2>2. i + 1 = k + 1
    BY <2>1 DEF QueuedOnce
  <2> QED
    BY <2>2
<1> QED
  BY <1>1, <1>2

-----------------------------------------------------------------------------
(* Types.                                                                  *)

SpeechTypes ==
    /\ speaking \in [Cycles -> {"thinking", "chosen", "reserved", "sending", "spoken"}]
    /\ target \in [Cycles -> {"", "otomekairo_audio", "cocoro_console", "browser"}]
    /\ recipients \in [Cycles -> SUBSET Sessions]
    /\ queue \in Seq(Cycles \cup {NoCycle}) /\ Len(queue) <= Capacity
    /\ ready \subseteq Cycles /\ cancelled \subseteq Cycles
    /\ worker \in {"top", "get", "wait", "check", "synthesize", "sending", "ended"}
    /\ hand \in Cycles \cup {NoCycle}
    /\ listeners \subseteq Sessions \X Clients
    /\ shutdown \in {"no", "draining", "drained", "closed"}
    /\ heard \subseteq Cycles \X Sessions \X Clients

LEMMA RegistryKept == IInv /\ [Next]_vars => Registry'
<1> SUFFICES ASSUME IInv, [Next]_vars  PROVE Registry'
  OBVIOUS
<1>1. Registry /\ SpeechTypes
  BY DEF IInv, TypeOK, Registry, SpeechTypes
<1>2. ASSUME NEW c \in Cycles, Speaker(c)
      PROVE  UNCHANGED streamVars \/ \E s \in Sessions : SendTo(s)
  BY <1>1, <1>2 DEF Speaker, Choose, Reserve, Broadcast, SendMessage, Activate, SpeechTypes
<1>3. ASSUME Worker  PROVE UNCHANGED streamVars \/ \E s \in Sessions : SendTo(s)
  <2>1. CASE SendAudio
    BY <1>1, <2>1 DEF SendAudio, SpeechTypes
  <2>2. CASE ~SendAudio
    BY <1>3, <2>2 DEF Worker, WorkerTop, WorkerGet, WorkerWait, WorkerCheck, Synthesize, WorkerNext
  <2> QED
    BY <2>1, <2>2
<1>4. ASSUME Closer  PROVE UNCHANGED streamVars \/ CloseAll
  BY <1>4 DEF Closer, Close, Drain, EndWorker, CloseStreams
<1>5. \/ StreamNext
      \/ \E s \in Sessions : TellClientGone(s)
      \/ \E s \in Sessions : SendTo(s)
      \/ CloseAll
      \/ UNCHANGED streamVars
  BY <1>2, <1>3, <1>4 DEF Next, vars
<1> QED
  BY <1>1, <1>5, RegistryStep

LEMMA KindsOfClients ==
    /\ ClientKind["otomekairo"] = "otomekairo_audio"
    /\ ClientKind["cocoro_console"] = "cocoro_console"
    /\ ClientKind["browser"] = "browser"
BY DEF ClientKind

LEMMA Destinations ==
    ASSUME NEW setting \in Settings, setting # "disabled"
    PROVE  ClientKind[Destination(setting)]
             \in {"otomekairo_audio", "cocoro_console", "browser"}
<1>1. setting \in {"otomekairo", "cocoro_console", "browser"}
  BY SpeechAssumption
<1>2. Destination(setting) \in {"otomekairo", "cocoro_console", "browser"}
  BY <1>1 DEF Destination
<1> QED
  BY <1>2, KindsOfClients

LEMMA TypeStep == IInv /\ [Next]_vars => SpeechTypes'
<1> SUFFICES ASSUME IInv, [Next]_vars  PROVE SpeechTypes'
  OBVIOUS
<1>1. /\ SpeechTypes /\ Capacity \in Nat \ {0} /\ Len(queue) \in Nat
      /\ queue \in Seq(Items) /\ Len(queue) <= Capacity
  <2>1. SpeechTypes
    BY DEF IInv, TypeOK, SpeechTypes
  <2>2. queue \in Seq(Items) /\ Len(queue) <= Capacity
    BY <2>1 DEF SpeechTypes, Items
  <2>3. Len(queue) \in Nat
    BY <2>2
  <2> QED
    BY <2>1, <2>2, <2>3, SpeechAssumption
<1>2. ASSUME NEW c \in Cycles, Choose(c)  PROVE SpeechTypes'
  <2>1. target' \in [Cycles -> {"", "otomekairo_audio", "cocoro_console", "browser"}]
        /\ speaking' \in [Cycles -> {"thinking", "chosen", "reserved", "sending", "spoken"}]
    BY <1>1, <1>2, Destinations DEF Choose, SpeechTypes
  <2> QED
    BY <1>1, <1>2, <2>1 DEF Choose, SpeechTypes
<1>3. ASSUME NEW c \in Cycles, Reserve(c)  PROVE SpeechTypes'
  <2>1. queue' \in Seq(Cycles \cup {NoCycle}) /\ Len(queue') <= Capacity
    <3>1. CASE queue' = queue
      BY <1>1, <3>1 DEF SpeechTypes
    <3>2. CASE queue' = Append(queue, c) /\ Len(queue) < Capacity
      BY <1>1, <3>2, Appended DEF Items
    <3> QED
      BY <1>3, <3>1, <3>2 DEF Reserve
  <2>2. target' \in [Cycles -> {"", "otomekairo_audio", "cocoro_console", "browser"}]
        /\ speaking' \in [Cycles -> {"thinking", "chosen", "reserved", "sending", "spoken"}]
    BY <1>1, <1>3 DEF Reserve, SpeechTypes
  <2> QED
    BY <1>1, <1>3, <2>1, <2>2 DEF Reserve, SpeechTypes
<1>4. ASSUME NEW c \in Cycles, Broadcast(c) \/ SendMessage(c) \/ Activate(c)
      PROVE  SpeechTypes'
  <2>1. recipients' \in [Cycles -> SUBSET Sessions]
    <3>1. recipients \in [Cycles -> SUBSET Sessions]
      BY <1>1 DEF SpeechTypes
    <3>2. CASE Broadcast(c)
      <4>1. Subscribers("assistant_message") \subseteq Sessions
        BY DEF Subscribers
      <4> QED
        BY ONLY <3>1, <3>2, <4>1, c \in Cycles DEF Broadcast
    <3>3. CASE SendMessage(c)
      BY ONLY <3>1, <3>3, c \in Cycles DEF SendMessage
    <3>4. CASE Activate(c)
      BY ONLY <3>1, <3>4 DEF Activate
    <3> QED
      BY <1>4, <3>2, <3>3, <3>4
  <2> QED
    BY <1>1, <1>4, <2>1 DEF Broadcast, SendMessage, Activate, SpeechTypes
<1>5. CASE WorkerGet
  <2>1. queue # <<>> /\ queue' = Tail(queue) /\ hand' = Head(queue)
        /\ worker' \in {"ended", "wait"}
    BY <1>5 DEF WorkerGet
  <2>2. queue' \in Seq(Items) /\ Len(queue') <= Capacity /\ hand' \in Items
    <3>1. Len(queue') \in Nat /\ Len(queue) = Len(queue') + 1
      BY <1>1, <2>1, Taken
    <3> QED
      BY <1>1, <2>1, <3>1, Taken
  <2> QED
    BY <1>1, <1>5, <2>1, <2>2 DEF WorkerGet, SpeechTypes, Items
<1>6. CASE WorkerTop \/ WorkerWait \/ WorkerCheck \/ WorkerNext
  BY <1>1, <1>6 DEF WorkerTop, WorkerWait, WorkerCheck, WorkerNext, SpeechTypes
<1>7. CASE Synthesize
  <2>1. listeners' \subseteq Sessions \X Clients
    BY <1>7, HelloFacts DEF Synthesize, SubscribersOfKind, Subscribers
  <2> QED
    BY <1>1, <1>7, <2>1 DEF Synthesize, SpeechTypes
<1>8. CASE SendAudio
  <2>1. PICK l \in listeners :
          /\ listeners' = listeners \ {l}
          /\ heard' = IF Delivered(l[1]) THEN heard \cup {<<hand, l[1], l[2]>>} ELSE heard
    BY <1>8 DEF SendAudio
  <2>2. hand \in Cycles /\ l[1] \in Sessions /\ l[2] \in Clients
    <3>1. hand \in Cycles
      BY <1>8 DEF SendAudio, IInv, InHand
    <3> QED
      BY <1>1, <2>1, <3>1 DEF SpeechTypes
  <2>3. heard' \subseteq Cycles \X Sessions \X Clients /\ listeners' \subseteq Sessions \X Clients
    <3>1. <<hand, l[1], l[2]>> \in Cycles \X Sessions \X Clients
      BY <2>2
    <3>2. heard \subseteq Cycles \X Sessions \X Clients /\ listeners \subseteq Sessions \X Clients
      BY <1>1 DEF SpeechTypes
    <3> QED
      BY <2>1, <3>1, <3>2
  <2> QED
    BY <1>1, <1>8, <2>3 DEF SendAudio, SpeechTypes
<1>9. CASE Close \/ CloseStreams
  BY <1>1, <1>9 DEF Close, CloseStreams, speechVars, SpeechTypes
<1>10. CASE Drain
  <2>1. CASE queue = <<>>
    BY <1>1, <1>10, <2>1 DEF Drain, SpeechTypes
  <2>2. CASE queue # <<>>
    <3>1. queue' = Tail(queue)
      BY <1>10, <2>2 DEF Drain
    <3>2. queue' \in Seq(Items) /\ Len(queue') <= Capacity
      <4>1. Len(queue') \in Nat /\ Len(queue) = Len(queue') + 1
        BY <1>1, <2>2, <3>1, Taken
      <4> QED
        BY <1>1, <2>2, <3>1, <4>1, Taken
    <3>3. Head(queue) \in Items
      BY <1>1, <2>2, <3>1, Taken
    <3> QED
      BY <1>1, <1>10, <2>2, <3>2, <3>3 DEF Drain, SpeechTypes, Items
  <2> QED
    BY <2>1, <2>2
<1>11. CASE EndWorker
  <2>1. queue' \in Seq(Cycles \cup {NoCycle}) /\ Len(queue') <= Capacity
    <3>1. CASE queue' = queue
      BY <1>1, <3>1 DEF SpeechTypes
    <3>2. CASE queue' = Append(queue, NoCycle) /\ Len(queue) < Capacity
      BY <1>1, <3>2, Appended DEF Items
    <3> QED
      BY <1>11, <3>1, <3>2 DEF EndWorker
  <2> QED
    BY <1>1, <1>11, <2>1 DEF EndWorker, SpeechTypes
<1>12. CASE UNCHANGED speechVars
  BY <1>1, <1>12 DEF speechVars, SpeechTypes
<1> QED
  BY <1>2, <1>3, <1>4, <1>5, <1>6, <1>7, <1>8, <1>9, <1>10, <1>11, <1>12
     DEF Next, Speaker, Worker, Closer, vars

-----------------------------------------------------------------------------
(* The cycles.                                                             *)

Rest == /\ InHand /\ Activated /\ Expected /\ Shown /\ AudioFollowsMessage
        /\ Unreserved /\ QueuedOnce /\ Unheard /\ Audience /\ HeardOnce /\ WorkerNotStranded

LEMMA Typed ==
    ASSUME IInv
    PROVE  /\ Rest /\ queue \in Seq(Items) /\ Len(queue) \in Nat /\ Len(queue) <= Capacity
           /\ Capacity \in Nat \ {0} /\ NoCycle \notin Cycles
           /\ speaking \in [Cycles -> {"thinking", "chosen", "reserved", "sending", "spoken"}]
           /\ target \in [Cycles -> {"", "otomekairo_audio", "cocoro_console", "browser"}]
           /\ ready \subseteq Cycles /\ hand \in Cycles \cup {NoCycle}
           /\ heard \subseteq Cycles \X Sessions \X Clients
           /\ listeners \subseteq Sessions \X Clients
<1>1. queue \in Seq(Items)
  BY DEF IInv, TypeOK, Items
<1>2. Len(queue) \in Nat
  BY <1>1
<1>3. Rest
  BY DEF IInv, Deliveries, Once, Rest
<1> QED
  BY <1>1, <1>2, <1>3, SpeechAssumption DEF IInv, TypeOK

LEMMA NotEmpty ==
    ASSUME NEW s \in Seq(Items), Len(s) > 0
    PROVE  s # <<>>
OBVIOUS

LEMMA Unmoved ==
    /\ queue' = queue => \A c : Queued(c)' <=> Queued(c)
    /\ heard' = heard => \A c : Heard(c)' <=> Heard(c)
BY DEF Queued, Heard

\* A cycle is on its way from thinking to spoken; its delivery is nowhere
\* before it is reserved.
LEMMA SpeakerStep ==
    ASSUME IInv, NEW c \in Cycles, Speaker(c)
    PROVE  Rest'
<1> USE Typed
<1>1. UNCHANGED <<cancelled, worker, hand, listeners, shutdown, heard>>
  BY DEF Speaker, Choose, Reserve, Broadcast, SendMessage, Activate
<1>2. \A q : Heard(q)' <=> Heard(q)
  BY <1>1, Unmoved
<1>3. Unheard' /\ Audience' /\ HeardOnce' /\ InHand'
  BY <1>1, <1>2 DEF Rest, Unheard, Audience, HeardOnce, InHand
<1>4. CASE Reserve(c) /\ queue' # queue
  <2>1. /\ speaking[c] = "chosen" /\ speaking' = [speaking EXCEPT ![c] = "reserved"]
        /\ UNCHANGED <<target, ready>>
        /\ ~Queued(c) /\ hand # c /\ ~Heard(c) /\ target[c] # ""
    BY <1>4 DEF Reserve, Rest, Unreserved, Expected
  <2>2. /\ \A q : Queued(q)' <=> Queued(q) \/ q = c
        /\ Len(queue') = Len(queue) + 1 /\ queue'[Len(queue) + 1] = c
        /\ \A i \in 1..Len(queue) : queue'[i] = queue[i]
        /\ queue' \in Seq(Items) /\ Len(queue) \in Nat
    <3>1. queue' = Append(queue, c) /\ c \in Items
      BY <1>4 DEF Reserve, Items
    <3> QED
      BY <3>1, Appended
  <2>3. \A q \in Cycles : speaking'[q] = IF q = c THEN "reserved" ELSE speaking[q]
    BY <2>1
  <2>4. Activated' /\ Shown' /\ AudioFollowsMessage'
    BY <1>1, <2>1, <2>3 DEF Rest, InHand, Activated, Shown, AudioFollowsMessage
  <2>5. Expected'
    BY <1>1, <2>1, <2>2, <2>3 DEF Rest, Expected
  <2>6. Unreserved'
    BY <1>1, <1>2, <2>2, <2>3 DEF Rest, Unreserved
  <2>7. \A i \in 1..Len(queue) : queue[i] # c
    BY <2>1 DEF Queued
  <2>8. \A i, k \in 1..Len(queue') : queue'[i] = queue'[k] /\ queue'[i] \in Cycles => i = k
    <3> SUFFICES ASSUME NEW i \in 1..Len(queue'), NEW k \in 1..Len(queue'),
                        queue'[i] = queue'[k], queue'[i] \in Cycles, i # k
                 PROVE  FALSE
      OBVIOUS
    <3>1. (i \in 1..Len(queue) \/ i = Len(queue) + 1) /\ (k \in 1..Len(queue) \/ k = Len(queue) + 1)
      <4>1. Len(queue') = Len(queue) + 1 /\ Len(queue) \in Nat
        BY <2>2
      <4> QED
        BY ONLY <4>1, i \in 1..Len(queue'), k \in 1..Len(queue')
    <3>2. CASE i \in 1..Len(queue) /\ k \in 1..Len(queue)
      BY <2>2, <3>2 DEF Rest, QueuedOnce
    <3> QED
      BY <2>2, <2>7, <3>1, <3>2
  <2>9. QueuedOnce'
    BY <1>1, <1>2, <2>1, <2>2, <2>8 DEF Rest, QueuedOnce
  <2>10. WorkerNotStranded'
    <3>1. queue' \in Seq(Items) /\ Len(queue') = Len(queue) + 1 /\ Len(queue) \in Nat
      BY <2>2
    <3>2. Len(queue') > 0
      BY ONLY <3>1
    <3> QED
      BY ONLY <3>1, <3>2, NotEmpty DEF WorkerNotStranded
  <2> QED
    BY <1>3, <2>4, <2>5, <2>6, <2>9, <2>10 DEF Rest
<1>5. CASE ~(Reserve(c) /\ queue' # queue)
  <2>1. queue' = queue /\ \A q : Queued(q)' <=> Queued(q)
    BY <1>5, Unmoved DEF Speaker, Choose, Reserve, Broadcast, SendMessage, Activate
  <2>2. QueuedOnce' /\ WorkerNotStranded'
    BY <1>1, <1>2, <2>1 DEF Rest, QueuedOnce, WorkerNotStranded
  <2>3. CASE Choose(c)
    <3>1. /\ speaking[c] = "thinking" /\ ready' = ready
          /\ ~Queued(c) /\ hand # c /\ ~Heard(c)
      BY <2>3 DEF Choose, Rest, Unreserved
    <3>2. /\ \A q \in Cycles \ {c} : speaking'[q] = speaking[q] /\ target'[q] = target[q]
          /\ speaking'[c] = "chosen" => target'[c] # ""
      BY <2>3, Destinations DEF Choose
    <3>3. Activated' /\ Shown'
      BY <1>1, <3>1, <3>2 DEF Rest, InHand, Activated, Shown
    <3>5. AudioFollowsMessage'
      BY <1>1, <3>1, <3>2 DEF Rest, InHand, AudioFollowsMessage, Heard
    <3>4. Expected' /\ Unreserved'
      BY <1>1, <1>2, <2>1, <3>1, <3>2 DEF Rest, Expected, Unreserved
    <3> QED
      BY <1>3, <2>2, <3>3, <3>4, <3>5 DEF Rest
  <2>4. CASE Reserve(c)
    <3>1. /\ speaking[c] = "chosen" /\ ready' = ready
          /\ ~Queued(c) /\ hand # c /\ ~Heard(c)
      BY <2>4 DEF Reserve, Rest, Unreserved
    <3>2. /\ \A q \in Cycles \ {c} : speaking'[q] = speaking[q] /\ target'[q] = target[q]
          /\ speaking'[c] = "reserved"
      BY <2>4 DEF Reserve
    <3>3. Activated' /\ Shown'
      BY <1>1, <3>1, <3>2 DEF Rest, InHand, Activated, Shown
    <3>5. AudioFollowsMessage'
      BY <1>1, <3>1, <3>2 DEF Rest, InHand, AudioFollowsMessage, Heard
    <3>4. Expected' /\ Unreserved'
      BY <1>1, <1>2, <2>1, <3>1, <3>2 DEF Rest, Expected, Unreserved
    <3> QED
      BY <1>3, <2>2, <3>3, <3>4, <3>5 DEF Rest
  <2>5. CASE Broadcast(c) \/ SendMessage(c)
    <3>1. /\ ready' = ready /\ target' = target
          /\ \A q \in Cycles : \/ speaking'[q] = speaking[q]
                               \/ speaking[q] = "reserved" /\ speaking'[q] = "sending"
      BY <2>5 DEF Broadcast, SendMessage
    <3>2. \A q \in Cycles : speaking[q] = "spoken" => speaking'[q] = "spoken"
      BY <3>1
    <3>3. Activated' /\ Shown'
      BY <1>1, <3>1, <3>2 DEF Rest, InHand, Activated, Shown
    <3>4. AudioFollowsMessage'
      <4>1. \A x \in heard : x[1] \in Cycles
        OBVIOUS
      <4> QED
        BY <1>1, <3>2, <4>1 DEF Rest, AudioFollowsMessage
    <3>5. Expected' /\ Unreserved'
      BY <1>1, <1>2, <2>1, <3>1 DEF Rest, Expected, Unreserved
    <3> QED
      BY <1>3, <2>2, <3>3, <3>4, <3>5 DEF Rest
  <2>6. CASE Activate(c)
    <3>1. /\ speaking[c] = "sending" /\ target' = target
          /\ ready' = IF target[c] = "" THEN ready ELSE ready \cup {c}
          /\ \A q \in Cycles : speaking'[q] = IF q = c THEN "spoken" ELSE speaking[q]
      BY <2>6 DEF Activate
    <3>2. Activated' /\ Shown' /\ AudioFollowsMessage'
      BY <1>1, <3>1 DEF Rest, InHand, Activated, Shown, AudioFollowsMessage
    <3>3. Expected' /\ Unreserved'
      BY <1>1, <1>2, <2>1, <3>1 DEF Rest, Expected, Unreserved
    <3> QED
      BY <1>3, <2>2, <3>2, <3>3 DEF Rest
  <2> QED
    BY <2>3, <2>4, <2>5, <2>6 DEF Speaker
<1> QED
  BY <1>4, <1>5

-----------------------------------------------------------------------------
(* The worker.                                                             *)

LEMMA WorkerStep ==
    ASSUME IInv, Worker
    PROVE  Rest'
<1> USE Typed
<1>1. UNCHANGED <<speaking, target, ready, cancelled, shutdown>>
  BY DEF Worker, WorkerTop, WorkerGet, WorkerWait, WorkerCheck, Synthesize, SendAudio, WorkerNext
<1>2. Activated'
  BY <1>1 DEF Rest, Activated
<1>3. CASE WorkerGet
  <2> DEFINE d == Head(queue)
  <2>1. /\ worker = "get" /\ queue # <<>> /\ queue' = Tail(queue) /\ hand' = d
        /\ worker' = IF d = NoCycle THEN "ended" ELSE "wait"
        /\ UNCHANGED <<heard, listeners>>
    BY <1>3 DEF WorkerGet
  <2>2. /\ \A q : Queued(q)' => Queued(q)
        /\ Queued(d) /\ d \in Items
        /\ \A q \in Cycles : q = d => ~Queued(q)'
        /\ \A i, k \in 1..Len(queue') : queue'[i] = queue'[k] /\ queue'[i] \in Cycles => i = k
    BY <2>1, Taken, TakenOnce DEF Rest
  <2>3. \A q : Heard(q)' <=> Heard(q)
    BY <2>1, Unmoved
  <2> HIDE DEF d
  <2>4. InHand' /\ Shown' /\ Audience' /\ HeardOnce' /\ AudioFollowsMessage' /\ WorkerNotStranded'
    BY <1>1, <2>1, <2>2 DEF Rest, InHand, Shown, Audience, HeardOnce, AudioFollowsMessage,
                            WorkerNotStranded, Items
  <2>5. \A q : Queued(q)' \/ hand' = q => Queued(q)
    BY <2>1, <2>2
  <2>6. Expected'
    BY <1>1, <2>5 DEF Rest, Expected
  <2>7. Unreserved'
    BY <1>1, <2>3, <2>5 DEF Rest, Unreserved
  <2>8. QueuedOnce' /\ Unheard'
    BY <2>1, <2>2, <2>3 DEF Rest, QueuedOnce, Unheard, Items
  <2> QED
    BY <1>2, <2>4, <2>8, <2>6, <2>7 DEF Rest
<1>4. ASSUME queue' = queue, heard' = heard, hand' \in {hand, NoCycle}
      PROVE  QueuedOnce' /\ Unreserved' /\ AudioFollowsMessage' /\ HeardOnce'
             /\ \A q : (Queued(q)' <=> Queued(q)) /\ (Heard(q)' <=> Heard(q))
  <2>1. \A q : (Queued(q)' <=> Queued(q)) /\ (Heard(q)' <=> Heard(q))
    BY <1>4, Unmoved
  <2>2. QueuedOnce' /\ Unreserved'
    BY <1>1, <1>4, <2>1 DEF Rest, QueuedOnce, Unreserved
  <2>3. AudioFollowsMessage' /\ HeardOnce'
    BY <1>1, <1>4 DEF Rest, AudioFollowsMessage, HeardOnce
  <2> QED
    BY <2>1, <2>2, <2>3
<1>5. CASE WorkerTop
  <2>1. /\ worker = "top" /\ hand' = NoCycle /\ queue' = queue /\ heard' = heard
        /\ worker' = IF Stopping THEN "ended" ELSE "get"
    BY <1>5 DEF WorkerTop
  <2>2. InHand' /\ Shown' /\ Audience' /\ Unheard' /\ WorkerNotStranded'
    BY <1>1, <2>1 DEF InHand, Shown, Audience, Unheard, WorkerNotStranded, Stopping
  <2>3. Expected'
    BY <1>1, <1>4, <2>1 DEF Rest, Expected
  <2> QED
    BY <1>2, <1>4, <2>1, <2>2, <2>3 DEF Rest
<1>6. CASE WorkerWait
  <2>1. /\ worker = "wait" /\ UNCHANGED <<hand, queue, heard>>
        /\ worker' \in {"top", "ended", "check"}
        /\ worker' = "check" => hand \in ready /\ hand \notin cancelled
    BY <1>6 DEF WorkerWait
  <2>2. InHand' /\ Shown' /\ Audience' /\ Unheard' /\ WorkerNotStranded' /\ Expected'
    BY <1>1, <1>4, <2>1 DEF Rest, InHand, Activated, Shown, Audience, Unheard, WorkerNotStranded,
                            Expected
  <2> QED
    BY <1>2, <1>4, <2>1, <2>2 DEF Rest
<1>7. CASE WorkerCheck
  <2>1. /\ worker = "check" /\ UNCHANGED <<hand, queue, heard>>
        /\ worker' \in {"top", "synthesize"}
    BY <1>7 DEF WorkerCheck
  <2>2. InHand' /\ Shown' /\ Audience' /\ Unheard' /\ WorkerNotStranded' /\ Expected'
    BY <1>1, <1>4, <2>1 DEF Rest, InHand, Shown, Audience, Unheard, WorkerNotStranded, Expected
  <2> QED
    BY <1>2, <1>4, <2>1, <2>2 DEF Rest
<1>8. CASE Synthesize
  <2>1. /\ worker = "synthesize" /\ UNCHANGED <<hand, queue, heard>>
        /\ worker' = "sending"
        /\ listeners' = {<<s, table[s].client>> :
                            s \in SubscribersOfKind("assistant_audio", target[hand])}
    BY <1>8 DEF Synthesize
  <2>2. InHand' /\ Shown' /\ Unheard' /\ WorkerNotStranded' /\ Expected'
    BY <1>1, <1>4, <2>1 DEF Rest, InHand, Shown, Unheard, WorkerNotStranded, Expected
  <2>3. \A l, m \in listeners' : l[2] = m[2] => l = m
    <3> SUFFICES ASSUME NEW l \in listeners', NEW m \in listeners', l[2] = m[2]
                 PROVE  l = m
      OBVIOUS
    <3>1. PICK s \in Sessions, t \in Sessions :
            /\ l = <<s, table[s].client>> /\ m = <<t, table[t].client>>
            /\ table[s] \in Hellos /\ table[t] \in Hellos
      BY <2>1 DEF SubscribersOfKind, Subscribers
    <3>2. s = t
      BY <3>1 DEF IInv, OneSessionPerClient
    <3> QED
      BY <3>1, <3>2
  <2>4. \A x \in heard : x[1] # hand
    BY <2>1 DEF Rest, Unheard, Heard
  <2>5. Audience'
    BY <2>1, <2>3, <2>4 DEF Audience
  <2> QED
    BY <1>2, <1>4, <2>1, <2>2, <2>5 DEF Rest
<1>9. CASE WorkerNext
  <2>1. worker = "sending" /\ UNCHANGED <<hand, queue, heard>> /\ worker' = "top"
    BY <1>9 DEF WorkerNext
  <2>2. InHand' /\ Shown' /\ Audience' /\ Unheard' /\ WorkerNotStranded' /\ Expected'
    BY <1>1, <1>4, <2>1 DEF Rest, InHand, Shown, Audience, Unheard, WorkerNotStranded, Expected
  <2> QED
    BY <1>2, <1>4, <2>1, <2>2 DEF Rest
<1>10. CASE SendAudio
  <2>1. PICK l \in listeners :
          /\ listeners' = listeners \ {l}
          /\ heard' = heard \/ heard' = heard \cup {<<hand, l[1], l[2]>>}
    BY <1>10 DEF SendAudio
  <2>2. /\ worker = "sending" /\ worker' = worker /\ UNCHANGED <<hand, queue>>
        /\ hand \in Cycles /\ speaking[hand] = "spoken"
        /\ \A m, n \in listeners : m[2] = n[2] => m = n
        /\ \A m \in listeners, x \in heard : x[1] = hand => x[3] # m[2]
    BY <1>10 DEF SendAudio, Rest, InHand, Shown, Audience
  <2> DEFINE y == <<hand, l[1], l[2]>>
  <2>3. y[1] = hand /\ y[3] = l[2] /\ \A x \in heard' : x \in heard \/ x = y
    BY <2>1
  <2> HIDE DEF y
  <2>4. \A q : Heard(q)' => Heard(q) \/ q = hand
    BY <2>3 DEF Heard
  <2>5. \A q : Queued(q)' <=> Queued(q)
    BY <2>2, Unmoved
  <2>6. InHand' /\ Shown' /\ Unheard' /\ WorkerNotStranded' /\ Expected'
    BY <1>1, <2>2, <2>5 DEF Rest, InHand, Shown, Unheard, WorkerNotStranded, Expected
  <2>7. AudioFollowsMessage' /\ HeardOnce'
    <3>1. speaking' = speaking
      BY <1>1
    <3>2. AudioFollowsMessage'
      BY ONLY <2>2, <2>3, <3>1, Rest DEF Rest, AudioFollowsMessage
    <3>3. \A x \in heard : x[1] = y[1] => x[3] # y[3]
      BY ONLY <2>1, <2>2, <2>3
    <3>4. HeardOnce'
      BY ONLY <2>3, <3>3, Rest DEF Rest, HeardOnce
    <3> QED
      BY <3>2, <3>4
  <2>8. Unreserved' /\ QueuedOnce'
    BY <1>1, <2>2, <2>4, <2>5 DEF Rest, Unreserved, QueuedOnce
  <2>9. Audience'
    BY <2>1, <2>2, <2>3 DEF Audience
  <2> QED
    BY <1>2, <2>6, <2>7, <2>8, <2>9 DEF Rest
<1> QED
  BY <1>3, <1>5, <1>6, <1>7, <1>8, <1>9, <1>10 DEF Worker

-----------------------------------------------------------------------------
(* The end of the service.                                                 *)

LEMMA CloserStep ==
    ASSUME IInv, Closer
    PROVE  Rest'
<1> USE Typed
<1>1. UNCHANGED <<speaking, target, worker, hand, listeners, heard>>
  BY DEF Closer, Close, Drain, EndWorker, CloseStreams, speechVars
<1>2. \A q : Heard(q)' <=> Heard(q)
  BY <1>1, Unmoved
<1>3. InHand' /\ Shown' /\ AudioFollowsMessage' /\ Unheard' /\ Audience' /\ HeardOnce'
  BY <1>1, <1>2 DEF Rest, InHand, Shown, AudioFollowsMessage, Unheard, Audience, HeardOnce
<1>4. CASE UNCHANGED <<queue, ready, cancelled>> /\ (shutdown' = "closed" => shutdown = "closed")
  <2>1. \A q : Queued(q)' <=> Queued(q)
    BY <1>4, Unmoved
  <2>2. Activated' /\ Expected' /\ Unreserved' /\ QueuedOnce' /\ WorkerNotStranded'
    BY <1>1, <1>2, <1>4, <2>1
       DEF Rest, Activated, Expected, Unreserved, QueuedOnce, WorkerNotStranded
  <2> QED
    BY <1>3, <2>2 DEF Rest
<1>5. CASE Close \/ CloseStreams
  BY <1>4, <1>5 DEF Close, CloseStreams, speechVars
<1>6. CASE Drain
  <2>1. CASE queue = <<>>
    BY <1>4, <1>6, <2>1 DEF Drain
  <2>2. CASE queue # <<>>
    <3> DEFINE d == Head(queue)
    <3>1. /\ queue' = Tail(queue) /\ shutdown' = shutdown /\ shutdown # "closed"
          /\ ready' = ready \cup ({d} \cap Cycles)
          /\ cancelled' = cancelled \cup ({d} \cap Cycles)
      BY <1>6, <2>2 DEF Drain
    <3>2. /\ \A q : Queued(q)' => Queued(q)
          /\ \A i, k \in 1..Len(queue') : queue'[i] = queue'[k] /\ queue'[i] \in Cycles => i = k
      BY <2>2, <3>1, Taken, TakenOnce DEF Rest
    <3> HIDE DEF d
    <3>3. Activated' /\ WorkerNotStranded'
      BY <1>1, <3>1 DEF Rest, Activated, WorkerNotStranded
    <3>4. Expected' /\ Unreserved'
      BY <1>1, <1>2, <3>1, <3>2 DEF Rest, Expected, Unreserved
    <3>5. QueuedOnce'
      BY <1>1, <1>2, <3>2 DEF Rest, QueuedOnce
    <3> QED
      BY <1>3, <3>3, <3>4, <3>5 DEF Rest
  <2> QED
    BY <2>1, <2>2
<1>7. CASE EndWorker
  <2>1. UNCHANGED <<ready, cancelled>>
    BY <1>7 DEF EndWorker
  <2>2. CASE queue' = Append(queue, NoCycle)
    <3>1. /\ \A q : Queued(q)' <=> Queued(q) \/ q = NoCycle
          /\ Len(queue') = Len(queue) + 1 /\ queue'[Len(queue) + 1] = NoCycle
          /\ \A i \in 1..Len(queue) : queue'[i] = queue[i]
          /\ queue' \in Seq(Items)
      BY <2>2, Appended DEF Items
    <3>2. Activated' /\ Expected' /\ Unreserved'
      BY <1>1, <1>2, <2>1, <3>1 DEF Rest, Activated, Expected, Unreserved
    <3>3. ASSUME NEW i \in 1..Len(queue'), queue'[i] \in Cycles  PROVE i \in 1..Len(queue)
      <4>1. i # Len(queue) + 1
        BY <3>1, <3>3
      <4>2. Len(queue') = Len(queue) + 1 /\ Len(queue) \in Nat
        BY <3>1
      <4> QED
        BY ONLY <4>1, <4>2, i \in 1..Len(queue')
    <3>4. \A i, k \in 1..Len(queue') : queue'[i] = queue'[k] /\ queue'[i] \in Cycles => i = k
      BY <3>1, <3>3 DEF Rest, QueuedOnce
    <3>5. QueuedOnce'
      BY <1>1, <1>2, <3>1, <3>4 DEF Rest, QueuedOnce
    <3>6. WorkerNotStranded'
      <4>1. queue' \in Seq(Items) /\ Len(queue') = Len(queue) + 1 /\ Len(queue) \in Nat
        BY <3>1
      <4>2. Len(queue') > 0
        BY ONLY <4>1
      <4> QED
        BY ONLY <4>1, <4>2, NotEmpty DEF WorkerNotStranded
    <3> QED
      BY <1>3, <3>2, <3>5, <3>6 DEF Rest
  <2>3. CASE queue' = queue /\ ~(Len(queue) < Capacity)
    <3>1. \A q : Queued(q)' <=> Queued(q)
      BY <2>3, Unmoved
    <3>2. Activated' /\ Expected' /\ Unreserved' /\ QueuedOnce'
      BY <1>1, <1>2, <2>1, <2>3, <3>1 DEF Rest, Activated, Expected, Unreserved, QueuedOnce
    <3>3. WorkerNotStranded'
      <4>1. /\ queue' = queue /\ ~(Len(queue) < Capacity) /\ Capacity \in Nat \ {0}
            /\ queue \in Seq(Items) /\ Len(queue) \in Nat
        BY <2>3
      <4>2. queue' \in Seq(Items) /\ Len(queue') > 0
        BY ONLY <4>1
      <4> QED
        BY ONLY <4>2, NotEmpty DEF WorkerNotStranded
    <3> QED
      BY <1>3, <3>2, <3>3 DEF Rest
  <2> QED
    BY <1>7, <2>2, <2>3 DEF EndWorker
<1> QED
  BY <1>5, <1>6, <1>7 DEF Closer

-----------------------------------------------------------------------------
(* The theorems.                                                           *)

LEMMA InitIInv == Init => IInv
<1> SUFFICES ASSUME Init  PROVE IInv
  OBVIOUS
<1>1. StreamTypeOK /\ OneSessionPerClient /\ SourcesUnique
  BY HelloFacts DEF Init, StreamInit, StreamTypeOK, OneSessionPerClient, SourcesUnique
<1>2. /\ queue = <<>> /\ speaking = [c \in Cycles |-> "thinking"]
      /\ target = [c \in Cycles |-> ""] /\ recipients = [c \in Cycles |-> {}]
      /\ ready = {} /\ cancelled = {} /\ heard = {} /\ listeners = {}
      /\ worker = "top" /\ hand = NoCycle /\ shutdown = "no"
  BY DEF Init
<1>3. queue \in Seq(Cycles \cup {NoCycle}) /\ Len(queue) = 0
  <2>1. queue = <<>>
    BY <1>2
  <2> QED
    BY ONLY <2>1
<1>4. \A c : ~Queued(c)
  BY <1>3 DEF Queued
<1>5. SpeechTypes
  <2>1. Len(queue) <= Capacity
    BY <1>3, SpeechAssumption
  <2> QED
    BY <1>2, <1>3, <2>1 DEF SpeechTypes
<1>6. InHand /\ Deliveries /\ Shown /\ AudioFollowsMessage /\ WorkerNotStranded
  BY <1>2, <1>4 DEF InHand, Deliveries, Activated, Expected, Shown, AudioFollowsMessage,
                    WorkerNotStranded
<1>7. Once
  <2>1. Unreserved /\ QueuedOnce
    <3>1. Unreserved
      BY <1>2, <1>4, SpeechAssumption DEF Unreserved, Heard
    <3>2. \A i : i \notin 1..Len(queue)
      BY <1>3
    <3>3. QueuedOnce
      BY <1>4, <3>2 DEF QueuedOnce
    <3> QED
      BY <3>1, <3>3
  <2>2. Unheard /\ Audience /\ HeardOnce
    BY <1>2 DEF Unheard, Audience, HeardOnce
  <2> QED
    BY <2>1, <2>2 DEF Once
<1> QED
  BY <1>1, <1>5, <1>6, <1>7 DEF IInv, TypeOK, SpeechTypes

LEMMA Invariance == Spec => []IInv
<1>1. ASSUME IInv, [Next]_vars  PROVE IInv'
  <2>1. Registry' /\ SpeechTypes'
    BY <1>1, RegistryKept, TypeStep
  <2>2. ASSUME UNCHANGED speechVars  PROVE Rest'
    <3>1. \A q : (Queued(q)' <=> Queued(q)) /\ (Heard(q)' <=> Heard(q))
      BY <2>2, Unmoved DEF speechVars
    <3> QED
      BY <1>1, <2>2, <3>1, Typed
         DEF Rest, speechVars, InHand, Activated, Expected, Shown, AudioFollowsMessage,
             Unreserved, QueuedOnce, Unheard, Audience, HeardOnce, WorkerNotStranded
  <2>3. Rest'
    BY <1>1, <2>2, SpeakerStep, WorkerStep, CloserStep DEF Next, vars
  <2> QED
    BY <2>1, <2>3 DEF IInv, TypeOK, Registry, SpeechTypes, Rest, Deliveries, Once
<1> QED
  BY InitIInv, <1>1, PTL DEF Spec

\* The registry, the queue, the worker and what was heard keep their types; the
\* queue stays within its capacity.
THEOREM TypeCorrect == Spec => []TypeOK
<1>1. IInv => TypeOK
  BY DEF IInv
<1> QED
  BY <1>1, Invariance, PTL

\* A client is registered by one session at most, whatever hellos arrive.
THEOREM OneSession == Spec => []OneSessionPerClient
<1>1. IInv => OneSessionPerClient
  BY DEF IInv
<1> QED
  BY <1>1, Invariance, PTL

\* No source id is claimed by two sessions at a time.
THEOREM SourcesAreUnique == Spec => []SourcesUnique
<1>1. IInv => SourcesUnique
  BY DEF IInv
<1> QED
  BY <1>1, Invariance, PTL

\* The worker plays nothing before its text has been broadcast.
THEOREM AudioIsSecond == Spec => []AudioFollowsMessage
<1>1. IInv => AudioFollowsMessage
  BY DEF IInv
<1> QED
  BY <1>1, Invariance, PTL

\* No client hears a speech twice, though it reconnects while it is sent.
THEOREM SpeechIsHeardOnce == Spec => []HeardOnce
<1>1. IInv => HeardOnce
  BY DEF IInv, Once
<1> QED
  BY <1>1, Invariance, PTL

\* The delivery that the worker waits for is activated, or its cycle will do so.
THEOREM DeliveriesAreActivated == Spec => []WillBeActivated
<1>1. IInv => WillBeActivated
  BY DEF IInv, Deliveries, Expected, WillBeActivated
<1> QED
  BY <1>1, Invariance, PTL

\* When close has returned the worker is not left waiting at an empty queue.
THEOREM WorkerIsNotStranded == Spec => []WorkerNotStranded
<1>1. IInv => WorkerNotStranded
  BY DEF IInv
<1> QED
  BY <1>1, Invariance, PTL

=============================================================================
