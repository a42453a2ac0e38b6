---------------------------- MODULE EventStream ----------------------------
(***************************************************************************)
(* The registry of event stream sessions (event_stream.py), with the       *)
(* threads of http_server.py that read one WebSocket each and the parts of *)
(* service/config/stream.py they call.                                     *)
(*                                                                         *)
(* Every critical section of EventStreamRegistry is one step.  What the    *)
(* code does outside its lock - closing the sockets of replaced sessions,  *)
(* sending, the second look-up of a client that has gone - is a step of    *)
(* its own.  A hello is abstracted to its client, the client's kind, the     *)
(* events it subscribes to and the source ids (vision sources, MCP         *)
(* servers) it claims.                                                     *)
(***************************************************************************)
EXTENDS Naturals, FiniteSets

CONSTANTS
    Sessions,   \* the WebSocket connections, each with its thread
    Clients,    \* values of hello.client_id
    Hellos,     \* the hello messages: [client, kind, events, sources]
    Unknown,    \* table entry of a session that has not said hello
    Absent,     \* no table entry
    Nobody      \* no client

ASSUME HellosAssumption ==
    /\ \A h \in Hellos : h.client \in Clients
    /\ Unknown \notin Hellos /\ Absent \notin Hellos /\ Unknown # Absent
    /\ Nobody \notin Clients

VARIABLES
    table,      \* session -> its entry in EventStreamRegistry._sessions
    socket,     \* session -> what a send on its WebSocket does: it succeeds,
                \*   raises OSError ("broken") or is dropped ("closed")
    thread,     \* session -> where its handler thread is
    closing,    \* session -> replaced sessions its hello has still to close
    gone        \* session -> the client whose entry its end has taken out

streamVars == <<table, socket, thread, closing, gone>>

StreamTypeOK ==
    /\ table \in [Sessions -> Hellos \cup {Unknown, Absent}]
    /\ socket \in [Sessions -> {"unborn", "open", "broken", "closed"}]
    /\ thread \in [Sessions -> {"unborn", "serving", "replacing", "refused",
                                "leaving", "checking", "telling", "done"}]
    /\ closing \in [Sessions -> SUBSET Sessions]
    /\ gone \in [Sessions -> Clients \cup {Nobody}]

StreamInit ==
    /\ table = [s \in Sessions |-> Absent]
    /\ socket = [s \in Sessions |-> "unborn"]
    /\ thread = [s \in Sessions |-> "unborn"]
    /\ closing = [s \in Sessions |-> {}]
    /\ gone = [s \in Sessions |-> Nobody]

-----------------------------------------------------------------------------
(* What the registry answers. *)

SessionsOf(c) == {s \in Sessions : table[s] \in Hellos /\ table[s].client = c}

IsClientConnected(c) == SessionsOf(c) # {}

Subscribers(event) == {s \in Sessions : table[s] \in Hellos /\ event \in table[s].events}

SubscribersOfKind(event, kind) == {s \in Subscribers(event) : table[s].kind = kind}

\* A faulty ClaimedByOthers: the sessions to leave out are the ones compared.
ClaimedByItself(s, c) == UNION {table[t].sources : t \in SessionsOf(c) \ {s}}

\* Source ids that sessions other than those of c have claimed.
ClaimedByOthers(s, c) ==
    UNION {table[t].sources :
              t \in {u \in Sessions \ ({s} \cup SessionsOf(c)) : table[u] \in Hellos}}

-----------------------------------------------------------------------------
(* The life of a session. *)

AddConnection(s) ==
    /\ thread[s] = "unborn"
    /\ table' = [table EXCEPT ![s] = Unknown]
    /\ socket' = [socket EXCEPT ![s] = "open"]
    /\ thread' = [thread EXCEPT ![s] = "serving"]
    /\ UNCHANGED <<closing, gone>>

\* A frame can still be read from a peer that has gone meanwhile.
Receives(s) == thread[s] = "serving" /\ socket[s] \in {"open", "broken"}

\* The session was replaced, or a send to it has failed: KeyError.
HelloOfRemovedSession(s) ==
    /\ Receives(s)
    /\ table[s] = Absent
    /\ thread' = [thread EXCEPT ![s] = "leaving"]
    /\ UNCHANGED <<table, socket, closing, gone>>

\* A faulty WithoutOthersOf: the earlier session of the client stays.
WithOthersOf(s, c) == table

\* What register_hello leaves of the table before it checks the source ids:
\* the client's other sessions are taken out, closed only if it succeeds.
WithoutOthersOf(s, c) ==
    [t \in Sessions |-> IF t \in SessionsOf(c) \ {s} THEN Absent ELSE table[t]]

HelloRefused(s, h) ==
    /\ Receives(s)
    /\ table[s] # Absent
    /\ h.sources \cap ClaimedByOthers(s, h.client) # {}
    /\ table' = WithoutOthersOf(s, h.client)
    /\ thread' = [thread EXCEPT ![s] = "refused"]
    /\ UNCHANGED <<socket, closing, gone>>

HelloAccepted(s, h) ==
    /\ Receives(s)
    /\ table[s] # Absent
    /\ h.sources \cap ClaimedByOthers(s, h.client) = {}
    /\ table' = [WithoutOthersOf(s, h.client) EXCEPT ![s] = h]
    /\ closing' = [closing EXCEPT ![s] = SessionsOf(h.client) \ {s}]
    /\ thread' = [thread EXCEPT ![s] = "replacing"]
    /\ UNCHANGED <<socket, gone>>

\* The sockets of the replaced sessions are closed outside the lock.
CloseReplaced(s) ==
    /\ thread[s] = "replacing"
    /\ \/ \E t \in closing[s] :
             /\ socket' = [socket EXCEPT ![t] = "closed"]
             /\ closing' = [closing EXCEPT ![s] = @ \ {t}]
             /\ UNCHANGED thread
       \/ /\ closing[s] = {}
          /\ thread' = [thread EXCEPT ![s] = "serving"]
          /\ UNCHANGED <<socket, closing>>
    /\ UNCHANGED <<table, gone>>

CloseRefused(s) ==
    /\ thread[s] = "refused"
    /\ socket' = [socket EXCEPT ![s] = "closed"]
    /\ thread' = [thread EXCEPT ![s] = "leaving"]
    /\ UNCHANGED <<table, closing, gone>>

PeerBreaks(s) ==
    /\ socket[s] = "open"
    /\ socket' = [socket EXCEPT ![s] = "broken"]
    /\ UNCHANGED <<table, thread, closing, gone>>

\* The reading loop ends: a close frame, the end of the stream, a message that
\* is refused before the registry sees it - or an OSError, which leaves the
\* broken socket as it is.
StopReading(s) ==
    /\ thread[s] = "serving"
    /\ \/ socket' = [socket EXCEPT ![s] = "closed"]
       \/ socket[s] = "broken" /\ UNCHANGED socket
    /\ thread' = [thread EXCEPT ![s] = "leaving"]
    /\ UNCHANGED <<table, closing, gone>>

-----------------------------------------------------------------------------
(* unregister_event_stream_connection: take the session out, look whether  *)
(* its client has another one, tell the audio runtime that it has not.     *)

\* What is left of the socket is closed by the HTTP server when its handler
\* returns; a send to it has no effect on the table any more.
RemoveConnection(s) ==
    /\ thread[s] = "leaving"
    /\ table' = [table EXCEPT ![s] = Absent]
    /\ socket' = [socket EXCEPT ![s] = "closed"]
    /\ IF table[s] \in Hellos
         THEN /\ gone' = [gone EXCEPT ![s] = table[s].client]
              /\ thread' = [thread EXCEPT ![s] = "checking"]
         ELSE /\ thread' = [thread EXCEPT ![s] = "done"]
              /\ UNCHANGED gone
    /\ UNCHANGED closing

CheckClientGone(s) ==
    /\ thread[s] = "checking"
    /\ IF IsClientConnected(gone[s])
         THEN /\ thread' = [thread EXCEPT ![s] = "done"]
              /\ gone' = [gone EXCEPT ![s] = Nobody]
         ELSE /\ thread' = [thread EXCEPT ![s] = "telling"]
              /\ UNCHANGED gone
    /\ UNCHANGED <<table, socket, closing>>

\* The call of on_event_client_disconnected(gone[s]) is the rest of this step.
TellClientGone(s) ==
    /\ thread[s] = "telling"
    /\ thread' = [thread EXCEPT ![s] = "done"]
    /\ gone' = [gone EXCEPT ![s] = Nobody]
    /\ UNCHANGED <<table, socket, closing>>

-----------------------------------------------------------------------------
(* Sending.  A send that raises takes the session out of the table; the    *)
(* result of that remove_connection is ignored.                            *)

Delivered(s) == socket[s] = "open"

SendTo(s) ==
    /\ table' = IF socket[s] = "broken" THEN [table EXCEPT ![s] = Absent] ELSE table
    /\ UNCHANGED <<socket, thread, closing, gone>>

\* A capability request, or an event whose sender is not modelled.
SendFails(s) ==
    /\ table[s] \in Hellos
    /\ socket[s] = "broken"
    /\ SendTo(s)

\* close_all: the service shuts down.
CloseAll ==
    /\ \E s \in Sessions : table[s] # Absent
    /\ table' = [s \in Sessions |-> Absent]
    /\ socket' = [s \in Sessions |-> IF table[s] = Absent THEN socket[s] ELSE "closed"]
    /\ UNCHANGED <<thread, closing, gone>>

\* Steps of the peers, and the steps of the thread of s that tell nobody.
Peer(s) ==
    \/ AddConnection(s)
    \/ \E h \in Hellos : HelloRefused(s, h) \/ HelloAccepted(s, h)
    \/ PeerBreaks(s)
    \/ SendFails(s)

HandlerStep(s) ==
    \/ HelloOfRemovedSession(s)
    \/ CloseReplaced(s)
    \/ CloseRefused(s)
    \/ StopReading(s)
    \/ RemoveConnection(s)
    \/ CheckClientGone(s)

StreamNext == \E s \in Sessions : Peer(s) \/ HandlerStep(s)

-----------------------------------------------------------------------------
(* Properties. *)

\* A client has at most one session that said hello: register_hello takes out
\* the others in the critical section that registers the new one, so a request
\* or an event for the client reaches it once.
OneSessionPerClient ==
    \A s, t \in Sessions :
        table[s] \in Hellos /\ table[t] \in Hellos /\ table[s].client = table[t].client
            => s = t

\* No two clients hold the same source id at the same time, whatever hellos
\* they send in whatever order and whichever are refused: resolving a vision
\* source or an MCP server is never ambiguous.
SourcesUnique ==
    \A s, t \in Sessions :
        table[s] \in Hellos /\ table[t] \in Hellos /\ s # t
            => table[s].sources \cap table[t].sources = {}

=============================================================================
