------------------------------- MODULE Session -------------------------------
(***************************************************************************)
(* A client's Gateway (gateway.go) against fakediscord's gateway, the way  *)
(* the tests use the two: WaitForReady or Listen connects, a message is    *)
(* posted, Listen hands out MESSAGE_CREATE.  The server is FakeGateway,    *)
(* whose variables describe the current websocket; the client is the part  *)
(* of Gateway that this server can reach.  Its READY carries no session_id *)
(* (fakediscord/gateway.go:167-170), so that the client never resumes: it  *)
(* identifies on every websocket, with a token the server knows.           *)
(*                                                                         *)
(* What is posted while no websocket of the user has identified reaches    *)
(* nobody; and an event queued after identify may be written before READY, *)
(* which connect takes for a protocol error.  The handler of a websocket   *)
(* the client has left ends by itself (FakeGateway!HandlerReturns) and     *)
(* touches no other gateway struct: dialling again forgets it.             *)
(***************************************************************************)
EXTENDS FakeGateway

CONSTANT MaxDrops    \* bound: websockets lost, cancelled calls and Close calls

\* Identify is a request too.
ASSUME SessionAssumption == MaxDrops \in Nat /\ MaxRequests > 0

VARIABLES
    client,      \* "off" (g.conn = nil), "hello", "identify", "ready"
    buffered,    \* g.bufferedEvent # nil: READY
    seen,        \* how many payloads of wire the client has read
    drops,       \* losses so far
    session,     \* bookkeeping: the websocket's number, 0 before the first
    log,         \* bookkeeping: per websocket, the events dispatched to it
    cursor,      \* bookkeeping: per websocket, the events consumed
    received     \* bookkeeping: what Listen returned: <<websocket, position>>

clientVars  == <<client, buffered, seen>>
historyVars == <<session, log, cursor, received>>
sessionVars == <<vars, clientVars, drops, historyVars>>

\* A websocket is given up when it is lost or when an event overtakes READY.
Sessions   == 1..(MaxDrops + MaxEvents + 1)
EventNames == {"READY", "EVENT"}

SessionTypeOK ==
    /\ TypeOK
    /\ client \in {"off", "hello", "identify", "ready"} /\ buffered \in BOOLEAN
    /\ seen \in 0..Len(wire) /\ drops \in 0..MaxDrops /\ session \in Sessions \cup {0}
    /\ log \in [Sessions -> Seq(EventNames)] /\ cursor \in [Sessions -> Nat]
    /\ received \in Seq(Sessions \X Nat)

\* No websocket yet: FakeGateway's variables are those of a handler that is over.
SessionInit ==
    /\ registered = FALSE /\ authUser = FALSE /\ queue = <<>> /\ queueNotify = FALSE
    /\ handler = "returned" /\ ctxDone = TRUE
    /\ reader = "done" /\ notifier = "done" /\ batch = <<>> /\ writer = doneWriter
    /\ link = FALSE /\ stalled = FALSE /\ c2s = <<>> /\ wire = <<>> /\ requests = 0
    /\ posted = 0 /\ pushed = <<>> /\ written = <<>>
    /\ client = "off" /\ buffered = FALSE /\ seen = 0 /\ drops = 0 /\ session = 0
    /\ log = [s \in Sessions |-> <<>>] /\ cursor = [s \in Sessions |-> 0] /\ received = <<>>

----------------------------------------------------------------------------
(* The server *)

Dispatch(e) == log' = [log EXCEPT ![session] = Append(@, e)]

\* Server.mu orders the events of a gateway: READY is made where the gateway
\* becomes the user's, and only then does createMessage find it.
PostMessage ==
    /\ createMessage
    /\ IF pushed' # pushed THEN Dispatch("EVENT") ELSE UNCHANGED log
    /\ UNCHANGED <<clientVars, drops, session, cursor, received>>

Identified ==
    /\ ReadPayload
    /\ IF authUser' # authUser THEN Dispatch("READY") ELSE UNCHANGED log
    /\ UNCHANGED <<clientVars, drops, session, cursor, received>>

ServerRuns ==
    /\ Handler \/ ReadFails \/ Notifier \/ Sending \/ Writer
    /\ UNCHANGED <<clientVars, drops, historyVars>>

----------------------------------------------------------------------------
(* connect *)

\* The handshake reaches the server: a new handler, a new gateway struct.
NewWebsocket ==
    /\ client' = "hello" /\ buffered' = FALSE /\ seen' = 0 /\ session' = session + 1
    /\ registered' = FALSE /\ authUser' = FALSE /\ queue' = <<>> /\ queueNotify' = FALSE
    /\ handler' = "hello" /\ ctxDone' = FALSE
    /\ reader' = "read" /\ notifier' = "lock" /\ batch' = <<>> /\ writer' = idleWriter
    /\ link' = TRUE /\ c2s' = <<>> /\ wire' = <<>> /\ requests' = 0 /\ pushed' = <<>>
    /\ written' = <<>>
    /\ UNCHANGED <<stalled, posted, drops, log, cursor, received>>

\* Seeded bug: connect does not look whether it has a websocket.
Dial_always == NewWebsocket

Dial == client = "off" /\ NewWebsocket

\* read() hands over the next payload.
Reads == seen < Len(wire) /\ seen' = seen + 1
next  == wire[seen + 1]

Sends(q) == c2s' = IF link THEN Append(c2s, q) ELSE c2s

ReadHello ==
    /\ client = "hello" /\ Reads
    /\ Sends("Identify") /\ requests' = requests + 1
    /\ client' = "identify"
    /\ UNCHANGED <<gwVars, hdVars, link, stalled, wire, msgVars, buffered, drops, historyVars>>

\* The goroutine of next() beside the reader: at most MaxRequests of these on
\* one websocket, Identify included.
Heartbeat ==
    /\ client \in {"identify", "ready"} /\ ~buffered /\ requests < MaxRequests
    /\ Sends("Heartbeat") /\ requests' = requests + 1
    /\ UNCHANGED <<gwVars, hdVars, link, stalled, wire, msgVars, clientVars, drops, historyVars>>

\* next() keeps acknowledgements to itself.
ReadACK ==
    /\ client \in {"identify", "ready"} /\ ~buffered
    /\ Reads /\ next.kind = "HeartbeatACK"
    /\ UNCHANGED <<vars, client, buffered, drops, historyVars>>

ReadReady ==
    /\ client = "identify"
    /\ Reads /\ next.kind = "READY"
    /\ client' = "ready" /\ buffered' = TRUE
    /\ UNCHANGED <<vars, drops, historyVars>>

\* The deferred function of connect, or closeWithCode: the websocket goes.
GivesUp ==
    /\ client' = "off" /\ UNCHANGED <<buffered, seen>>
    /\ link' = FALSE /\ c2s' = <<>>
    /\ UNCHANGED <<gwVars, hdVars, stalled, wire, requests, msgVars, historyVars>>

\* Seeded bug: the handshake fails but g.conn stays set, and the next call of
\* connect finds nothing to do.
Overtaken_keepsConn ==
    /\ client = "identify"
    /\ Reads /\ next.kind = "Event"
    /\ client' = "ready"
    /\ UNCHANGED <<vars, buffered, drops, historyVars>>

\* An event that is not READY is the first answer to Identify.
Overtaken ==
    /\ client = "identify"
    /\ seen < Len(wire) /\ next.kind = "Event"
    /\ GivesUp
    /\ UNCHANGED drops

----------------------------------------------------------------------------
(* Listen *)

\* The position in the websocket's log of an event that createMessage queued.
Position(n) == 1 + CHOOSE i \in 1..Len(pushed) : pushed[i] = n

HandOut(position) ==
    /\ cursor' = [cursor EXCEPT ![session] = position]
    /\ received' = Append(received, <<session, position>>)

ListenBuffered ==
    /\ client = "ready" /\ buffered
    /\ buffered' = FALSE
    /\ HandOut(1)
    /\ UNCHANGED <<vars, client, seen, drops, session, log>>

ListenDispatch ==
    /\ client = "ready" /\ ~buffered
    /\ Reads /\ next.kind \in {"READY", "Event"}
    /\ HandOut(IF next.kind = "READY" THEN 1 ELSE Position(next.n))
    /\ UNCHANGED <<vars, client, buffered, drops, session, log>>

----------------------------------------------------------------------------
(* Losses *)

\* The network breaks the websocket.
Drop ==
    /\ drops < MaxDrops /\ drops' = drops + 1
    /\ ClientLeaves
    /\ UNCHANGED <<clientVars, historyVars>>

\* The application calls Close or cancels a call that is connecting, or a
\* heartbeat goes unanswered.
Leave ==
    /\ client # "off"
    /\ drops < MaxDrops /\ drops' = drops + 1
    /\ GivesUp

\* Seeded bug: only Listen has an answer to a read that fails.
ReadBroken_listening ==
    /\ client = "ready" /\ ~link
    /\ GivesUp
    /\ UNCHANGED drops

\* A read fails, perhaps before all that was written has come through.
ReadBroken ==
    /\ client # "off" /\ ~link
    /\ GivesUp
    /\ UNCHANGED drops

----------------------------------------------------------------------------

Client ==
    \/ Dial \/ ReadHello \/ ReadACK \/ ReadReady \/ Overtaken
    \/ ListenBuffered \/ ListenDispatch \/ ReadBroken

SessionNext ==
    \/ PostMessage \/ Identified \/ ServerRuns
    \/ Client \/ Heartbeat \/ Drop \/ Leave

\* The server is as fair as FakeGateway makes it, and the application calls
\* Listen again and again; nobody has to post, heartbeat or lose anything.
FairSession ==
    /\ SessionInit /\ [][SessionNext]_sessionVars
    /\ Fairness
    /\ WF_sessionVars(Client)

----------------------------------------------------------------------------
(* Properties *)

\* The abstract specification: see EventStream.
Stream == INSTANCE EventStream

\* Against this server too Listen implements an event stream: on every
\* websocket the application gets READY and then the events queued for it,
\* none skipped and none twice, and never an event of a websocket whose READY
\* was overtaken (gateway.go:454-462, fakediscord/gateway.go:159-180).
EventStreamSpec == Stream!Spec

\* An event that overtakes READY costs a connection, not the client: connect
\* closes, dials again and gets to READY (gateway.go:317-338).
Recovers == client # "ready" ~> client = "ready"

Queued(n)   == \E i \in 1..Len(pushed) : pushed[i] = n
Received(n) == Queued(n) /\ \E i \in 1..Len(received) : received[i] = <<session, Position(n)>>

\* What TestDM relies on (fakediscord/fakediscord_test.go:91-185): once the
\* client is ready, every message queued on its websocket is handed out by
\* Listen, or the websocket breaks.
MessagesArrive ==
    \A n \in Events : client = "ready" /\ Queued(n) ~> Received(n) \/ ~link
==============================================================================
