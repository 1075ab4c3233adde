----------------------------- MODULE FakeGateway -----------------------------
(***************************************************************************)
(* One websocket of fakediscord's gateway (fakediscord/gateway.go): the    *)
(* handler greets the client, registers a gateway in Server.gateways and   *)
(* runs three goroutines under one errgroup: one reads the client's        *)
(* payloads, one hands over the events that createMessage queues, and one  *)
(* writes what the other two send on the unbuffered channel outbound.      *)
(*                                                                         *)
(* The client, the network and the test code that posts messages are       *)
(* external.  The client may stop reading for good, and the writer then    *)
(* blocks in WriteMessage, which has no deadline.                          *)
(***************************************************************************)
EXTENDS Naturals, Sequences

CONSTANTS
    MaxEvents,    \* bound: messages posted in the user's channels
    MaxRequests   \* bound: payloads the client sends

ASSUME FakeGatewayAssumption == {MaxEvents, MaxRequests} \subseteq Nat

VARIABLES
    \* the gateway struct, protected by Server.mu
    registered,    \* it is in Server.gateways
    authUser,      \* authUser # nil
    queue,         \* events to hand over: 1, 2, ...
    queueNotify,   \* queueNotify # nil: an open channel somebody waits on
    \* the handler
    handler,       \* "hello", "running", "returned"
    ctxDone,       \* a goroutine of the group has ended
    reader,        \* "read", what it has to send, or "done"
    notifier,      \* "lock", "wait", "send" or "done"
    batch,         \* the events the notifier took from queue
    writer,        \* "select", the payload it has to write, or "done"
    \* external: the client
    link,          \* the websocket is intact
    stalled,       \* the client reads no more and its buffers are full
    c2s,           \* what is on its way from the client
    wire,          \* what was written to the client, in order
    requests,      \* payloads the client has sent so far
    \* bookkeeping
    posted,        \* messages posted so far
    pushed,        \* those of them queued for this gateway, in order
    written        \* the events among the payloads of wire

gwVars  == <<registered, authUser, queue, queueNotify>>
hdVars  == <<handler, ctxDone, reader, notifier, batch, writer>>
netVars == <<link, stalled, c2s, wire, requests>>
msgVars == <<posted, pushed, written>>
vars    == <<gwVars, hdVars, netVars, msgVars>>

Events    == 1..MaxEvents
Replies   == {"HeartbeatACK", "READY", "InvalidSession"}
Questions == {"Heartbeat", "Identify", "IdentifyBad", "Other"}

\* The payloads of outbound: a kind, and the event's number if it is one.
Reply(r)   == [kind |-> r, n |-> 0]
Event(n)   == [kind |-> "Event", n |-> n]
Hello      == [kind |-> "Hello", n |-> 0]
nothing    == [kind |-> "none", n |-> 0]
Outbound   == {Reply(r) : r \in Replies} \cup {Event(n) : n \in Events} \cup {Hello, nothing}

TypeOK ==
    /\ registered \in BOOLEAN /\ authUser \in BOOLEAN
    /\ queue \in Seq(Events) /\ queueNotify \in BOOLEAN
    /\ handler \in {"hello", "running", "returned"} /\ ctxDone \in BOOLEAN
    /\ reader \in {"read", "done"} \cup Replies
    /\ notifier \in {"lock", "wait", "send", "done"} /\ batch \in Seq(Events)
    /\ writer \in {"select", "write", "done"} \X Outbound
    /\ link \in BOOLEAN /\ stalled \in BOOLEAN /\ c2s \in Seq(Questions) /\ wire \in Seq(Outbound)
    /\ requests \in 0..MaxRequests /\ posted \in 0..MaxEvents /\ pushed \in Seq(Events) /\ written \in Seq(Events)

idleWriter == <<"select", nothing>>
doneWriter == <<"done", nothing>>

Init ==
    /\ registered = FALSE /\ authUser = FALSE /\ queue = <<>> /\ queueNotify = FALSE
    /\ handler = "hello" /\ ctxDone = FALSE
    /\ reader = "read" /\ notifier = "lock" /\ batch = <<>> /\ writer = idleWriter
    /\ link = TRUE /\ stalled = FALSE /\ c2s = <<>> /\ wire = <<>> /\ requests = 0
    /\ posted = 0 /\ pushed = <<>> /\ written = <<>>

----------------------------------------------------------------------------
(* createMessage, in another goroutine, with Server.mu held *)

\* Seeded bug: the notification looks at the length before the append.
lockedPush_forgets(n) ==
    /\ queue' = Append(queue, n)
    /\ queueNotify' = IF Len(queue) = 1 THEN FALSE ELSE queueNotify

\* The first element of an empty queue closes the channel somebody waits on.
lockedPush(n) ==
    /\ queue' = Append(queue, n)
    /\ queueNotify' = IF Len(queue') = 1 THEN FALSE ELSE queueNotify

\* A message is posted in a channel of the user: every gateway in Server.gateways
\* that has identified as the user gets the event, and no other.
createMessage ==
    /\ posted < MaxEvents /\ posted' = posted + 1
    /\ \/ registered /\ authUser /\ lockedPush(posted') /\ pushed' = Append(pushed, posted')
       \/ ~(registered /\ authUser) /\ UNCHANGED <<queue, queueNotify, pushed>>
    /\ UNCHANGED <<registered, authUser, hdVars, netVars, written>>

----------------------------------------------------------------------------
(* handleGatewayWebsocket *)

\* The greeting is written and the gateway registered.
Start ==
    /\ handler = "hello" /\ link
    /\ wire' = Append(wire, Hello)
    /\ registered' = TRUE /\ handler' = "running"
    /\ UNCHANGED <<authUser, queue, queueNotify, ctxDone, reader, notifier, batch, writer, link,
                   stalled, c2s, requests, msgVars>>

StartFails ==
    /\ handler = "hello" /\ ~link
    /\ handler' = "returned"
    /\ UNCHANGED <<gwVars, ctxDone, reader, notifier, batch, writer, netVars, msgVars>>

Running == handler = "running"

\* grp.Wait is over: the deferred calls unregister the gateway and close.
Finish ==
    /\ Running /\ reader = "done" /\ notifier = "done" /\ writer = doneWriter
    /\ registered' = FALSE /\ link' = FALSE /\ c2s' = <<>>
    /\ handler' = "returned"
    /\ UNCHANGED <<authUser, queue, queueNotify, ctxDone, reader, notifier, batch, writer, stalled,
                   wire, requests, msgVars>>

----------------------------------------------------------------------------
(* The reader *)

\* A heartbeat is acknowledged; identify with a known token makes the gateway
\* the user's, with Server.mu held, and READY is sent once it is released.
ReadPayload ==
    /\ Running /\ reader = "read" /\ c2s # <<>> /\ Head(c2s) # "Other"
    /\ c2s' = Tail(c2s)
    /\ reader' = CASE Head(c2s) = "Heartbeat"   -> "HeartbeatACK"
                   [] Head(c2s) = "Identify"    -> "READY"
                   [] Head(c2s) = "IdentifyBad" -> "InvalidSession"
    /\ authUser' = (authUser \/ Head(c2s) = "Identify")
    /\ UNCHANGED <<registered, queue, queueNotify, handler, ctxDone, notifier, batch, writer,
                   link, stalled, wire, requests, msgVars>>

\* Another payload, a broken websocket, or the context is done: seen before
\* the read, or by the watcher that sets the read deadline.
ReadFails ==
    /\ Running /\ reader = "read"
    /\ ctxDone \/ (c2s = <<>> /\ ~link) \/ (c2s # <<>> /\ Head(c2s) = "Other")
    /\ reader' = "done" /\ ctxDone' = TRUE
    /\ UNCHANGED <<gwVars, handler, notifier, batch, writer, netVars, msgVars>>

----------------------------------------------------------------------------
(* The notifier *)

\* Seeded bug: the queue is left in place when it is handed over.
TakeQueue_keeps ==
    /\ Running /\ notifier = "lock" /\ queue # <<>>
    /\ batch' = queue
    /\ notifier' = "send"
    /\ UNCHANGED <<gwVars, handler, ctxDone, reader, writer, netVars, msgVars>>

TakeQueue ==
    /\ Running /\ notifier = "lock" /\ queue # <<>>
    /\ batch' = queue /\ queue' = <<>>
    /\ notifier' = "send"
    /\ UNCHANGED <<registered, authUser, queueNotify, handler, ctxDone, reader, writer, netVars, msgVars>>

\* Nothing queued: leave a channel to be closed by lockedPush, and wait.
AwaitQueue ==
    /\ Running /\ notifier = "lock" /\ queue = <<>>
    /\ queueNotify' = TRUE
    /\ notifier' = "wait"
    /\ UNCHANGED <<registered, authUser, queue, handler, ctxDone, reader, batch, writer, netVars, msgVars>>

QueueNotified ==
    /\ Running /\ notifier = "wait" /\ ~queueNotify
    /\ notifier' = "lock"
    /\ UNCHANGED <<gwVars, handler, ctxDone, reader, batch, writer, netVars, msgVars>>

NotifierCancelled ==
    /\ Running /\ notifier = "wait" /\ ctxDone
    /\ notifier' = "done"
    /\ UNCHANGED <<gwVars, handler, ctxDone, reader, batch, writer, netVars, msgVars>>

----------------------------------------------------------------------------
(* send, and the writer *)

SendReply ==
    /\ Running /\ reader \in Replies /\ writer = idleWriter
    /\ writer' = <<"write", Reply(reader)>> /\ reader' = "read"
    /\ UNCHANGED <<gwVars, handler, ctxDone, notifier, batch, netVars, msgVars>>

SendEvent ==
    /\ Running /\ notifier = "send" /\ writer = idleWriter
    /\ writer' = <<"write", Event(Head(batch))>>
    /\ batch' = Tail(batch)
    /\ notifier' = IF Len(batch) = 1 THEN "lock" ELSE "send"
    /\ UNCHANGED <<gwVars, handler, ctxDone, reader, netVars, msgVars>>

\* Seeded bug: send has no case for the context.
SendCancelled_absent == FALSE

SendCancelled ==
    /\ Running /\ ctxDone
    /\ \/ reader \in Replies /\ reader' = "done" /\ UNCHANGED notifier
       \/ notifier = "send" /\ notifier' = "done" /\ UNCHANGED reader
    /\ UNCHANGED <<gwVars, handler, ctxDone, batch, writer, netVars, msgVars>>

\* The number of a payload, if it is an event.
Number(m) == IF m.kind = "Event" THEN <<m.n>> ELSE <<>>

Written ==
    /\ Running /\ writer[1] = "write" /\ ~(stalled /\ link)
    /\ \/ link /\ wire' = Append(wire, writer[2]) /\ written' = written \o Number(writer[2])
       \/ ~link /\ UNCHANGED <<wire, written>>
    /\ writer' = idleWriter
    /\ UNCHANGED <<gwVars, handler, ctxDone, reader, notifier, batch, link, stalled, c2s,
                   requests, posted, pushed>>

WriterStops ==
    /\ Running
    /\ (writer = idleWriter /\ ctxDone) \/ (writer[1] = "write" /\ ~link)
    /\ writer' = doneWriter /\ ctxDone' = TRUE
    /\ UNCHANGED <<gwVars, handler, reader, notifier, batch, netVars, msgVars>>

----------------------------------------------------------------------------
(* External: the client *)

ClientSends ==
    /\ link /\ requests < MaxRequests
    /\ \E q \in Questions : c2s' = Append(c2s, q)
    /\ requests' = requests + 1
    /\ UNCHANGED <<gwVars, hdVars, link, stalled, wire, msgVars>>

ClientLeaves ==
    /\ link
    /\ link' = FALSE
    /\ \E n \in 0..Len(c2s) : c2s' = SubSeq(c2s, 1, n)
    /\ UNCHANGED <<gwVars, hdVars, stalled, wire, requests, msgVars>>

ClientStalls ==
    /\ link /\ ~stalled
    /\ stalled' = TRUE
    /\ UNCHANGED <<gwVars, hdVars, link, c2s, wire, requests, msgVars>>

----------------------------------------------------------------------------

Reader   == ReadPayload \/ ReadFails
Notifier == TakeQueue \/ AwaitQueue \/ QueueNotified \/ NotifierCancelled
Sending  == SendReply \/ SendEvent \/ SendCancelled
Writer   == Written \/ WriterStops
Handler  == Start \/ StartFails \/ Finish

Next ==
    \/ createMessage
    \/ Handler \/ Reader \/ Notifier \/ Sending \/ Writer
    \/ ClientSends \/ ClientLeaves \/ ClientStalls

Spec == Init /\ [][Next]_vars

\* Every goroutine keeps running, and of two senders on outbound neither waits
\* for ever (Go serves the senders of a channel in turn); a select whose
\* context is done does not pass it over for ever.
Fairness ==
    /\ WF_vars(Handler) /\ WF_vars(Reader) /\ WF_vars(Notifier) /\ WF_vars(Writer)
    /\ SF_vars(SendReply) /\ SF_vars(SendEvent) /\ SF_vars(SendCancelled)
    /\ SF_vars(ReadFails) /\ SF_vars(NotifierCancelled) /\ SF_vars(WriterStops)

FairSpec == Spec /\ Fairness

----------------------------------------------------------------------------
(* Properties *)

\* While the websocket is up, every event queued for the gateway is in exactly
\* one place, in the order in which createMessage queued it: written, with the
\* writer, in the notifier's batch or in the queue (fakediscord/gateway.go:52,
\* 189-233).
EventsInOrder ==
    link => written \o Number(writer[2]) \o batch \o queue = pushed

\* The notifier never sleeps on a queue with an event in it: between its look
\* at the queue and its wait createMessage may run, and a push that finds
\* nobody waiting leaves no notification behind.
NoLostWakeup == notifier = "wait" /\ queueNotify => queue = <<>>

\* WriteMessage waits for a client that has stopped reading.
writeBlocked == writer[1] = "write" /\ stalled /\ link

\* Once a goroutine of the group has ended, the others end and the handler
\* returns: none is left waiting on outbound, on the queue or for a payload of
\* the client.  All that can hold it is a write the client does not read
\* (fakediscord/gateway.go:225).
HandlerReturns == ctxDone ~> handler = "returned" \/ writeBlocked

\* A queued event is written, the websocket ends, or the client reads no more.
EventsDelivered ==
    \A n \in Events :
        (\E i \in 1..Len(pushed) : pushed[i] = n)
            ~> (\E i \in 1..Len(wire) : wire[i] = Event(n)) \/ handler = "returned" \/ stalled
==============================================================================
