----------------------------- MODULE GatewayNext -----------------------------
(***************************************************************************)
(* Gateway.next (gateway.go:222-289) on one connection: a call starts a    *)
(* goroutine that keeps the heartbeat and one that reads, which share an   *)
(* errgroup context and two unbuffered channels, and returns when both     *)
(* have ended.  Each read starts a third goroutine, the watcher, that      *)
(* sets the read deadline when the context is done (gateway.go:496-533).   *)
(*                                                                         *)
(* The ticker's channel holds one tick, and Reset does not empty it (the   *)
(* module's go.mod asks for Go 1.16).  A heartbeat's write does not block  *)
(* here: GatewayIO has the writes that do.  Discord and the network are    *)
(* external.                                                               *)
(***************************************************************************)
EXTENDS Naturals, Sequences

CONSTANTS
    Interval,     \* the heartbeat interval, in units of time
    MaxEvents,    \* bound: payloads other than heartbeats the service sends
    MaxRequests,  \* bound: heartbeats the service asks for
    MaxFaults     \* bound: failures and cancellations

ASSUME NextAssumption ==
    /\ Interval \in Nat \ {0}
    /\ {MaxEvents, MaxRequests, MaxFaults} \subseteq Nat

VARIABLES
    call,        \* "out", "running", or "failed" once a call returned an error
    parentDone,  \* the caller's context is done
    cancelled,   \* a goroutine ended with an error: the group's context is done
    err,         \* the first of those errors
    hb,          \* where the heartbeat goroutine is
    rd,          \* where the reading goroutine is
    msg,         \* the payload read, 0 for none
    \* of the connection, from one call to the next
    pendingAck,
    tick,        \* a tick waits in g.heartbeat.C
    timer,       \* time left until the ticker's next tick
    deadline,    \* the read deadline has passed: what is not in the client's buffer yet
                 \* will never be read
    linger,      \* a watcher whose read is over has not run yet, and whose call's it is
    \* external: the websocket and the service
    link,        \* "up", "mute" (nothing arrives, nobody notices) or "down"
    s2c,         \* what is on its way to the client
    beats,       \* heartbeats on their way to the service
    sent,        \* payloads other than heartbeats sent so far: 1, 2, ...
    asked,       \* heartbeats the service asked for so far
    \* bookkeeping
    returned,    \* the payloads the calls returned
    fresh,       \* no time has passed since the last heartbeat was written
    faults

callVars == <<call, parentDone, cancelled, err>>
connVars == <<pendingAck, tick, timer, deadline, linger>>
netVars  == <<link, s2c, beats, sent, asked>>
bookVars == <<returned, fresh, faults>>

vars == <<callVars, hb, rd, msg, connVars, netVars, bookVars>>

\* A heartbeat request, its acknowledgement, or the n-th other payload.
Payloads == {[op |-> "Heartbeat"], [op |-> "HeartbeatACK"]} \cup [op : {"Event"}, n : 1..MaxEvents]

TypeOK ==
    /\ call \in {"out", "running", "failed"}
    /\ parentDone \in BOOLEAN /\ cancelled \in BOOLEAN
    /\ err \in {"none", "event", "no heartbeat", "write", "read"}
    /\ hb \in {"off", "select", "tick", "request", "done"}
    /\ rd \in {"off", "enter", "reading", "request", "ack", "done"}
    /\ msg \in 0..MaxEvents
    /\ pendingAck \in BOOLEAN /\ tick \in BOOLEAN /\ timer \in 1..Interval
    /\ deadline \in BOOLEAN /\ linger \in {"none", "current", "old"}
    /\ link \in {"up", "mute", "down"} /\ s2c \in Seq(Payloads) /\ beats \in Nat
    /\ sent \in 0..MaxEvents /\ asked \in 0..MaxRequests
    /\ returned \in Seq(1..MaxEvents) /\ fresh \in BOOLEAN
    /\ faults \in 0..MaxFaults

\* connect has just read Hello, started the ticker and identified itself.
Init ==
    /\ call = "out" /\ parentDone = FALSE /\ cancelled = FALSE /\ err = "none"
    /\ hb = "off" /\ rd = "off" /\ msg = 0
    /\ pendingAck = FALSE /\ tick = FALSE /\ timer = Interval
    /\ deadline = FALSE /\ linger = "none"
    /\ link = "up" /\ s2c = <<>> /\ beats = 0 /\ sent = 0 /\ asked = 0
    /\ returned = <<>> /\ fresh = FALSE /\ faults = 0

Fault == faults < MaxFaults /\ faults' = faults + 1

ctxDone == cancelled \/ parentDone

\* errgroup: the first error is kept and cancels the group's context.
Fails(e) == cancelled' = TRUE /\ err' = IF err = "none" THEN e ELSE err

----------------------------------------------------------------------------
(* The caller *)

CallNext ==
    /\ call = "out"
    /\ call' = "running" /\ parentDone' = FALSE /\ cancelled' = FALSE /\ err' = "none"
    /\ hb' = "select" /\ rd' = "enter" /\ msg' = 0
    /\ linger' = IF linger = "current" THEN "old" ELSE linger
    /\ UNCHANGED <<pendingAck, tick, timer, deadline, netVars, bookVars>>

Cancel ==
    /\ call = "running" /\ ~parentDone
    /\ Fault
    /\ parentDone' = TRUE
    /\ UNCHANGED <<call, cancelled, err, hb, rd, msg, connVars, netVars, returned, fresh>>

\* Seeded bug: an error of the group is dropped, and the caller tries again.
Return_swallows ==
    /\ call = "running" /\ hb = "done" /\ rd = "done"
    /\ call' = "out"
    /\ returned' = IF err = "event" THEN Append(returned, msg) ELSE returned
    /\ hb' = "off" /\ rd' = "off" /\ msg' = 0
    /\ UNCHANGED <<parentDone, cancelled, err, connVars, netVars, fresh, faults>>

\* grp.Wait: both goroutines have ended.
Return ==
    /\ call = "running" /\ hb = "done" /\ rd = "done"
    /\ call' = IF err = "event" THEN "out" ELSE "failed"
    /\ returned' = IF err = "event" THEN Append(returned, msg) ELSE returned
    /\ hb' = "off" /\ rd' = "off" /\ msg' = 0
    /\ UNCHANGED <<parentDone, cancelled, err, connVars, netVars, fresh, faults>>

----------------------------------------------------------------------------
(* The heartbeat goroutine: one select after another *)

HeartbeatTick ==
    /\ hb = "select" /\ tick /\ ~pendingAck
    /\ tick' = FALSE /\ hb' = "tick"
    /\ UNCHANGED <<callVars, rd, msg, pendingAck, timer, deadline, linger, netVars,
                   returned, fresh, faults>>

HeartbeatMissing ==
    /\ hb = "select" /\ tick /\ pendingAck
    /\ tick' = FALSE /\ hb' = "done" /\ Fails("no heartbeat")
    /\ UNCHANGED <<call, parentDone, rd, msg, pendingAck, timer, deadline, linger, netVars,
                   bookVars>>

\* The reading goroutine's send on serverHeartbeats meets the receive.
HeartbeatRequested ==
    /\ hb = "select" /\ rd = "request"
    /\ hb' = "request" /\ rd' = "enter"
    /\ UNCHANGED <<callVars, msg, connVars, netVars, bookVars>>

\* Seeded bug: the acknowledgement is received, and the flag not cleared.
HeartbeatAcknowledged_ignored ==
    /\ hb = "select" /\ rd = "ack"
    /\ rd' = "enter"
    /\ UNCHANGED <<callVars, hb, msg, connVars, netVars, bookVars>>

\* The reading goroutine's send on acks meets the receive.
HeartbeatAcknowledged ==
    /\ hb = "select" /\ rd = "ack"
    /\ pendingAck' = FALSE /\ rd' = "enter"
    /\ UNCHANGED <<callVars, hb, msg, tick, timer, deadline, linger, netVars, bookVars>>

HeartbeatStops ==
    /\ hb = "select" /\ ctxDone
    /\ hb' = "done"
    /\ UNCHANGED <<callVars, rd, msg, connVars, netVars, bookVars>>

\* Seeded bug: a heartbeat that is sent is not waited for.
HeartbeatWritten_unawaited ==
    /\ hb \in {"tick", "request"} /\ ~ctxDone
    /\ beats' = IF link = "up" THEN beats + 1 ELSE beats
    /\ timer' = IF hb = "request" THEN Interval ELSE timer
    /\ hb' = "select" /\ fresh' = TRUE
    /\ UNCHANGED <<callVars, rd, msg, pendingAck, tick, deadline, linger, link, s2c, sent,
                   asked, returned, faults>>

\* Seeded bug: connect did not keep the interval Hello announced.
HeartbeatWritten_noInterval ==
    /\ hb \in {"tick", "request"} /\ ~ctxDone
    /\ beats' = IF link = "up" THEN beats + 1 ELSE beats
    /\ pendingAck' = TRUE
    /\ timer' = IF hb = "request" THEN 0 ELSE timer
    /\ hb' = "select" /\ fresh' = TRUE
    /\ UNCHANGED <<callVars, rd, msg, tick, deadline, linger, link, s2c, sent, asked,
                   returned, faults>>

\* A heartbeat the service asked for puts the next one off.
HeartbeatWritten ==
    /\ hb \in {"tick", "request"} /\ ~ctxDone
    /\ beats' = IF link = "up" THEN beats + 1 ELSE beats
    /\ pendingAck' = TRUE
    /\ timer' = IF hb = "request" THEN Interval ELSE timer
    /\ hb' = "select" /\ fresh' = TRUE
    /\ UNCHANGED <<callVars, rd, msg, tick, deadline, linger, link, s2c, sent, asked,
                   returned, faults>>

HeartbeatWriteFails ==
    /\ hb \in {"tick", "request"} /\ (ctxDone \/ link = "down")
    /\ hb' = "done" /\ Fails("write")
    /\ UNCHANGED <<call, parentDone, rd, msg, connVars, netVars, bookVars>>

----------------------------------------------------------------------------
(* The reading goroutine *)

ReadStarts ==
    /\ rd = "enter" /\ ~ctxDone
    /\ rd' = "reading"
    /\ UNCHANGED <<callVars, hb, msg, connVars, netVars, bookVars>>

ReadRefused ==
    /\ rd = "enter" /\ ctxDone
    /\ rd' = "done" /\ Fails("read")
    /\ UNCHANGED <<call, parentDone, hb, msg, connVars, netVars, bookVars>>

\* ReadMessage returns and the channel read is closed.  The watcher has seen
\* that and ended, or (linger) has not been scheduled yet.
ReadMessage ==
    /\ rd = "reading" /\ s2c # <<>>
    /\ s2c' = Tail(s2c)
    /\ linger' \in (IF linger = "none" THEN {"none", "current"} ELSE {linger})
    /\ LET m == Head(s2c) IN
       \/ /\ m.op = "Heartbeat"
          /\ rd' = "request"
          /\ UNCHANGED <<cancelled, err, msg>>
       \/ /\ m.op = "HeartbeatACK"
          /\ rd' = "ack"
          /\ UNCHANGED <<cancelled, err, msg>>
       \/ /\ m.op = "Event"
          /\ rd' = "done" /\ msg' = m.n /\ Fails("event")
    /\ UNCHANGED <<call, parentDone, hb, pendingAck, tick, timer, deadline, link, beats, sent,
                   asked, returned, fresh, faults>>

\* Nothing more can be read, for the deadline has passed or the connection is
\* gone, or (a fault) what was read does not parse.
ReadFails ==
    /\ rd = "reading"
    /\ \/ (deadline \/ link = "down") /\ s2c = <<>> /\ UNCHANGED faults
       \/ Fault
    /\ rd' = "done" /\ Fails("read")
    /\ UNCHANGED <<call, parentDone, hb, msg, connVars, netVars, returned, fresh>>

\* Nobody will receive from the channel any more.
OfferCancelled ==
    /\ rd \in {"request", "ack"} /\ ctxDone
    /\ rd' = "done" /\ Fails("read")
    /\ UNCHANGED <<call, parentDone, hb, msg, connVars, netVars, bookVars>>

\* The read deadline passes: the client has received some of what was sent.
DeadlinePasses ==
    /\ deadline' = TRUE
    /\ \E n \in 0..Len(s2c) : s2c' = SubSeq(s2c, 1, n)

\* Seeded bug: no goroutine watches the context while ReadMessage blocks.
WatcherFires_absent == FALSE

\* The watcher of the read in progress sees that the context is done.
WatcherFires ==
    /\ rd = "reading" /\ ctxDone /\ ~deadline
    /\ DeadlinePasses
    /\ UNCHANGED <<callVars, hb, rd, msg, pendingAck, tick, timer, linger, link, beats, sent, asked,
                   bookVars>>

\* A watcher left behind runs at last.  Both its channels may be ready: it then
\* ends, or sets the deadline of a connection that is still in use.
LateWatcher ==
    /\ linger # "none"
    /\ linger' = "none"
    /\ \/ UNCHANGED <<deadline, s2c>>
       \/ (linger = "old" \/ ctxDone) /\ DeadlinePasses
    /\ UNCHANGED <<callVars, hb, rd, msg, pendingAck, tick, timer, link, beats, sent, asked,
                   bookVars>>

----------------------------------------------------------------------------
(* External: time, the service and the network *)

\* Time passes; a tick that finds the channel full is dropped.
Time ==
    /\ call # "failed"
    /\ timer' = IF timer = 1 THEN Interval ELSE timer - 1
    /\ tick' = (tick \/ timer = 1)
    /\ fresh' = FALSE
    /\ UNCHANGED <<callVars, hb, rd, msg, pendingAck, deadline, linger, netVars, returned,
                   faults>>

\* A payload on its way to the client, which stops reading at the deadline.
Arrives(m) == s2c' = IF deadline THEN s2c ELSE Append(s2c, m)

SendEvent ==
    /\ link = "up" /\ sent < MaxEvents
    /\ sent' = sent + 1
    /\ Arrives([op |-> "Event", n |-> sent + 1])
    /\ UNCHANGED <<callVars, hb, rd, msg, connVars, link, beats, asked, bookVars>>

AskHeartbeat ==
    /\ link = "up" /\ asked < MaxRequests
    /\ asked' = asked + 1
    /\ Arrives([op |-> "Heartbeat"])
    /\ UNCHANGED <<callVars, hb, rd, msg, connVars, link, beats, sent, bookVars>>

Acknowledge ==
    /\ link = "up" /\ beats > 0
    /\ beats' = beats - 1
    /\ Arrives([op |-> "HeartbeatACK"])
    /\ UNCHANGED <<callVars, hb, rd, msg, connVars, link, sent, asked, bookVars>>

\* The connection goes down, or silently stops carrying anything.
Break ==
    /\ link = "up"
    /\ Fault
    /\ link' \in {"mute", "down"} /\ beats' = 0
    /\ \E n \in 0..Len(s2c) : s2c' = SubSeq(s2c, 1, n)
    /\ UNCHANGED <<callVars, hb, rd, msg, connVars, sent, asked, returned, fresh>>

----------------------------------------------------------------------------

Heartbeat ==
    \/ HeartbeatTick \/ HeartbeatMissing \/ HeartbeatRequested \/ HeartbeatAcknowledged
    \/ HeartbeatStops \/ HeartbeatWritten \/ HeartbeatWriteFails

Read ==
    \/ ReadStarts \/ ReadRefused \/ ReadMessage \/ ReadFails \/ OfferCancelled

Watcher == WatcherFires \/ LateWatcher

Service == SendEvent \/ AskHeartbeat \/ Acknowledge \/ Break

Next == CallNext \/ Cancel \/ Return \/ Heartbeat \/ Read \/ Watcher \/ Time \/ Service

Spec == Init /\ [][Next]_vars

\* Every goroutine keeps running, time passes and the caller calls next again.
\* A select takes any of its ready channels at random, so the tick is not
\* passed over for ever.
FairSpec ==
    /\ Spec
    /\ WF_vars(CallNext) /\ WF_vars(Return) /\ WF_vars(Heartbeat) /\ WF_vars(Read)
    /\ WF_vars(WatcherFires) /\ WF_vars(Time)
    /\ SF_vars(HeartbeatTick \/ HeartbeatMissing)

----------------------------------------------------------------------------
(* Properties *)

\* The payloads other than heartbeats that the caller has not been given: the
\* one read and not yet returned, and those on the wire.
IsEvent(m) == m.op = "Event"

coming == {n \in 1..sent : n = msg \/ \E i \in DOMAIN s2c : IsEvent(s2c[i]) /\ s2c[i].n = n}

Stream == INSTANCE PayloadStream

\* next hands over what Gateway assumes it does, however its goroutines, the
\* ticker, the service's heartbeats, cancellation and a broken connection
\* interleave: in order, nothing twice, and nothing lost unless the call fails
\* (gateway.go:257-288).
PayloadStreamSpec == Stream!Spec

\* A call that cannot go on returns: neither goroutine waits for ever for the
\* other's channel, the tick or the wire once the caller's context is done,
\* the connection is down or one of them has failed.
CallEnds == call = "running" /\ (ctxDone \/ link = "down") ~> call # "running"

\* The purpose of the heartbeat: a connection that silently stopped carrying
\* anything is noticed, and the call fails so that Listen reconnects.
SilenceNoticed == link = "mute" ~> call = "failed"

\* A heartbeat is not acknowledged yet: it, or the acknowledgement, is on its
\* way, or the reading goroutine has it in its hands.
Unacknowledged ==
    beats > 0 \/ rd = "ack" \/ \E i \in DOMAIN s2c : s2c[i].op = "HeartbeatACK"

\* No healthy connection is given up for a heartbeat that was acknowledged:
\* when a call ends for that, one is outstanding, however acknowledgements,
\* requests for heartbeats, ticks left in the channel and the ends of calls
\* interleave, and whichever call wrote the heartbeat (gateway.go:233-256).
HealthyKept ==
    [][HeartbeatMissing /\ err = "none" => deadline \/ link # "up" \/ Unacknowledged]_vars

\* The claim of the error at gateway.go:235, "did not receive heartbeat from
\* server": the server has had at least some time to acknowledge the heartbeat.
ServerHadTime == [][HeartbeatMissing => ~fresh]_vars
==============================================================================
