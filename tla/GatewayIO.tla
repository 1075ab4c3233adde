------------------------------ MODULE GatewayIO ------------------------------
(***************************************************************************)
(* Gateway.read and Gateway.write (gateway.go:496-579) on the connection   *)
(* they share: the checks of the context, the watcher goroutine each call  *)
(* starts, the deadlines the watchers set and the blocked calls these cut  *)
(* short.  The callers are connect (gateway.go:346-467), which reads Hello *)
(* and writes Resume and Identify itself, and next, with which connect     *)
(* waits for the answers and Listen for events: there the heartbeat        *)
(* goroutine writes while the other one reads, under the context of their  *)
(* group, which is cancelled before the caller goes on.                    *)
(*                                                                         *)
(* A watcher closes watchDone first of all, so that the call that started  *)
(* it does not wait for its end: it may be left behind, and then acts on   *)
(* whatever g.conn is when it runs.  At most one watcher of reads and one  *)
(* of writes is left behind at a time (a bound).                           *)
(*                                                                         *)
(* What a payload says is left open: any may come at any time, and so may  *)
(* the tick at which an acknowledgement is missing (GatewayNext has the    *)
(* ticker and the acknowledgements).                                       *)
(*                                                                         *)
(* External: the websocket library, which clears the write deadline in     *)
(* every WriteMessage and keeps the first error of each direction, and the *)
(* network, which may stop carrying anything.                              *)
(***************************************************************************)
EXTENDS Naturals

CONSTANTS
    MaxDials,   \* bound: connections dialled
    MaxFaults   \* bound: failures of the network and cancellations

ASSUME IOAssumption == MaxDials \in Nat /\ MaxFaults \in Nat

Ops == {"read", "write"}

\* Where next runs its two goroutines.
Group == {"resume answer", "identify answer", "listen"}

Phases == Group \cup {"out", "hello", "resume", "sleep", "identify"}

Contexts == {"none", "parent", "group", "ended"}

VARIABLES
    conn,        \* g.conn: "nil" or "open"
    pc,          \* where the call in progress is: in connect "hello", "resume",
                 \* "resume answer", "sleep", "identify" or "identify answer",
                 \* in Listen's call of next "listen"; "out" between calls
    parentDone,  \* the caller's context is done
    cancelled,   \* the context of next's errgroup is
    outcome,     \* how the call ends: "none" yet; with an "event"; "failed", with an error
                 \* of a read, a write or the context; "rejected", what came is no good:
                 \* not a payload, not the one expected, or no acknowledgement in time
    rd,          \* reading: "off", "enter" or, in ReadMessage, "blocked"; "offer" when next
                 \* has something for its heartbeat goroutine
    wr,          \* writing: "off", "enter", in WriteMessage "clear", then "blocked";
                 \* "select" when the heartbeat goroutine waits
    fired,       \* the watcher of the read or write in progress has acted
    late,        \* a watcher left behind: "none", or of which context: the "parent", the
                 \* "group" in progress, or one that has "ended"
    \* of the connection
    deadline,    \* its deadline for reads or writes has passed
    broken,      \* reads or writes fail from now on
    link,        \* "up", "stuck" (nothing moves, nobody notices) or "down"
    \* bookkeeping
    overwritten, \* WriteMessage cleared the deadline its watcher had set
    selfharm,    \* this connection was hit by a watcher left behind or by that of a
                 \* read that succeeded, or a write on it was cut short
    panicked,
    dials,
    faults

callVars == <<pc, parentDone, cancelled, outcome>>
connVars == <<deadline, broken, link, selfharm>>

vars == <<conn, callVars, rd, wr, fired, late, connVars, overwritten, panicked, dials, faults>>

TypeOK ==
    /\ conn \in {"nil", "open"} /\ pc \in Phases
    /\ parentDone \in BOOLEAN /\ cancelled \in BOOLEAN
    /\ outcome \in {"none", "event", "failed", "rejected"}
    /\ rd \in {"off", "enter", "blocked", "offer"}
    /\ wr \in {"off", "enter", "clear", "blocked", "select"}
    /\ fired \in [Ops -> BOOLEAN] /\ late \in [Ops -> Contexts]
    /\ deadline \in [Ops -> BOOLEAN] /\ broken \in [Ops -> BOOLEAN]
    /\ link \in {"up", "stuck", "down"}
    /\ overwritten \in BOOLEAN /\ selfharm \in BOOLEAN /\ panicked \in BOOLEAN
    /\ dials \in 0..MaxDials /\ faults \in 0..MaxFaults
    \* a call in progress has a connection to work on, and only next two goroutines
    /\ pc # "out" => conn = "open"
    /\ pc \notin Group => rd \notin {"offer"} /\ wr # "select" /\ (rd = "off" \/ wr = "off")

Neither == [o \in Ops |-> FALSE]

Init ==
    /\ conn = "nil" /\ pc = "out" /\ parentDone = FALSE /\ cancelled = FALSE
    /\ outcome = "none" /\ rd = "off" /\ wr = "off"
    /\ fired = Neither /\ late = [o \in Ops |-> "none"]
    /\ deadline = Neither /\ broken = Neither /\ link = "down"
    /\ overwritten = FALSE /\ selfharm = FALSE /\ panicked = FALSE
    /\ dials = 0 /\ faults = 0

Fault == faults < MaxFaults /\ faults' = faults + 1

ctxDone == parentDone \/ cancelled

----------------------------------------------------------------------------
(* The callers: connect, next and Close *)

\* The call goes on at p.
Goto(p) ==
    /\ pc' = p
    /\ rd' = IF p \in Group \cup {"hello"} THEN "enter" ELSE "off"
    /\ wr' = CASE p \in Group -> "select"
              [] p \in {"resume", "identify"} -> "enter"
              [] OTHER -> "off"

Begin(p) ==
    /\ pc = "out" /\ Goto(p)
    /\ parentDone' = FALSE /\ cancelled' = FALSE /\ outcome' = "none"
    /\ UNCHANGED <<fired, late, overwritten, panicked, faults>>

\* connect dials, then reads Hello.  (A panic, with no call in progress, ends the
\* program.)
Connect ==
    /\ conn = "nil" /\ ~panicked /\ dials < MaxDials
    /\ Begin("hello")
    /\ conn' = "open" /\ dials' = dials + 1
    /\ deadline' = Neither /\ broken' = Neither /\ link' = "up" /\ selfharm' = FALSE

\* Listen calls next on the connection it has.
Listen ==
    /\ conn = "open"
    /\ Begin("listen")
    /\ UNCHANGED <<conn, connVars, dials>>

\* Seeded bug: the last goroutine to end decides, not the first.
Ends_last(o) ==
    /\ outcome' = o
    /\ cancelled' = (pc \in Group)

\* The call, or a goroutine of next, ends: next's errgroup keeps the first error
\* and cancels its context.
Ends(o) ==
    /\ outcome' = IF outcome = "none" THEN o ELSE outcome
    /\ cancelled' = (pc \in Group)

\* The goroutines are over.  An event ends the call of Listen; connect is done with
\* it, goes on to identify itself when it says that the session cannot be resumed,
\* or finds it no good.  A call without an event closes the connection.  When next
\* returns, and with the call, contexts are cancelled.
Return ==
    /\ pc # "out" /\ rd = "off" /\ wr = "off" /\ outcome # "none"
    /\ \/ outcome = "event" /\ Goto("out") /\ UNCHANGED <<conn, outcome>>
       \/ /\ outcome = "event" /\ pc = "resume answer"
          /\ Goto("sleep") /\ outcome' = "none" /\ UNCHANGED conn
       \/ /\ outcome = "event" /\ pc # "listen"
          /\ Goto("out") /\ outcome' = "rejected" /\ conn' = "nil"
       \/ outcome # "event" /\ Goto("out") /\ conn' = "nil" /\ UNCHANGED outcome
    /\ cancelled' = FALSE
    /\ late' = [o \in Ops |-> IF late[o] = "none" \/ (late[o] = "parent" /\ pc' = "sleep")
                              THEN late[o] ELSE "ended"]
    /\ UNCHANGED <<parentDone, fired, connVars, overwritten, panicked, dials, faults>>

\* connect waits a few seconds before it identifies itself.
SleepEnds ==
    /\ pc = "sleep" /\ outcome = "none"
    /\ Goto("identify")
    /\ UNCHANGED <<conn, parentDone, cancelled, outcome, fired, late, connVars, overwritten,
                   panicked, dials, faults>>

SleepCancelled ==
    /\ pc = "sleep" /\ outcome = "none" /\ parentDone
    /\ Ends("failed")
    /\ UNCHANGED <<conn, pc, parentDone, rd, wr, fired, late, connVars, overwritten, panicked,
                   dials, faults>>

\* The application calls Close, which takes the connection from everybody.
Close ==
    /\ pc = "out" /\ conn = "open"
    /\ conn' = "nil"
    /\ UNCHANGED <<callVars, rd, wr, fired, late, connVars, overwritten, panicked, dials, faults>>

Cancel ==
    /\ pc # "out" /\ ~parentDone
    /\ Fault
    /\ parentDone' = TRUE
    /\ UNCHANGED <<conn, pc, cancelled, outcome, rd, wr, fired, late, connVars, overwritten,
                   panicked, dials>>

----------------------------------------------------------------------------
(* The heartbeat goroutine of next: its select *)

\* The ticker has ticked.
HeartbeatDue ==
    /\ wr = "select"
    /\ wr' = "enter"
    /\ UNCHANGED <<conn, callVars, rd, fired, late, connVars, overwritten, panicked, dials, faults>>

\* The ticker has ticked and an acknowledgement is missing.
HeartbeatMissing ==
    /\ wr = "select"
    /\ wr' = "off" /\ Ends("rejected")
    /\ UNCHANGED <<conn, pc, parentDone, rd, fired, late, connVars, overwritten, panicked, dials,
                   faults>>

\* The other goroutine hands it an acknowledgement, or a heartbeat to answer.
HeartbeatHanded ==
    /\ rd = "offer" /\ wr = "select"
    /\ rd' = "enter" /\ wr' \in {"select", "enter"}
    /\ UNCHANGED <<conn, callVars, fired, late, connVars, overwritten, panicked, dials, faults>>

HeartbeatStops ==
    /\ wr = "select" /\ ctxDone
    /\ wr' = "off"
    /\ UNCHANGED <<conn, callVars, rd, fired, late, connVars, overwritten, panicked, dials, faults>>

HandingCancelled ==
    /\ rd = "offer" /\ ctxDone
    /\ rd' = "off" /\ Ends("failed")
    /\ UNCHANGED <<conn, pc, parentDone, wr, fired, late, connVars, overwritten, panicked, dials,
                   faults>>

----------------------------------------------------------------------------
(* read and write *)

\* A call that is over leaves its watcher behind unless that has run: if it has
\* acted, or waits in its select and is woken by the end of the call.
Leaves(o) ==
    /\ fired' = [fired EXCEPT ![o] = FALSE]
    /\ \/ UNCHANGED late
       \/ ~fired[o] /\ late[o] = "none" /\ late' = [late EXCEPT ![o] = IF pc \in Group THEN "group" ELSE "parent"]

ReadRefused ==
    /\ rd = "enter" /\ ctxDone
    /\ rd' = "off" /\ Ends("failed")
    /\ UNCHANGED <<conn, pc, parentDone, wr, fired, late, connVars, overwritten, panicked, dials,
                   faults>>

ReadStarts ==
    /\ rd = "enter" /\ ~ctxDone
    /\ rd' = "blocked"
    /\ UNCHANGED <<conn, callVars, wr, fired, late, connVars, overwritten, panicked, dials, faults>>

\* A message arrives, or had arrived in the buffer before the deadline passed.  It
\* may be no payload, or not Hello.  After Hello, connect resumes its session or
\* identifies itself; next returns an event, and hands anything that is about
\* heartbeats to its other goroutine.
ReadReturns ==
    /\ rd = "blocked" /\ link = "up" /\ ~broken["read"]
    /\ Leaves("read")
    /\ \/ rd' = "off" /\ Ends("rejected") /\ UNCHANGED <<pc, wr>>
       \/ /\ pc = "hello" /\ \E p \in {"resume", "identify"} : Goto(p)
          /\ UNCHANGED <<outcome, cancelled>>
       \/ pc \in Group /\ rd' = "off" /\ Ends("event") /\ UNCHANGED <<pc, wr>>
       \/ pc \in Group /\ rd' = "offer" /\ UNCHANGED <<pc, wr, outcome, cancelled>>
    /\ selfharm' = (selfharm \/ fired["read"])
    /\ UNCHANGED <<conn, parentDone, deadline, broken, link, overwritten, panicked, dials, faults>>

ReadFails ==
    /\ rd = "blocked" /\ (deadline["read"] \/ broken["read"] \/ link = "down")
    /\ Leaves("read")
    /\ rd' = "off" /\ broken' = [broken EXCEPT !["read"] = TRUE] /\ Ends("failed")
    /\ UNCHANGED <<conn, pc, parentDone, wr, deadline, link, selfharm, overwritten, panicked,
                   dials, faults>>

WriteRefused ==
    /\ wr = "enter" /\ ctxDone
    /\ wr' = "off" /\ Ends("failed")
    /\ UNCHANGED <<conn, pc, parentDone, rd, fired, late, connVars, overwritten, panicked, dials,
                   faults>>

WriteStarts ==
    /\ wr = "enter" /\ ~ctxDone
    /\ wr' = "clear"
    /\ UNCHANGED <<conn, callVars, rd, fired, late, connVars, overwritten, panicked, dials, faults>>

\* WriteMessage clears the deadline, whoever has set it, and writes.
DeadlineCleared ==
    /\ wr = "clear" /\ ~broken["write"]
    /\ wr' = "blocked"
    /\ deadline' = [deadline EXCEPT !["write"] = FALSE] /\ overwritten' = fired["write"]
    /\ UNCHANGED <<conn, callVars, rd, fired, late, broken, link, selfharm, panicked, dials, faults>>

WriteReturns ==
    /\ wr = "blocked" /\ link = "up" /\ ~deadline["write"]
    /\ Leaves("write")
    /\ \/ pc = "resume" /\ Goto("resume answer")
       \/ pc = "identify" /\ Goto("identify answer")
       \/ pc \in Group /\ wr' = "select" /\ UNCHANGED <<pc, rd>>
    /\ overwritten' = FALSE
    /\ UNCHANGED <<conn, parentDone, cancelled, outcome, connVars, panicked, dials, faults>>

\* The frame may have been cut.  The library refuses all later writes.
WriteFails ==
    /\ \/ wr = "clear" /\ broken["write"]
       \/ wr = "blocked" /\ (deadline["write"] \/ link = "down")
    /\ Leaves("write")
    /\ wr' = "off" /\ broken' = [broken EXCEPT !["write"] = TRUE] /\ Ends("failed")
    /\ overwritten' = FALSE /\ selfharm' = (selfharm \/ ctxDone)
    /\ UNCHANGED <<conn, pc, parentDone, rd, deadline, link, panicked, dials, faults>>

----------------------------------------------------------------------------
(* The watchers *)

working(o) == IF o = "read" THEN rd = "blocked" ELSE wr \in {"clear", "blocked"}

\* Seeded bug: the watcher of a write sets the read deadline.
WatcherFires_wrongDeadline(o) ==
    /\ working(o) /\ ctxDone /\ ~fired[o]
    /\ fired' = [fired EXCEPT ![o] = TRUE]
    /\ deadline' = [deadline EXCEPT !["read"] = TRUE]
    /\ UNCHANGED <<conn, callVars, rd, wr, late, broken, link, selfharm, overwritten, panicked,
                   dials, faults>>

\* The context is done while the read or write is in progress.
WatcherFires(o) ==
    /\ working(o) /\ ctxDone /\ ~fired[o]
    /\ fired' = [fired EXCEPT ![o] = TRUE]
    /\ deadline' = [deadline EXCEPT ![o] = TRUE]
    /\ UNCHANGED <<conn, callVars, rd, wr, late, broken, link, selfharm, overwritten, panicked,
                   dials, faults>>

\* A watcher left behind finds its context done.  It acts on g.conn: the
\* connection of a later call, or nil, which panics.  (The usual caller cancels
\* its context when its call is over, as next's errgroup does.)
LateWatcherFires(o) ==
    /\ late[o] = "ended" \/ (late[o] = "group" /\ ctxDone) \/ (late[o] = "parent" /\ parentDone)
    /\ late' = [late EXCEPT ![o] = "none"]
    /\ \/ /\ conn = "open"
          /\ deadline' = [deadline EXCEPT ![o] = TRUE] /\ selfharm' = TRUE
          /\ UNCHANGED panicked
       \/ /\ conn = "nil"
          /\ panicked' = TRUE
          /\ UNCHANGED <<deadline, selfharm>>
    /\ UNCHANGED <<conn, callVars, rd, wr, fired, broken, link, overwritten, dials, faults>>

\* A watcher left behind finds its call over.
LateWatcherEnds(o) ==
    /\ late[o] # "none"
    /\ late' = [late EXCEPT ![o] = "none"]
    /\ UNCHANGED <<conn, callVars, rd, wr, fired, connVars, overwritten, panicked, dials, faults>>

\* External: the network.
LinkFails ==
    /\ conn = "open" /\ link = "up"
    /\ Fault
    /\ link' \in {"stuck", "down"}
    /\ UNCHANGED <<conn, callVars, rd, wr, fired, late, deadline, broken, selfharm, overwritten,
                   panicked, dials>>

----------------------------------------------------------------------------

Heartbeat ==
    HeartbeatDue \/ HeartbeatMissing \/ HeartbeatHanded \/ HeartbeatStops \/ HandingCancelled

Read == ReadRefused \/ ReadStarts \/ ReadReturns \/ ReadFails

Write == WriteRefused \/ WriteStarts \/ DeadlineCleared \/ WriteReturns \/ WriteFails

Caller == Connect \/ Listen \/ Return \/ SleepEnds \/ SleepCancelled \/ Close

Watcher == \E o \in Ops : WatcherFires(o) \/ LateWatcherFires(o) \/ LateWatcherEnds(o)

Next == Caller \/ Cancel \/ Heartbeat \/ Read \/ Write \/ Watcher \/ LinkFails

Spec == Init /\ [][Next]_vars

\* Goroutines run; a read or write that can go on does.
FairSpec ==
    /\ Spec
    /\ WF_vars(Return) /\ WF_vars(SleepCancelled) /\ WF_vars(Read) /\ WF_vars(Write)
    /\ WF_vars(HeartbeatStops) /\ WF_vars(HandingCancelled)
    /\ \A o \in Ops : WF_vars(WatcherFires(o))

----------------------------------------------------------------------------
(* Properties *)

\* The write whose deadline was set before WriteMessage cleared it (the comment at
\* gateway.go:568), on a network that may carry nothing more.
held == overwritten /\ wr = "blocked"

\* A call whose context is done returns, and next comes to its end once the context
\* of its group is done, even when the network carries nothing more: the watchers
\* cut the read and the write short (gateway.go:512-519, 561-571), and neither
\* goroutine of next waits for the other (gateway.go:253, 268-278).  The one
\* exception is that of the comment at gateway.go:568.
CancelReturns ==
    /\ pc # "out" /\ parentDone ~> pc = "out" \/ held
    /\ cancelled ~> ~cancelled \/ held

\* A read, a write or the context is the error with which a call of connect or
\* Listen ends only when the caller cancelled it, the network failed, or by what the
\* client did to its own connection: a watcher left behind by an earlier read or
\* write set a deadline on it, a cancelled call read on all the same, or the end
\* of a call of next cut the write of a heartbeat short.  In particular an event,
\* a payload that is no good and a missing acknowledgement (gateway.go:234-236,
\* 281-287, 529-531) end the call as what they are, whatever becomes of the other
\* goroutine's read or write.  (Those ends, "event" and "rejected", are the doing of
\* the service.)
FailsForAReason ==
    [][outcome' = "failed" /\ outcome # "failed"
           => parentDone \/ link # "up" \/ selfharm]_vars

\* The claim of gateway.go:291, "Close releases any resources associated with
\* the gateway connection": nothing uses the connection after Close.
NothingUsesClosed == ~panicked
==============================================================================
