------------------------------- MODULE Gateway -------------------------------
(***************************************************************************)
(* The client's side of the Discord gateway (gateway.go): the calls Listen,*)
(* WaitForReady and Close, the connect/resume/identify handshake, the      *)
(* retry loop of ensureConn and the session cursor that makes events       *)
(* survive a reconnect.  The code runs in the caller's goroutine, so one   *)
(* program counter is enough; the two goroutines inside Gateway.next are   *)
(* the subject of GatewayNext, and here next() either hands over the first *)
(* message of the stream that is not a heartbeat or fails.                 *)
(*                                                                         *)
(* Discord's gateway service and the network are external.  The service    *)
(* keeps one log of dispatched events per session, replays it after a      *)
(* Resume and may refuse, invalidate or ask to reconnect; the network may  *)
(* lose a connection together with any suffix of the bytes in flight.      *)
(***************************************************************************)
EXTENDS Naturals, Sequences

CONSTANTS
    Sessions,    \* session identifiers the service may hand out
    NoSession,   \* the empty session ID, ""
    NoEvent,     \* a nil *GatewayPayload
    MaxLog,      \* bound: events the service dispatches on its own, per session
    MaxFaults    \* bound: failures, refusals, cancellations and Close calls

ASSUME GatewayAssumption ==
    /\ NoSession \notin Sessions
    /\ MaxLog \in Nat
    /\ MaxFaults \in Nat

VARIABLES
    \* fields of the Gateway struct
    conn,             \* g.conn != nil
    heartbeat,        \* g.heartbeat != nil
    bufferedEvent,    \* g.bufferedEvent
    sessionID,        \* g.sessionID
    sequenceNumber,   \* g.sequenceNumber
    \* the call in progress
    pc,               \* where the calling goroutine is
    api,              \* which of Listen and WaitForReady is running
    ctxDone,          \* the call's context is done
    \* external: the websocket and the service
    link,             \* the websocket is intact
    s2c,              \* payloads on their way to the client
    c2s,              \* identify and resume payloads on their way to the service
    attached,         \* the session whose events flow on this websocket
    log,              \* per session: names of the events dispatched
    valid,            \* per session: the service still knows it
    \* history and bookkeeping
    cursor,           \* per session: position of the last entry consumed
    received,         \* what Listen returned, as pairs <<session, position>>
    tickers,          \* running time.Tickers
    sockets,          \* open websocket connections of the client
    faults            \* faults so far

structVars == <<conn, heartbeat, bufferedEvent, sessionID, sequenceNumber>>
callVars   == <<pc, api, ctxDone>>
netVars    == <<link, s2c, c2s, attached>>
srvVars    == <<log, valid>>
seenVars   == <<cursor, received>>
resVars    == <<tickers, sockets>>

vars == <<structVars, callVars, netVars, srvVars, seenVars, resVars, faults>>

(***************************************************************************)
(* Payloads.  A READY event carries the session ID in its data; the field  *)
(* may be missing (READY_noid, as fakediscord sends it) or the data may    *)
(* not parse (READY_bad).                                                  *)
(***************************************************************************)
ReadyNames == {"READY", "READY_noid", "READY_bad"}
EventNames == ReadyNames \cup {"RESUMED", "EVENT"}

Dispatch(s, n, e) == [op |-> "Dispatch", sess |-> s, seq |-> n, event |-> e]
Hello             == [op |-> "Hello"]
Reconnect         == [op |-> "Reconnect"]
InvalidSession(d) == [op |-> "InvalidSession", resumable |-> d]
OtherPayload      == [op |-> "Other"]
Identify          == [op |-> "Identify"]
Resume(s, n)      == [op |-> "Resume", sess |-> s, seq |-> n]

Payloads == [op : {"Dispatch"}, sess : Sessions, seq : Nat, event : EventNames]
            \cup {Hello, Reconnect, OtherPayload}
            \cup {InvalidSession(d) : d \in BOOLEAN}

\* A nil payload is not a payload.
ASSUME NilAssumption == NoEvent \notin Payloads

Requests == {Identify} \cup [op : {"Resume"}, sess : Sessions, seq : Nat]

Locations == {"idle", "listen", "connect", "hello", "auth", "resume",
              "reidentify", "identify", "retry", "ready", "next"}

TypeOK ==
    /\ conn \in BOOLEAN /\ heartbeat \in BOOLEAN
    /\ bufferedEvent \in Payloads \cup {NoEvent}
    /\ sessionID \in Sessions \cup {NoSession}
    /\ sequenceNumber \in Nat
    /\ pc \in Locations /\ api \in {"Listen", "WaitForReady"} /\ ctxDone \in BOOLEAN
    /\ link \in BOOLEAN
    /\ s2c \in Seq(Payloads) /\ c2s \in Seq(Requests)
    /\ attached \in Sessions \cup {NoSession}
    /\ log \in [Sessions -> Seq(EventNames)] /\ valid \in [Sessions -> BOOLEAN]
    /\ cursor \in [Sessions -> Nat] /\ received \in Seq(Sessions \X Nat)
    /\ tickers \in Nat /\ sockets \in Nat /\ faults \in 0..MaxFaults

Init ==
    /\ conn = FALSE /\ heartbeat = FALSE /\ bufferedEvent = NoEvent
    /\ sessionID = NoSession /\ sequenceNumber = 0
    /\ pc = "idle" /\ api = "Listen" /\ ctxDone = FALSE
    /\ link = FALSE /\ s2c = <<>> /\ c2s = <<>> /\ attached = NoSession
    /\ log = [s \in Sessions |-> <<>>] /\ valid = [s \in Sessions |-> FALSE]
    /\ cursor = [s \in Sessions |-> 0] /\ received = <<>>
    /\ tickers = 0 /\ sockets = 0 /\ faults = 0

Fault == faults < MaxFaults /\ faults' = faults + 1

----------------------------------------------------------------------------
(* The application *)

CallListen ==
    /\ pc = "idle"
    /\ pc' = "listen" /\ api' = "Listen" /\ ctxDone' = FALSE
    /\ UNCHANGED <<structVars, netVars, srvVars, seenVars, resVars, faults>>

CallWaitForReady ==
    /\ pc = "idle"
    /\ pc' = "connect" /\ api' = "WaitForReady" /\ ctxDone' = FALSE
    /\ UNCHANGED <<structVars, netVars, srvVars, seenVars, resVars, faults>>

\* The context of the running call is cancelled.
Cancel ==
    /\ pc # "idle" /\ ~ctxDone
    /\ ctxDone' = TRUE
    /\ Fault
    /\ UNCHANGED <<structVars, pc, api, netVars, srvVars, seenVars, resVars>>

----------------------------------------------------------------------------
(* closeWithCode, and Close, which is closeWithCode with another code *)

\* External: the websocket goes away, with everything on it.
Disconnect == link' = FALSE /\ s2c' = <<>> /\ c2s' = <<>> /\ attached' = NoSession

\* Seeded bug: the ticker is forgotten without being stopped.
stopHeartbeat_leaks == heartbeat' = FALSE /\ tickers' = tickers

\* Seeded bug: without the nil check a gateway that never connected stops a
\* ticker that does not exist.
stopHeartbeat_unchecked == heartbeat' = FALSE /\ tickers' = tickers - 1

stopHeartbeat ==
    /\ heartbeat' = FALSE
    /\ tickers' = IF heartbeat THEN tickers - 1 ELSE tickers

closeSocket == conn' = FALSE /\ sockets' = sockets - 1 /\ Disconnect

\* Seeded bug: returning as soon as the close message cannot be written.
closeWithCode_earlyReturn ==
    /\ stopHeartbeat
    /\ \/ conn /\ link /\ closeSocket
       \/ ~(conn /\ link) /\ UNCHANGED <<conn, sockets, netVars>>

closeWithCode ==
    /\ stopHeartbeat
    /\ \/ conn /\ closeSocket
       \/ ~conn /\ UNCHANGED <<conn, sockets, netVars>>

Close ==
    /\ pc = "idle"
    /\ Fault
    /\ closeWithCode
    /\ UNCHANGED <<bufferedEvent, sessionID, sequenceNumber, callVars, srvVars, seenVars>>

----------------------------------------------------------------------------
(* Reading and writing the websocket *)

\* read() or next() hands over a payload whose opcode is in ops: Head(s2c).
Receives(ops) == s2c # <<>> /\ Head(s2c).op \in ops /\ s2c' = Tail(s2c)

\* read() or next() fails: the websocket is gone and drained, the context is
\* done, or (a fault) the bytes do not parse or a heartbeat went wrong.
ReadFails ==
    \/ ctxDone /\ UNCHANGED faults
    \/ ~link /\ s2c = <<>> /\ UNCHANGED faults
    \/ Fault

\* read() or next() hands over a payload the caller has no use for here.
ReadsOtherThan(ops) == s2c # <<>> /\ Head(s2c).op \notin ops /\ UNCHANGED faults

\* write() accepts a payload; on a broken websocket it may still be accepted.
Write(m) == ~ctxDone /\ c2s' = IF link THEN Append(c2s, m) ELSE c2s

----------------------------------------------------------------------------
(* connect: dial and wait for Hello *)

\* g.conn != nil: nothing to do.
ConnectReuse ==
    /\ pc = "connect" /\ conn
    /\ pc' = "ready"
    /\ UNCHANGED <<structVars, api, ctxDone, netVars, srvVars, seenVars, resVars, faults>>

Dial ==
    /\ pc = "connect" /\ ~conn /\ ~ctxDone
    /\ bufferedEvent' = NoEvent
    /\ conn' = TRUE /\ sockets' = sockets + 1
    /\ link' = TRUE /\ c2s' = <<>> /\ attached' = NoSession
    /\ \/ s2c' = <<Hello>> /\ UNCHANGED faults
       \/ s2c' = <<OtherPayload>> /\ Fault
    /\ pc' = "hello"
    /\ UNCHANGED <<heartbeat, sessionID, sequenceNumber, api, ctxDone, srvVars, seenVars, tickers>>

DialFails ==
    /\ pc = "connect" /\ ~conn
    /\ (ctxDone /\ UNCHANGED faults) \/ Fault
    /\ bufferedEvent' = NoEvent
    /\ pc' = "retry"
    /\ UNCHANGED <<conn, heartbeat, sessionID, sequenceNumber, api, ctxDone, netVars,
                   srvVars, seenVars, resVars>>

ReadHello ==
    /\ pc = "hello"
    /\ Receives({"Hello"})
    /\ heartbeat' = TRUE /\ tickers' = tickers + 1
    /\ pc' = "auth"
    /\ UNCHANGED <<conn, bufferedEvent, sessionID, sequenceNumber, api, ctxDone, link, c2s,
                   attached, srvVars, seenVars, sockets, faults>>

\* No Hello: the deferred function that stops the ticker is not registered yet.
HelloFails ==
    /\ pc = "hello"
    /\ ReadFails \/ ReadsOtherThan({"Hello"})
    /\ closeSocket
    /\ pc' = "retry"
    /\ UNCHANGED <<heartbeat, bufferedEvent, sessionID, sequenceNumber, api, ctxDone, srvVars,
                   seenVars, tickers>>

----------------------------------------------------------------------------
(* connect: resume the session or identify *)

\* The deferred functions of connect, run when it returns an error.
connectFailed ==
    /\ stopHeartbeat
    /\ closeSocket
    /\ pc' = "retry"
    /\ UNCHANGED <<bufferedEvent, sessionID, sequenceNumber, api, ctxDone, srvVars, seenVars>>

SendResume ==
    /\ pc = "auth" /\ sessionID # NoSession
    /\ Write(Resume(sessionID, sequenceNumber))
    /\ pc' = "resume"
    /\ UNCHANGED <<structVars, api, ctxDone, link, s2c, attached, srvVars, seenVars, resVars, faults>>

SendIdentify ==
    /\ pc = "auth" /\ sessionID = NoSession
    /\ Write(Identify)
    /\ pc' = "identify"
    /\ UNCHANGED <<structVars, api, ctxDone, link, s2c, attached, srvVars, seenVars, resVars, faults>>

WriteFails ==
    /\ pc = "auth" /\ (ctxDone \/ ~link)
    /\ connectFailed
    /\ UNCHANGED faults

\* Seeded bug: the cursor moves as soon as the event is buffered.
bufferEvent_early(m) == bufferedEvent' = m /\ sequenceNumber' = m.seq /\ UNCHANGED sessionID

\* connect keeps the first event for Listen; the session cursor moves only
\* when Listen hands the event out.
bufferEvent(m) == bufferedEvent' = m /\ UNCHANGED <<sessionID, sequenceNumber>>

ResumeAccepted ==
    /\ pc = "resume"
    /\ Receives({"Dispatch"})
    /\ bufferEvent(Head(s2c))
    /\ pc' = "ready"
    /\ UNCHANGED <<conn, heartbeat, api, ctxDone, link, c2s, attached, srvVars, seenVars, resVars, faults>>

\* Whatever the payload's data says, the session is given up.
ResumeRejected ==
    /\ pc = "resume"
    /\ Receives({"InvalidSession"})
    /\ sessionID' = NoSession
    /\ pc' = "reidentify"
    /\ UNCHANGED <<conn, heartbeat, bufferedEvent, sequenceNumber, api, ctxDone, link, c2s,
                   attached, srvVars, seenVars, resVars, faults>>

ResumeFails ==
    /\ pc = "resume"
    /\ ReadFails \/ ReadsOtherThan({"Dispatch", "InvalidSession"})
    /\ connectFailed

\* The pause of one to five seconds is over: go on to identify.
ReidentifyTimer ==
    /\ pc = "reidentify"
    /\ pc' = "auth"
    /\ UNCHANGED <<structVars, api, ctxDone, netVars, srvVars, seenVars, resVars, faults>>

ReidentifyCancelled ==
    /\ pc = "reidentify" /\ ctxDone
    /\ connectFailed
    /\ UNCHANGED faults

IsReady(m) == m.op = "Dispatch" /\ m.event \in ReadyNames

IdentifyAccepted ==
    /\ pc = "identify"
    /\ Receives({"Dispatch"}) /\ IsReady(Head(s2c))
    /\ bufferEvent(Head(s2c))
    /\ pc' = "ready"
    /\ UNCHANGED <<conn, heartbeat, api, ctxDone, link, c2s, attached, srvVars, seenVars, resVars, faults>>

IdentifyFails ==
    /\ pc = "identify"
    /\ \/ ReadFails
       \/ s2c # <<>> /\ ~IsReady(Head(s2c)) /\ UNCHANGED faults
    /\ connectFailed

----------------------------------------------------------------------------
(* ensureConn *)

\* The five-second timer fires: connect again.
RetryTimer ==
    /\ pc = "retry"
    /\ pc' = "connect"
    /\ UNCHANGED <<structVars, api, ctxDone, netVars, srvVars, seenVars, resVars, faults>>

\* Seeded bug: the retry loop waits for its timer only.
RetryCancelled_absent == FALSE

\* The context is done: ensureConn, and the call, return connect's error.
RetryCancelled ==
    /\ pc = "retry" /\ ctxDone
    /\ pc' = "idle"
    /\ UNCHANGED <<structVars, api, ctxDone, netVars, srvVars, seenVars, resVars, faults>>

WaitForReadyReturns ==
    /\ pc = "ready" /\ api = "WaitForReady"
    /\ pc' = "idle"
    /\ UNCHANGED <<structVars, api, ctxDone, netVars, srvVars, seenVars, resVars, faults>>

----------------------------------------------------------------------------
(* Listen *)

ListenTop ==
    /\ pc = "listen"
    /\ pc' = IF ctxDone THEN "idle" ELSE "connect"
    /\ UNCHANGED <<structVars, api, ctxDone, netVars, srvVars, seenVars, resVars, faults>>

\* Seeded bug: RESUMED does not count as an event of the session.
updateSession_skipsResumed(m) ==
    /\ sessionID' = IF m.event \notin ReadyNames THEN sessionID
                    ELSE IF m.event = "READY" THEN m.sess ELSE NoSession
    /\ sequenceNumber' = IF m.event \in {"READY_bad", "RESUMED"} THEN sequenceNumber ELSE m.seq

\* READY sets the session, or clears it when its data does not say which; a
\* READY that does not parse leaves the sequence number alone.
updateSession(m) ==
    /\ sessionID' = IF m.event \notin ReadyNames THEN sessionID
                    ELSE IF m.event = "READY" THEN m.sess ELSE NoSession
    /\ sequenceNumber' = IF m.event = "READY_bad" THEN sequenceNumber ELSE m.seq

\* Listen takes the event m: RESUMED sends it round its loop again, any other
\* event is returned to the application.
HandOut(m) ==
    /\ updateSession(m)
    /\ cursor' = [cursor EXCEPT ![m.sess] = m.seq]
    /\ received' = IF m.event = "RESUMED" THEN received ELSE Append(received, <<m.sess, m.seq>>)
    /\ pc' = IF m.event = "RESUMED" THEN "listen" ELSE "idle"

ListenBuffered ==
    /\ pc = "ready" /\ api = "Listen" /\ bufferedEvent # NoEvent
    /\ bufferedEvent' = NoEvent
    /\ HandOut(bufferedEvent)
    /\ UNCHANGED <<conn, heartbeat, api, ctxDone, netVars, srvVars, resVars, faults>>

ListenNext ==
    /\ pc = "ready" /\ api = "Listen" /\ bufferedEvent = NoEvent
    /\ pc' = "next"
    /\ UNCHANGED <<structVars, api, ctxDone, netVars, srvVars, seenVars, resVars, faults>>

ListenDispatch ==
    /\ pc = "next"
    /\ Receives({"Dispatch"})
    /\ HandOut(Head(s2c))
    /\ UNCHANGED <<conn, heartbeat, bufferedEvent, api, ctxDone, link, c2s, attached, srvVars,
                   resVars, faults>>

\* Reconnect and Invalid Session close the websocket; the session is forgotten
\* only when Invalid Session does not say that it may be resumed.
ListenReconnect ==
    /\ pc = "next"
    /\ s2c # <<>> /\ Head(s2c).op \in {"Reconnect", "InvalidSession"}
    /\ sessionID' = IF Head(s2c) = InvalidSession(FALSE) THEN NoSession ELSE sessionID
    /\ closeWithCode
    /\ pc' = "listen"
    /\ UNCHANGED <<bufferedEvent, sequenceNumber, api, ctxDone, srvVars, seenVars, faults>>

\* next() failed, or handed over a payload Listen has no case for.
ListenFails ==
    /\ pc = "next"
    /\ ReadFails \/ ReadsOtherThan({"Dispatch", "Reconnect", "InvalidSession"})
    /\ closeWithCode
    /\ pc' = "listen"
    /\ UNCHANGED <<bufferedEvent, sessionID, sequenceNumber, api, ctxDone, srvVars, seenVars>>

----------------------------------------------------------------------------
(* External: the gateway service and the network *)

\* The service sends payloads down the websocket.
Sends(ms) == s2c' = s2c \o ms

\* Entries from..to of session s, the log being l, as Dispatch payloads.
Replay(s, l, from, to) == [i \in 1..(to + 1 - from) |-> Dispatch(s, from + i - 1, l[from + i - 1])]

SrvIdentify(s) ==
    /\ c2s # <<>> /\ Head(c2s) = Identify
    /\ log[s] = <<>>
    /\ \E e \in ReadyNames :
          /\ (e = "READY" /\ UNCHANGED faults) \/ (e # "READY" /\ Fault)
          /\ log' = [log EXCEPT ![s] = <<e>>]
          /\ Sends(<<Dispatch(s, 1, e)>>)
    /\ valid' = [valid EXCEPT ![s] = TRUE]
    /\ attached' = s
    /\ c2s' = Tail(c2s)
    /\ UNCHANGED <<structVars, callVars, link, seenVars, resVars>>

SrvResume(s) ==
    /\ c2s # <<>> /\ Head(c2s).op = "Resume" /\ Head(c2s).sess = s
    /\ valid[s] /\ Head(c2s).seq <= Len(log[s])
    /\ log' = [log EXCEPT ![s] = Append(@, "RESUMED")]
    /\ Sends(Replay(s, log'[s], Head(c2s).seq + 1, Len(log'[s])))
    /\ attached' = s
    /\ c2s' = Tail(c2s)
    /\ UNCHANGED <<structVars, callVars, link, valid, seenVars, resVars, faults>>

\* The token, the session or the sequence number is not accepted.
SrvRefuse ==
    /\ c2s # <<>>
    /\ \/ Fault
       \/ /\ Head(c2s).op = "Resume" /\ UNCHANGED faults
          /\ ~valid[Head(c2s).sess] \/ Head(c2s).seq > Len(log[Head(c2s).sess])
    /\ \E d \in BOOLEAN : Sends(<<InvalidSession(d)>>)
    /\ c2s' = Tail(c2s)
    /\ UNCHANGED <<structVars, callVars, link, attached, srvVars, seenVars, resVars>>

\* An event happens, whether or not the client is connected.
SrvPublish(s) ==
    /\ valid[s] /\ Len(log[s]) < MaxLog
    /\ log' = [log EXCEPT ![s] = Append(@, "EVENT")]
    /\ IF attached = s THEN Sends(<<Dispatch(s, Len(log'[s]), "EVENT")>>) ELSE UNCHANGED s2c
    /\ UNCHANGED <<structVars, callVars, link, c2s, attached, valid, seenVars, resVars, faults>>

\* The service asks the client to reconnect, or sends something else.
SrvControl ==
    /\ link /\ attached # NoSession
    /\ Fault
    /\ \E m \in {Reconnect, InvalidSession(TRUE), OtherPayload} : Sends(<<m>>)
    /\ UNCHANGED <<structVars, callVars, link, c2s, attached, srvVars, seenVars, resVars>>

\* The service forgets a session, and says so when it is connected.
SrvInvalidate(s) ==
    /\ valid[s]
    /\ Fault
    /\ valid' = [valid EXCEPT ![s] = FALSE]
    /\ IF attached = s THEN Sends(<<InvalidSession(FALSE)>>) ELSE UNCHANGED s2c
    /\ UNCHANGED <<structVars, callVars, link, c2s, attached, log, seenVars, resVars>>

\* The websocket breaks; the client may still read what had reached it.
Drop ==
    /\ link
    /\ Fault
    /\ link' = FALSE /\ c2s' = <<>> /\ attached' = NoSession
    /\ \E n \in 0..Len(s2c) : s2c' = SubSeq(s2c, 1, n)
    /\ UNCHANGED <<structVars, callVars, srvVars, seenVars, resVars>>

----------------------------------------------------------------------------

Connect ==
    \/ ConnectReuse \/ Dial \/ DialFails \/ ReadHello \/ HelloFails
    \/ SendResume \/ SendIdentify \/ WriteFails
    \/ ResumeAccepted \/ ResumeRejected \/ ResumeFails
    \/ ReidentifyTimer \/ ReidentifyCancelled
    \/ IdentifyAccepted \/ IdentifyFails

Client ==
    \/ Connect
    \/ RetryTimer \/ RetryCancelled \/ WaitForReadyReturns
    \/ ListenTop \/ ListenBuffered \/ ListenNext
    \/ ListenDispatch \/ ListenReconnect \/ ListenFails

Answer == SrvRefuse \/ \E s \in Sessions : SrvIdentify(s) \/ SrvResume(s)

Environment ==
    \/ SrvControl \/ Drop
    \/ \E s \in Sessions : SrvPublish(s) \/ SrvInvalidate(s)

Next ==
    \/ CallListen \/ CallWaitForReady \/ Cancel \/ Close
    \/ Client
    \/ Answer
    \/ Environment

Spec == Init /\ [][Next]_vars

\* The calling goroutine keeps running, the service answers an identify or
\* resume, and the application calls Listen again and again.  A select with a
\* ready context and a ready timer takes either at random, so the context is
\* not passed over for ever.
FairSpec ==
    /\ Spec
    /\ WF_vars(Client) /\ WF_vars(Answer)
    /\ SF_vars(CallListen) /\ SF_vars(RetryCancelled)

----------------------------------------------------------------------------
(* Properties *)

\* The abstract specification: see EventStream.
Stream == INSTANCE EventStream

\* Listen implements an event stream: across drops, resumes, re-identifies,
\* cancelled calls and Close, the application gets the events of each session
\* in order, none skipped and none twice, because updateSession runs exactly
\* when Listen hands an event out (gateway.go:157-182) and connect resumes from
\* the cursor it leaves (gateway.go:397-403).
EventStreamSpec == Stream!Spec

\* A resume request on the wire asks for exactly what the application has not
\* seen: its sequence number is the position of the last event consumed in
\* that session, never that of a buffered or abandoned one.
ResumeFromCursor ==
    \A i \in 1..Len(c2s) : c2s[i].op = "Resume" => c2s[i].seq = cursor[c2s[i].sess]

\* Every ticker and websocket ever created is the gateway's current one or has
\* been stopped and closed, and once a connection is in use it has its ticker:
\* next() dereferences g.heartbeat and g.conn (gateway.go:233, 500).
ResourcesOwned ==
    /\ tickers = IF heartbeat THEN 1 ELSE 0
    /\ sockets = IF conn THEN 1 ELSE 0
    /\ pc \in {"resume", "reidentify", "identify", "ready", "next"} => conn /\ heartbeat
    /\ pc \in {"idle", "listen", "connect", "retry"} => (conn <=> heartbeat)

\* Once the service and the network behave, an application that keeps calling
\* Listen gets every event of the session the client is in.
CatchesUp ==
    \A s \in Sessions : sessionID = s ~> (sessionID # s \/ cursor[s] = Len(log[s]))

\* A call whose context is done returns: neither the retry loop of ensureConn
\* nor the loop of Listen holds on to it.
CancelReturns == ctxDone /\ pc # "idle" ~> pc = "idle"
=============================================================================
