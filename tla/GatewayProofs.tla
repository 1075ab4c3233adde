---------------------------- MODULE GatewayProofs ----------------------------
(***************************************************************************)
(* Theorems about Gateway, for every set of sessions and every bound.      *)
(***************************************************************************)
EXTENDS Gateway, SequenceTheorems, TLAPS

(***************************************************************************)
(* ResourcesOwned is not inductive: that connect's deferred functions close*)
(* exactly one socket and stop exactly one ticker rests on which of the two*)
(* exist at each point of connect, ensureConn and Listen.                  *)
(***************************************************************************)
Connected == {"auth", "resume", "reidentify", "identify", "ready", "next"}

Held ==
    /\ pc = "hello" => conn = TRUE /\ heartbeat = FALSE
    /\ pc \in Connected => conn = TRUE /\ heartbeat = TRUE
    /\ pc = "retry" => conn = FALSE /\ heartbeat = FALSE
    /\ pc \in {"idle", "listen", "connect"} => conn = heartbeat

Counted ==
    /\ (heartbeat = TRUE /\ tickers = 1) \/ (heartbeat = FALSE /\ tickers = 0)
    /\ (conn = TRUE /\ sockets = 1) \/ (conn = FALSE /\ sockets = 0)

ResInv ==
    /\ conn \in BOOLEAN /\ heartbeat \in BOOLEAN /\ pc \in Locations
    /\ Held
    /\ Counted

----------------------------------------------------------------------------
(* Sockets and tickers *)

\* No connection, no ticker: the initial state of a Gateway.
LEMMA InitRes == Init => ResInv
BY DEF Init, ResInv, Held, Counted, Connected, Locations

\* conn.Close() on the one open socket leaves none.
LEMMA ClosingSocket ==
    ASSUME ResInv, conn = TRUE, closeSocket
    PROVE  conn' = FALSE /\ sockets' = 0
<1>1. sockets = 1
  BY DEF ResInv, Counted
<1> QED
  BY <1>1 DEF closeSocket

\* Stopping the heartbeat leaves no ticker, whether or not there was one.
LEMMA StoppingHeartbeat ==
    ASSUME ResInv, stopHeartbeat
    PROVE  heartbeat' = FALSE /\ tickers' = 0
<1>1. CASE heartbeat = TRUE
  <2>1. tickers = 1 /\ tickers' = tickers - 1
    BY <1>1 DEF ResInv, Counted, stopHeartbeat
  <2> QED
    BY <2>1 DEF stopHeartbeat
<1>2. CASE heartbeat = FALSE
  BY <1>2 DEF ResInv, Counted, stopHeartbeat
<1> QED
  BY <1>1, <1>2 DEF ResInv

\* closeWithCode and the deferred functions of connect release both.
LEMMA Released ==
    ASSUME ResInv, closeWithCode \/ (connectFailed /\ pc \in Connected)
    PROVE  conn' = FALSE /\ sockets' = 0 /\ heartbeat' = FALSE /\ tickers' = 0
<1>1. stopHeartbeat
  BY DEF closeWithCode, connectFailed
<1>2. CASE conn = TRUE
  <2>1. closeSocket
    BY <1>2 DEF closeWithCode, connectFailed
  <2> QED
    BY <1>1, <1>2, <2>1, ClosingSocket, StoppingHeartbeat
<1>3. CASE conn = FALSE
  <2>1. closeWithCode /\ UNCHANGED <<conn, sockets>>
    BY <1>3 DEF closeWithCode, ResInv, Held
  <2> QED
    BY <1>1, <1>3, <2>1, StoppingHeartbeat DEF ResInv, Counted
<1> QED
  BY <1>2, <1>3 DEF ResInv

\* Every step keeps the books of sockets and tickers.
LEMMA NextRes == ResInv /\ [Next]_vars => ResInv'
<1> SUFFICES ASSUME ResInv, [Next]_vars PROVE ResInv'
  OBVIOUS
<1> USE DEF ResInv, Held, Counted, Connected, Locations, structVars, callVars, resVars
<1>1. CASE CallListen
  BY <1>1 DEF CallListen
<1>2. CASE CallWaitForReady
  BY <1>2 DEF CallWaitForReady
<1>3. CASE Cancel
  BY <1>3 DEF Cancel
<1>4. CASE Close
  BY <1>4, Released DEF Close
<1>5. CASE ConnectReuse
  BY <1>5 DEF ConnectReuse
<1>6. CASE Dial
  BY <1>6 DEF Dial
<1>7. CASE DialFails
  BY <1>7 DEF DialFails
<1>8. CASE ReadHello
  BY <1>8 DEF ReadHello
<1>9. CASE HelloFails
  BY <1>9, ClosingSocket DEF HelloFails
<1>10. CASE SendResume
  BY <1>10 DEF SendResume
<1>11. CASE SendIdentify
  BY <1>11 DEF SendIdentify
<1>12. CASE WriteFails
  BY <1>12, Released DEF WriteFails, connectFailed
<1>13. CASE ResumeAccepted
  BY <1>13 DEF ResumeAccepted
<1>14. CASE ResumeRejected
  BY <1>14 DEF ResumeRejected
<1>15. CASE ResumeFails
  BY <1>15, Released DEF ResumeFails, connectFailed
<1>16. CASE ReidentifyTimer
  BY <1>16 DEF ReidentifyTimer
<1>17. CASE ReidentifyCancelled
  BY <1>17, Released DEF ReidentifyCancelled, connectFailed
<1>18. CASE IdentifyAccepted
  BY <1>18 DEF IdentifyAccepted
<1>19. CASE IdentifyFails
  BY <1>19, Released DEF IdentifyFails, connectFailed
<1>20. CASE RetryTimer
  BY <1>20 DEF RetryTimer
<1>21. CASE RetryCancelled
  BY <1>21 DEF RetryCancelled
<1>22. CASE WaitForReadyReturns
  BY <1>22 DEF WaitForReadyReturns
<1>23. CASE ListenTop
  BY <1>23 DEF ListenTop
<1>24. CASE ListenBuffered
  BY <1>24 DEF ListenBuffered, HandOut
<1>25. CASE ListenNext
  BY <1>25 DEF ListenNext
<1>26. CASE ListenDispatch
  BY <1>26 DEF ListenDispatch, HandOut
<1>27. CASE ListenReconnect
  BY <1>27, Released DEF ListenReconnect
<1>28. CASE ListenFails
  BY <1>28, Released DEF ListenFails
<1>29. CASE SrvControl
  BY <1>29 DEF SrvControl
<1>30. CASE SrvRefuse
  BY <1>30 DEF SrvRefuse
<1>31. CASE Drop
  BY <1>31 DEF Drop
<1>32. ASSUME NEW s \in Sessions, SrvIdentify(s) PROVE ResInv'
  BY <1>32 DEF SrvIdentify
<1>33. ASSUME NEW s \in Sessions, SrvResume(s) PROVE ResInv'
  BY <1>33 DEF SrvResume
<1>34. ASSUME NEW s \in Sessions, SrvPublish(s) PROVE ResInv'
  BY <1>34 DEF SrvPublish
<1>35. ASSUME NEW s \in Sessions, SrvInvalidate(s) PROVE ResInv'
  BY <1>35 DEF SrvInvalidate
<1>36. CASE UNCHANGED vars
  BY <1>36 DEF vars
<1> QED
  BY <1>1, <1>2, <1>3, <1>4, <1>5, <1>6, <1>7, <1>8, <1>9, <1>10, <1>11, <1>12, <1>13, <1>14, <1>15, <1>16, <1>17, <1>18, <1>19, <1>20, <1>21, <1>22, <1>23, <1>24, <1>25, <1>26, <1>27, <1>28, <1>29, <1>30, <1>31, <1>32, <1>33, <1>34, <1>35, <1>36 DEF Next, Client, Connect, Answer, Environment

\* No leak and no double close, and a connection in use always has its ticker,
\* whatever the service and the network do to connect, ensureConn, Listen,
\* WaitForReady and Close, for every set of sessions and every bound.
THEOREM ResourcesOwnedAlways == Spec => []ResourcesOwned
<1>1. ResInv => ResourcesOwned
  BY DEF ResInv, Held, Counted, Connected, ResourcesOwned
<1> QED
  BY InitRes, NextRes, <1>1, PTL DEF Spec

----------------------------------------------------------------------------
(* Lemmas about payloads and the websocket *)

\* Every payload the service can send is a payload.
LEMMA PayloadTypes ==
    /\ Hello \in Payloads /\ Reconnect \in Payloads /\ OtherPayload \in Payloads
    /\ \A d \in BOOLEAN : InvalidSession(d) \in Payloads
    /\ \A s \in Sessions, n \in Nat, e \in EventNames : Dispatch(s, n, e) \in Payloads
BY DEF Payloads, Hello, Reconnect, OtherPayload, InvalidSession, Dispatch

\* A dispatch has the fields updateSession reads.
LEMMA DispatchFields ==
    ASSUME NEW m \in Payloads, m.op = "Dispatch"
    PROVE  m.sess \in Sessions /\ m.seq \in Nat /\ m.event \in EventNames
BY DEF Payloads, Hello, Reconnect, OtherPayload, InvalidSession

\* The requests connect writes are requests.
LEMMA RequestTypes ==
    /\ Identify \in Requests
    /\ \A s \in Sessions, n \in Nat : Resume(s, n) \in Requests
BY DEF Requests, Identify, Resume

\* A resume request names a session and a position.
LEMMA ResumeFields ==
    ASSUME NEW r \in Requests, r.op = "Resume"
    PROVE  r.sess \in Sessions /\ r.seq \in Nat
BY DEF Requests, Identify

\* Replaying part of a log produces payloads.
LEMMA ReplayType ==
    ASSUME NEW s \in Sessions, NEW l \in Seq(EventNames), NEW from \in Nat \ {0},
           from <= Len(l) + 1
    PROVE  Replay(s, l, from, Len(l)) \in Seq(Payloads)
<1>1. ASSUME NEW i \in 1..(Len(l) + 1 - from)
      PROVE  Dispatch(s, from + i - 1, l[from + i - 1]) \in Payloads
  <2>1. from + i - 1 \in 1..Len(l)
    OBVIOUS
  <2>2. l[from + i - 1] \in EventNames
    BY <2>1
  <2> QED
    BY <2>1, <2>2, PayloadTypes
<1>2. Len(l) + 1 - from \in Nat
  OBVIOUS
<1> DEFINE n == Len(l) + 1 - from
           f == [i \in 1..n |-> Dispatch(s, from + i - 1, l[from + i - 1])]
<1>3. f \in [1..n -> Payloads]
  BY <1>1
<1>4. n \in Nat
  BY <1>2
<1>5. ASSUME NEW S, NEW k \in Nat, NEW g \in [1..k -> S]
      PROVE  g \in Seq(S)
  OBVIOUS
<1> HIDE DEF n, f
<1>6. f \in Seq(Payloads)
  BY <1>3, <1>4, <1>5
<1> QED
  BY <1>6 DEF Replay, n, f

----------------------------------------------------------------------------
(* Types *)

\* connect buffers dispatches only: Listen reads the session and position of
\* what it finds in bufferedEvent.
Buffer ==
    /\ bufferedEvent \in Payloads \cup {NoEvent}
    /\ bufferedEvent # NoEvent => bufferedEvent.op = "Dispatch"

NetOK ==
    /\ link \in BOOLEAN /\ s2c \in Seq(Payloads) /\ c2s \in Seq(Requests)
    /\ attached \in Sessions \cup {NoSession}

DataOK ==
    /\ Buffer
    /\ sessionID \in Sessions \cup {NoSession} /\ sequenceNumber \in Nat
    /\ api \in {"Listen", "WaitForReady"} /\ ctxDone \in BOOLEAN
    /\ NetOK
    /\ log \in [Sessions -> Seq(EventNames)] /\ valid \in [Sessions -> BOOLEAN]
    /\ cursor \in [Sessions -> Nat] /\ received \in Seq(Sessions \X Nat)
    /\ faults \in 0..MaxFaults

LEMMA EmptySequences ==
    /\ <<>> \in Seq(Payloads) /\ <<>> \in Seq(Requests)
    /\ <<>> \in Seq(EventNames) /\ <<>> \in Seq(Sessions \X Nat)
OBVIOUS

\* A lost websocket has empty pipes.
LEMMA DisconnectType == Disconnect => NetOK'
BY EmptySequences DEF Disconnect, NetOK

\* closeWithCode closes the websocket or there is none.
LEMMA CloseType == NetOK /\ closeWithCode => NetOK'
BY DisconnectType DEF closeWithCode, closeSocket, netVars, NetOK

\* What the service sends joins what is in flight.
LEMMA SendsType ==
    ASSUME s2c \in Seq(Payloads), NEW ms \in Seq(Payloads), Sends(ms)
    PROVE  s2c' \in Seq(Payloads)
BY DEF Sends

LEMMA SendsOneType ==
    ASSUME s2c \in Seq(Payloads), NEW m \in Payloads, Sends(<<m>>)
    PROVE  s2c' \in Seq(Payloads)
<1>1. <<m>> \in Seq(Payloads)
  OBVIOUS
<1> QED
  BY <1>1, SendsType

\* A fault stays within its bound.
LEMMA FaultBound ==
    ASSUME faults \in 0..MaxFaults, Fault
    PROVE  faults' \in 0..MaxFaults
BY GatewayAssumption DEF Fault

LEMMA InitData == Init => DataOK
<1> SUFFICES ASSUME Init PROVE DataOK
  OBVIOUS
<1>1. Buffer /\ NetOK
  BY EmptySequences DEF Init, Buffer, NetOK
<1>2. log \in [Sessions -> Seq(EventNames)] /\ received \in Seq(Sessions \X Nat)
  BY EmptySequences DEF Init
<1>3. valid \in [Sessions -> BOOLEAN]
  BY DEF Init
<1>4. cursor \in [Sessions -> Nat]
  BY DEF Init
<1>5. faults \in 0..MaxFaults
  BY GatewayAssumption DEF Init
<1> QED
  BY <1>1, <1>2, <1>3, <1>4, <1>5 DEF Init, DataOK

LEMMA NextData == DataOK /\ [Next]_vars => DataOK'
<1> SUFFICES ASSUME DataOK, [Next]_vars PROVE DataOK'
  OBVIOUS
<1> USE DEF DataOK, Buffer, NetOK, structVars, callVars, netVars, srvVars, seenVars
<1>1. CASE CallListen
  BY <1>1 DEF CallListen
<1>2. CASE CallWaitForReady
  BY <1>2 DEF CallWaitForReady
<1>3. CASE Cancel
  BY <1>3, FaultBound DEF Cancel
<1>4. CASE Close
  BY <1>4, CloseType, FaultBound DEF Close
<1>5. CASE ConnectReuse
  BY <1>5 DEF ConnectReuse
<1>6. CASE Dial
  <2>1. NetOK'
    <3>1. s2c' = <<Hello>> \/ s2c' = <<OtherPayload>>
      BY <1>6 DEF Dial
    <3>2. ASSUME NEW m \in Payloads PROVE <<m>> \in Seq(Payloads)
      OBVIOUS
    <3>3. s2c' \in Seq(Payloads)
      BY <3>1, <3>2, PayloadTypes
    <3> QED
      BY <1>6, <3>3, EmptySequences DEF Dial
  <2> QED
    BY <1>6, <2>1, FaultBound DEF Dial
<1>7. CASE DialFails
  BY <1>7, FaultBound DEF DialFails
<1>8. CASE ReadHello
  BY <1>8 DEF ReadHello, Receives
<1>9. CASE HelloFails
  BY <1>9, DisconnectType, FaultBound DEF HelloFails, ReadFails, ReadsOtherThan, closeSocket
<1>10. CASE SendResume
  BY <1>10, RequestTypes DEF SendResume, Write
<1>11. CASE SendIdentify
  BY <1>11, RequestTypes DEF SendIdentify, Write
<1>12. CASE WriteFails
  BY <1>12, DisconnectType DEF WriteFails, connectFailed, closeSocket
<1>13. CASE ResumeAccepted
  BY <1>13 DEF ResumeAccepted, Receives, bufferEvent
<1>14. CASE ResumeRejected
  BY <1>14 DEF ResumeRejected, Receives
<1>15. CASE ResumeFails
  BY <1>15, DisconnectType, FaultBound DEF ResumeFails, ReadFails, ReadsOtherThan, connectFailed, closeSocket
<1>16. CASE ReidentifyTimer
  BY <1>16 DEF ReidentifyTimer
<1>17. CASE ReidentifyCancelled
  BY <1>17, DisconnectType DEF ReidentifyCancelled, connectFailed, closeSocket
<1>18. CASE IdentifyAccepted
  BY <1>18 DEF IdentifyAccepted, Receives, bufferEvent
<1>19. CASE IdentifyFails
  BY <1>19, DisconnectType, FaultBound DEF IdentifyFails, ReadFails, connectFailed, closeSocket
<1>20. CASE RetryTimer
  BY <1>20 DEF RetryTimer
<1>21. CASE RetryCancelled
  BY <1>21 DEF RetryCancelled
<1>22. CASE WaitForReadyReturns
  BY <1>22 DEF WaitForReadyReturns
<1>23. CASE ListenTop
  BY <1>23 DEF ListenTop
<1>24. CASE ListenBuffered
  BY <1>24, DispatchFields DEF ListenBuffered, HandOut, updateSession
<1>25. CASE ListenNext
  BY <1>25 DEF ListenNext
<1>26. CASE ListenDispatch
  BY <1>26, DispatchFields DEF ListenDispatch, HandOut, updateSession, Receives
<1>27. CASE ListenReconnect
  BY <1>27, CloseType DEF ListenReconnect
<1>28. CASE ListenFails
  BY <1>28, CloseType, FaultBound DEF ListenFails, ReadFails, ReadsOtherThan
<1>29. CASE SrvControl
  BY <1>29, PayloadTypes, SendsOneType, FaultBound DEF SrvControl
<1>30. CASE SrvRefuse
  BY <1>30, PayloadTypes, SendsOneType, FaultBound DEF SrvRefuse
<1>31. CASE Drop
  <2>1. PICK n \in 0..Len(s2c) : s2c' = SubSeq(s2c, 1, n)
    BY <1>31 DEF Drop
  <2>2. s2c' \in Seq(Payloads)
    BY <2>1
  <2> QED
    BY <1>31, <2>2, EmptySequences, FaultBound DEF Drop
<1>32. ASSUME NEW s \in Sessions, SrvIdentify(s) PROVE DataOK'
  <2>1. PICK e \in ReadyNames :
            /\ (e = "READY" /\ UNCHANGED faults) \/ (e # "READY" /\ Fault)
            /\ log' = [log EXCEPT ![s] = <<e>>]
            /\ Sends(<<Dispatch(s, 1, e)>>)
    BY <1>32 DEF SrvIdentify
  <2>2. e \in EventNames
    BY DEF EventNames
  <2>3. s2c' \in Seq(Payloads)
    BY <2>1, <2>2, PayloadTypes, SendsOneType
  <2>4. log' \in [Sessions -> Seq(EventNames)]
    BY <2>1, <2>2
  <2>5. faults' \in 0..MaxFaults
    BY <2>1, FaultBound
  <2> QED
    BY <1>32, <2>3, <2>4, <2>5 DEF SrvIdentify
<1>33. ASSUME NEW s \in Sessions, SrvResume(s) PROVE DataOK'
  <2> DEFINE r == Head(c2s)
             l == Append(log[s], "RESUMED")
  <2>1. r \in Requests /\ r.op = "Resume" /\ r.sess = s /\ r.seq <= Len(log[s])
    BY <1>33 DEF SrvResume
  <2>2. l \in Seq(EventNames) /\ Len(l) = Len(log[s]) + 1
    BY DEF EventNames
  <2>3. r.seq \in Nat
    BY <2>1, ResumeFields
  <2>4. Replay(s, l, r.seq + 1, Len(l)) \in Seq(Payloads)
    <3>1. r.seq + 1 \in Nat \ {0} /\ r.seq + 1 <= Len(l) + 1
      BY <2>1, <2>2, <2>3
    <3> HIDE DEF l
    <3> QED
      BY <2>2, <3>1, ReplayType
  <2>5. log' = [log EXCEPT ![s] = l]
    BY <1>33 DEF SrvResume
  <2>6. log'[s] = l /\ log' \in [Sessions -> Seq(EventNames)]
    BY <2>2, <2>5
  <2>7. s2c' \in Seq(Payloads)
    BY <1>33, <2>4, <2>6, SendsType DEF SrvResume
  <2> QED
    BY <1>33, <2>6, <2>7 DEF SrvResume
<1>34. ASSUME NEW s \in Sessions, SrvPublish(s) PROVE DataOK'
  <2>1. log' = [log EXCEPT ![s] = Append(log[s], "EVENT")]
    BY <1>34 DEF SrvPublish
  <2>2. Append(log[s], "EVENT") \in Seq(EventNames) /\ "EVENT" \in EventNames
    BY DEF EventNames
  <2>3. log' \in [Sessions -> Seq(EventNames)] /\ log'[s] \in Seq(EventNames)
    BY <2>1, <2>2
  <2>4. s2c' \in Seq(Payloads)
    <3>1. Dispatch(s, Len(log'[s]), "EVENT") \in Payloads
      BY <2>2, <2>3, PayloadTypes
    <3> QED
      BY <1>34, <3>1, SendsOneType DEF SrvPublish
  <2> QED
    BY <1>34, <2>3, <2>4 DEF SrvPublish
<1>35. ASSUME NEW s \in Sessions, SrvInvalidate(s) PROVE DataOK'
  <2>1. s2c' \in Seq(Payloads)
    BY <1>35, PayloadTypes, SendsOneType DEF SrvInvalidate
  <2> QED
    BY <1>35, <2>1, FaultBound DEF SrvInvalidate
<1>36. CASE UNCHANGED vars
  BY <1>36 DEF vars
<1> QED
  BY <1>1, <1>2, <1>3, <1>4, <1>5, <1>6, <1>7, <1>8, <1>9, <1>10, <1>11, <1>12, <1>13, <1>14, <1>15, <1>16, <1>17, <1>18, <1>19, <1>20, <1>21, <1>22, <1>23, <1>24, <1>25, <1>26, <1>27, <1>28, <1>29, <1>30, <1>31, <1>32, <1>33, <1>34, <1>35, <1>36 DEF Next, Client, Connect, Answer, Environment

\* The type invariant, for every set of sessions and every bound.
THEOREM TypeCorrect == Spec => []TypeOK
<1>1. ResInv /\ DataOK => TypeOK
  BY DEF ResInv, Counted, DataOK, NetOK, Buffer, TypeOK
<1> QED
  BY InitRes, NextRes, InitData, NextData, <1>1, PTL DEF Spec

----------------------------------------------------------------------------
(***************************************************************************)
(* Gateway implements EventStream, for every set of sessions and every     *)
(* bound. What a step consumes is the next entry of its session's log      *)
(* because the payloads on the wire are, up to the first that is not an    *)
(* event, the entries after the cursor (after the buffered event, if there *)
(* is one), and because the cursor in the client's hands, sequenceNumber,  *)
(* is that position when it asks to resume.                                *)
(***************************************************************************)
----------------------------------------------------------------------------
(* Pieces of a log on a wire *)

\* The n-th entry of session s in the logs l, as a payload.
Entry(l, s, n) == Dispatch(s, n, l[s][n])

\* The first i payloads of q are events.
Events(q, i) == \A k \in 1..i : q[k].op = "Dispatch"

\* Up to its first payload that is not an event, q is the log of s after b.
Follows(q, s, b, l) ==
    \A i \in 1..Len(q) : Events(q, i) =>
        s \in Sessions /\ b + i <= Len(l[s]) /\ q[i] = Entry(l, s, b + i)

\* When q holds nothing but events, it reaches the end of the log.
Complete(q, s, b, l) == Events(q, Len(q)) => b + Len(q) = Len(l[s])

Logs == [Sessions -> Seq(EventNames)]

\* Taking the first event off the wire moves the position by one.
LEMMA FollowsTail ==
    ASSUME NEW q \in Seq(Payloads), NEW s, NEW b \in Nat, NEW l \in Logs,
           q # <<>>, Head(q).op = "Dispatch", Follows(q, s, b, l)
    PROVE  /\ s \in Sessions /\ b + 1 <= Len(l[s]) /\ Head(q) = Entry(l, s, b + 1)
           /\ Follows(Tail(q), s, b + 1, l)
           /\ Complete(q, s, b, l) => Complete(Tail(q), s, b + 1, l)
<1>1. Len(q) \in Nat /\ Len(q) >= 1 /\ Head(q) = q[1]
  OBVIOUS
<1>2. Tail(q) \in Seq(Payloads) /\ Len(Tail(q)) = Len(q) - 1
      /\ \A i \in 1..Len(Tail(q)) : Tail(q)[i] = q[i + 1]
  BY HeadTailProperties
<1>3. ASSUME NEW i \in 0..Len(Tail(q)), Events(Tail(q), i)
      PROVE  Events(q, i + 1)
  <2> SUFFICES ASSUME NEW k \in 1..(i + 1) PROVE q[k].op = "Dispatch"
    BY DEF Events
  <2>1. CASE k = 1
    BY <1>1, <2>1
  <2>2. CASE k # 1
    <3>1. k - 1 \in 1..i /\ k - 1 \in 1..Len(Tail(q))
      BY <1>1, <1>2, <2>2
    <3>2. Tail(q)[k - 1] = q[k - 1 + 1] /\ Tail(q)[k - 1].op = "Dispatch"
      BY <1>2, <1>3, <3>1 DEF Events
    <3> QED
      BY <3>2
  <2> QED
    BY <2>1, <2>2
<1>4. Events(q, 1)
  BY <1>1 DEF Events
<1>5. s \in Sessions /\ b + 1 <= Len(l[s]) /\ Head(q) = Entry(l, s, b + 1)
  <2>1. 1 \in 1..Len(q)
    BY <1>1
  <2> QED
    BY <1>1, <1>4, <2>1 DEF Follows
<1>6. Follows(Tail(q), s, b + 1, l)
  <2> SUFFICES ASSUME NEW i \in 1..Len(Tail(q)), Events(Tail(q), i)
               PROVE  s \in Sessions /\ b + 1 + i <= Len(l[s])
                      /\ Tail(q)[i] = Entry(l, s, b + 1 + i)
    BY DEF Follows
  <2>1. i + 1 \in 1..Len(q) /\ i \in 0..Len(Tail(q))
    BY <1>1, <1>2
  <2>2. Events(q, i + 1)
    BY <1>3, <2>1
  <2>3. b + (i + 1) <= Len(l[s]) /\ q[i + 1] = Entry(l, s, b + (i + 1))
    BY <2>1, <2>2 DEF Follows
  <2>4. b + (i + 1) = b + 1 + i
    BY <2>1
  <2> QED
    BY <1>2, <1>5, <2>3, <2>4
<1>7. ASSUME Complete(q, s, b, l) PROVE Complete(Tail(q), s, b + 1, l)
  <2> SUFFICES ASSUME Events(Tail(q), Len(Tail(q)))
               PROVE  b + 1 + Len(Tail(q)) = Len(l[s])
    BY DEF Complete
  <2>1. Len(Tail(q)) \in 0..Len(Tail(q))
    BY <1>1, <1>2
  <2>2. Events(q, Len(q))
    <3>1. Events(q, Len(Tail(q)) + 1)
      BY <1>3, <2>1
    <3> QED
      BY <1>1, <1>2, <3>1
  <2>3. b + Len(q) = Len(l[s])
    BY <1>7, <2>2 DEF Complete
  <2> QED
    BY <1>1, <1>2, <2>3
<1> QED
  BY <1>5, <1>6, <1>7

\* Losing the end of what is on the wire leaves the beginning.
LEMMA FollowsPrefix ==
    ASSUME NEW q \in Seq(Payloads), NEW s, NEW b \in Nat, NEW l \in Logs,
           Follows(q, s, b, l), NEW n \in 0..Len(q)
    PROVE  /\ SubSeq(q, 1, n) \in Seq(Payloads) /\ Len(SubSeq(q, 1, n)) = n
           /\ \A i \in 1..n : SubSeq(q, 1, n)[i] = q[i]
           /\ Follows(SubSeq(q, 1, n), s, b, l)
<1> DEFINE p == SubSeq(q, 1, n)
<1>1. p \in Seq(Payloads) /\ Len(p) = n /\ \A i \in 1..n : p[i] = q[i]
  OBVIOUS
<1> HIDE DEF p
<1>2. Follows(p, s, b, l)
  <2> SUFFICES ASSUME NEW i \in 1..Len(p), Events(p, i)
               PROVE  s \in Sessions /\ b + i <= Len(l[s]) /\ p[i] = Entry(l, s, b + i)
    BY DEF Follows
  <2>1. i \in 1..Len(q) /\ i \in 1..n /\ p[i] = q[i]
    BY <1>1
  <2>2. Events(q, i)
    <3> SUFFICES ASSUME NEW k \in 1..i PROVE q[k].op = "Dispatch"
      BY DEF Events
    <3>1. k \in 1..n /\ p[k].op = "Dispatch"
      BY <2>1 DEF Events
    <3> QED
      BY <1>1, <3>1
  <2> QED
    BY <2>1, <2>2 DEF Follows
<1> QED
  BY <1>1, <1>2 DEF p

\* Events of m's predecessors are events of the sequence with m at its end.
LEMMA EventsAppend ==
    ASSUME NEW q \in Seq(Payloads), NEW m \in Payloads, NEW i \in 0..Len(q)
    PROVE  Events(q \o <<m>>, i) <=> Events(q, i)
<1>1. <<m>> \in Seq(Payloads)
  OBVIOUS
<1>2. \A k \in 1..Len(q) : (q \o <<m>>)[k] = q[k]
  BY <1>1, ConcatProperties
<1>3. \A k \in 1..i : k \in 1..Len(q)
  OBVIOUS
<1> QED
  BY <1>2, <1>3 DEF Events

LEMMA AtEnd ==
    ASSUME NEW q \in Seq(Payloads), NEW m \in Payloads
    PROVE  /\ q \o <<m>> \in Seq(Payloads)
           /\ Len(q \o <<m>>) = Len(q) + 1 /\ Len(q) \in Nat
           /\ \A i \in 1..Len(q) : (q \o <<m>>)[i] = q[i]
           /\ (q \o <<m>>)[Len(q) + 1] = m
<1>1. <<m>> \in Seq(Payloads) /\ Len(<<m>>) = 1 /\ <<m>>[1] = m
  OBVIOUS
<1> QED
  BY <1>1

\* A payload that is not an event may follow anything.
LEMMA FollowsOther ==
    ASSUME NEW q \in Seq(Payloads), NEW s, NEW b \in Nat, NEW l \in Logs,
           Follows(q, s, b, l), NEW m \in Payloads, m.op # "Dispatch"
    PROVE  /\ Follows(q \o <<m>>, s, b, l)
           /\ Complete(q \o <<m>>, s, b, l)
<1> DEFINE p == q \o <<m>>
<1>1. p \in Seq(Payloads) /\ Len(p) = Len(q) + 1 /\ Len(q) \in Nat
      /\ (\A i \in 1..Len(q) : p[i] = q[i]) /\ p[Len(q) + 1] = m
  BY AtEnd
<1>2. \A i \in 0..Len(q) : Events(p, i) => Events(q, i)
  BY EventsAppend
<1> HIDE DEF p
<1>3. ~Events(p, Len(q) + 1)
  BY <1>1 DEF Events
<1>4. ASSUME NEW i \in 1..Len(p), Events(p, i)
      PROVE  s \in Sessions /\ b + i <= Len(l[s]) /\ p[i] = Entry(l, s, b + i)
  <2>1. i # Len(q) + 1
    BY <1>3, <1>4
  <2>2. i \in 1..Len(q) /\ i \in 0..Len(q)
    BY <1>1, <2>1
  <2>3. Events(q, i) /\ p[i] = q[i]
    BY <1>1, <1>2, <1>4, <2>2
  <2> QED
    BY <2>2, <2>3 DEF Follows
<1>5. Complete(p, s, b, l)
  BY <1>1, <1>3 DEF Complete
<1>6. Follows(p, s, b, l)
  BY <1>4 DEF Follows
<1> QED
  BY <1>5, <1>6 DEF p

\* A log that grows still has what is on the wire.
LEMMA FollowsGrowth ==
    ASSUME NEW q \in Seq(Payloads), NEW s, NEW b \in Nat, NEW l \in Logs, NEW k \in Logs,
           Follows(q, s, b, l),
           s \in Sessions => Len(l[s]) <= Len(k[s])
                             /\ \A i \in 1..Len(l[s]) : k[s][i] = l[s][i]
    PROVE  Follows(q, s, b, k)
<1> SUFFICES ASSUME NEW i \in 1..Len(q), Events(q, i)
             PROVE  s \in Sessions /\ b + i <= Len(k[s]) /\ q[i] = Entry(k, s, b + i)
  BY DEF Follows
<1>1. s \in Sessions /\ b + i <= Len(l[s]) /\ q[i] = Entry(l, s, b + i)
  BY DEF Follows
<1>2. Len(l[s]) \in Nat /\ Len(k[s]) \in Nat
  BY <1>1 DEF Logs
<1>3. b + i \in 1..Len(l[s])
  BY <1>1, <1>2
<1> QED
  BY <1>1, <1>2, <1>3 DEF Entry

\* The next event of the log may follow a wire that reaches the log's end.
LEMMA FollowsEvent ==
    ASSUME NEW q \in Seq(Payloads), NEW s \in Sessions, NEW b \in Nat,
           NEW l \in Logs, NEW e \in EventNames,
           Follows(q, s, b, l), Complete(q, s, b, l)
    PROVE  LET k == [l EXCEPT ![s] = Append(l[s], e)]
               p == q \o <<Dispatch(s, Len(k[s]), e)>>
           IN  k \in Logs /\ Follows(p, s, b, k) /\ Complete(p, s, b, k)
<1> DEFINE k == [l EXCEPT ![s] = Append(l[s], e)]
           m == Dispatch(s, Len(k[s]), e)
           p == q \o <<m>>
<1>1. l[s] \in Seq(EventNames)
  BY DEF Logs
<1>2. /\ k \in Logs /\ k[s] = Append(l[s], e)
      /\ Len(l[s]) \in Nat /\ Len(k[s]) = Len(l[s]) + 1
      /\ (\A i \in 1..Len(l[s]) : k[s][i] = l[s][i]) /\ k[s][Len(l[s]) + 1] = e
  BY <1>1, AppendProperties DEF Logs
<1> HIDE DEF k
<1>3. m \in Payloads
  BY <1>2, PayloadTypes
<1>4. m = Dispatch(s, Len(k[s]), e)
  OBVIOUS
<1> HIDE DEF m
<1>5. p \in Seq(Payloads) /\ Len(p) = Len(q) + 1 /\ Len(q) \in Nat
      /\ (\A i \in 1..Len(q) : p[i] = q[i]) /\ p[Len(q) + 1] = m
  BY <1>3, AtEnd
<1>6. \A i \in 0..Len(q) : Events(p, i) => Events(q, i)
  BY <1>3, EventsAppend
<1> HIDE DEF p
<1>7. Follows(q, s, b, k)
  BY <1>2, FollowsGrowth
<1>8. ASSUME Events(p, Len(p)) PROVE b + Len(p) = Len(k[s])
  <2>1. Events(p, Len(q))
    BY <1>5, <1>8 DEF Events
  <2>2. Events(q, Len(q)) /\ Len(q) \in 0..Len(q)
    BY <1>5, <1>6, <2>1
  <2>3. b + Len(q) = Len(l[s])
    BY <2>2 DEF Complete
  <2> QED
    BY <1>2, <1>5, <2>3
<1>9. ASSUME NEW i \in 1..Len(p), Events(p, i)
      PROVE  s \in Sessions /\ b + i <= Len(k[s]) /\ p[i] = Entry(k, s, b + i)
  <2>1. CASE i = Len(q) + 1
    <3>1. i = Len(p) /\ p[i] = m /\ b + i = Len(k[s])
      BY <1>5, <1>8, <1>9, <2>1
    <3>2. k[s][b + i] = e
      BY <1>2, <3>1
    <3> QED
      BY <1>4, <1>2, <3>1, <3>2 DEF Entry
  <2>2. CASE i # Len(q) + 1
    <3>1. i \in 1..Len(q) /\ i \in 0..Len(q)
      BY <1>5, <2>2
    <3>2. Events(q, i) /\ p[i] = q[i]
      BY <1>5, <1>6, <1>9, <3>1
    <3> QED
      BY <1>7, <3>1, <3>2 DEF Follows
  <2> QED
    BY <2>1, <2>2
<1>10. Follows(p, s, b, k) /\ Complete(p, s, b, k)
  BY <1>8, <1>9 DEF Follows, Complete
<1> QED
  BY <1>2, <1>4, <1>10 DEF k, p, m

\* An empty wire.
LEMMA FollowsNothing ==
    ASSUME NEW s, NEW b, NEW l
    PROVE  Follows(<<>>, s, b, l)
BY DEF Follows

\* A payload that is not an event, alone on the wire.
LEMMA FollowsOne ==
    ASSUME NEW s, NEW b, NEW l, NEW m, m.op # "Dispatch"
    PROVE  Follows(<<m>>, s, b, l)
BY DEF Follows, Events

\* What the service replays after a resume at position b.
LEMMA FollowsReplay ==
    ASSUME NEW s \in Sessions, NEW l \in Logs, NEW b \in Nat, b < Len(l[s])
    PROVE  LET p == Replay(s, l[s], b + 1, Len(l[s]))
           IN  /\ p \in Seq(Payloads) /\ Len(p) = Len(l[s]) - b /\ p # <<>>
               /\ p[1].op = "Dispatch"
               /\ Follows(p, s, b, l) /\ Complete(p, s, b, l)
<1> DEFINE n == Len(l[s]) + 1 - (b + 1)
           p == Replay(s, l[s], b + 1, Len(l[s]))
<1>1. l[s] \in Seq(EventNames) /\ Len(l[s]) \in Nat
  BY DEF Logs
<1>2. p \in Seq(Payloads)
  <2>1. b + 1 \in Nat \ {0} /\ b + 1 <= Len(l[s]) + 1
    BY <1>1
  <2> QED
    BY <1>1, <2>1, ReplayType
<1>3. p = [i \in 1..n |-> Dispatch(s, b + 1 + i - 1, l[s][b + 1 + i - 1])]
  BY DEF Replay
<1> HIDE DEF p
<1>4. n \in Nat /\ n = Len(l[s]) - b /\ n >= 1
  <2>1. \A k \in Nat : b < k => k + 1 - (b + 1) \in Nat /\ k + 1 - (b + 1) = k - b /\ k - b >= 1
    OBVIOUS
  <2> QED
    BY <1>1, <2>1
<1> HIDE DEF n
<1>5. Len(p) = n
  <2>1. DOMAIN p = 1..n
    BY <1>3
  <2> QED
    BY <1>2, <1>4, <2>1, LenProperties
<1>6. ASSUME NEW i \in 1..n PROVE p[i] = Entry(l, s, b + i) /\ p[i].op = "Dispatch"
  <2>1. b + 1 + i - 1 = b + i
    BY <1>4
  <2> QED
    BY <1>3, <2>1 DEF Entry, Dispatch
<1>7. ASSUME NEW i \in 1..n PROVE b + i <= Len(l[s])
  BY <1>1, <1>4
<1>8. Follows(p, s, b, l) /\ Complete(p, s, b, l)
  <2>1. Follows(p, s, b, l)
    BY <1>5, <1>6, <1>7 DEF Follows
  <2>2. b + Len(p) = Len(l[s])
    BY <1>1, <1>4, <1>5
  <2> QED
    BY <2>1, <2>2 DEF Complete
<1>9. p # <<>> /\ p[1].op = "Dispatch"
  <2>1. 1 \in 1..n
    BY <1>4
  <2> QED
    BY <1>2, <1>4, <1>5, <1>6, <2>1, EmptySeq
<1> QED
  BY <1>2, <1>4, <1>5, <1>8, <1>9 DEF p

----------------------------------------------------------------------------
(* The inductive invariant *)

HasBuffered == conn = TRUE /\ bufferedEvent # NoEvent

\* The last position the client holds: consumed or buffered.
Base(s) == IF s \notin Sessions THEN 0 ELSE IF HasBuffered THEN cursor[s] + 1 ELSE cursor[s]

\* One session speaks on the websocket, and it speaks in the order of its log.
OnWire(cs) ==
    /\ attached # NoSession => attached = cs
    /\ sessionID # NoSession => sessionID = cs
    /\ HasBuffered => /\ cs \in Sessions /\ cursor[cs] + 1 <= Len(log[cs])
                      /\ bufferedEvent = Entry(log, cs, cursor[cs] + 1)
    /\ Follows(s2c, cs, Base(cs), log)
    /\ attached # NoSession => Complete(s2c, cs, Base(cs), log)

\* The cursor is a position of the log, and sequenceNumber that of the session.
Cursors ==
    /\ \A s \in Sessions : cursor[s] <= Len(log[s])
    /\ sessionID # NoSession => sequenceNumber = cursor[sessionID]

Quiet == c2s = <<>> /\ s2c = <<>> /\ attached = NoSession

\* What is on its way in the phases of the handshake.
Phases ==
    /\ conn = FALSE => Quiet
    /\ pc = "hello" => /\ c2s = <<>> /\ attached = NoSession
                       /\ s2c = <<>> \/ s2c = <<Hello>> \/ s2c = <<OtherPayload>>
    /\ pc \in {"auth", "reidentify"} => Quiet
    /\ pc \in {"hello", "auth", "resume", "reidentify", "identify", "next"} => bufferedEvent = NoEvent
    /\ pc = "resume" =>
          /\ sessionID # NoSession
          /\ \/ c2s = <<>>
             \/ c2s = <<Resume(sessionID, sequenceNumber)>> /\ s2c = <<>> /\ attached = NoSession
          /\ s2c # <<>> /\ s2c[1].op # "Dispatch" => Len(s2c) = 1 /\ attached = NoSession
          /\ attached # NoSession => s2c # <<>>
    /\ pc \in {"reidentify", "identify"} => sessionID = NoSession
    /\ pc = "identify" =>
          c2s = <<>> \/ (c2s = <<Identify>> /\ s2c = <<>> /\ attached = NoSession)
    /\ pc \notin {"resume", "identify"} => c2s = <<>>

Sources == Sessions \cup {NoSession}

SInv == Cursors /\ Phases /\ \E cs \in Sources : OnWire(cs)

IInv == ResInv /\ DataOK /\ SInv

\* The opcodes tell the payloads and the requests apart.
LEMMA Opcodes ==
    /\ Hello.op = "Hello" /\ Reconnect.op = "Reconnect" /\ OtherPayload.op = "Other"
    /\ Identify.op = "Identify"
    /\ \A d : InvalidSession(d).op = "InvalidSession"
    /\ \A s, n : Resume(s, n).op = "Resume" /\ Resume(s, n).sess = s /\ Resume(s, n).seq = n
    /\ \A s, n, e : /\ Dispatch(s, n, e).op = "Dispatch" /\ Dispatch(s, n, e).sess = s
                    /\ Dispatch(s, n, e).seq = n /\ Dispatch(s, n, e).event = e
BY DEF Hello, Reconnect, OtherPayload, Identify, InvalidSession, Resume, Dispatch

LEMMA Singletons == \A x : Head(<<x>>) = x /\ Tail(<<x>>) = <<>> /\ Len(<<x>>) = 1
OBVIOUS

LEMMA BaseType ==
    ASSUME DataOK, NEW cs \in Sources
    PROVE  Base(cs) \in Nat
BY DEF DataOK, Base, Sources

\* A step that touches neither the wire, nor the log, nor the client's position.
LEMMA Undisturbed ==
    ASSUME SInv, UNCHANGED <<conn, bufferedEvent, sessionID, sequenceNumber, s2c, attached, log, cursor>>
    PROVE  Cursors' /\ \E cs \in Sources : OnWire(cs)'
<1>1. Cursors'
  BY DEF SInv, Cursors
<1>2. PICK cs \in Sources : OnWire(cs)
  BY DEF SInv
<1>3. OnWire(cs)'
  BY <1>2 DEF OnWire, HasBuffered, Base, Follows, Complete, Entry
<1> QED
  BY <1>1, <1>3

\* A step after which there is no connection.
LEMMA HungUp ==
    ASSUME SInv, conn' = FALSE, Quiet', UNCHANGED <<log, cursor>>,
           sessionID' = NoSession \/ UNCHANGED <<sessionID, sequenceNumber>>
    PROVE  Cursors' /\ \E cs \in Sources : OnWire(cs)'
<1>1. Cursors'
  BY DEF SInv, Cursors
<1>2. PICK cs \in Sources : OnWire(cs)
  BY DEF SInv
<1>3. OnWire(cs)'
  BY <1>2 DEF OnWire, HasBuffered, Quiet, Follows
<1> QED
  BY <1>1, <1>3

\* closeWithCode and the deferred functions of connect leave nothing on the wire.
LEMMA Hush ==
    ASSUME IInv, closeWithCode \/ connectFailed \/ closeSocket
    PROVE  conn' = FALSE /\ Quiet'
BY DEF IInv, SInv, ResInv, Phases, Quiet, closeWithCode, connectFailed, closeSocket, Disconnect, netVars

----------------------------------------------------------------------------
(* The client's steps *)

\* The application's calls and the client's timers.
LEMMA CallSteps ==
    ASSUME IInv,
           \/ CallListen \/ CallWaitForReady \/ Cancel \/ ConnectReuse \/ RetryTimer \/ RetryCancelled
           \/ WaitForReadyReturns \/ ListenTop \/ ReidentifyTimer \/ ListenNext \/ UNCHANGED vars
    PROVE  SInv'
<1>1. Cursors' /\ \E cs \in Sources : OnWire(cs)'
  BY Undisturbed DEF IInv, CallListen, CallWaitForReady, Cancel, ConnectReuse, RetryTimer, RetryCancelled,
     WaitForReadyReturns, ListenTop, ReidentifyTimer, ListenNext, vars, structVars, callVars, netVars, srvVars, seenVars
<1>2. Phases'
  BY DEF IInv, SInv, Phases, Quiet, CallListen, CallWaitForReady, Cancel, ConnectReuse, RetryTimer, RetryCancelled,
     WaitForReadyReturns, ListenTop, ReidentifyTimer, ListenNext, vars, structVars, callVars, netVars, srvVars, seenVars
<1> QED
  BY <1>1, <1>2 DEF SInv

\* The steps that close the connection.
LEMMA CloseSteps ==
    ASSUME IInv,
           \/ Close \/ HelloFails \/ WriteFails \/ ResumeFails \/ ReidentifyCancelled \/ IdentifyFails
           \/ ListenReconnect \/ ListenFails
    PROVE  SInv'
<1>1. conn' = FALSE /\ Quiet'
  BY Hush DEF Close, HelloFails, WriteFails, ResumeFails, ReidentifyCancelled, IdentifyFails, ListenReconnect, ListenFails
<1>2. /\ UNCHANGED <<log, cursor>>
      /\ sessionID' = NoSession \/ UNCHANGED <<sessionID, sequenceNumber>>
      /\ pc' \in {"idle", "retry", "listen"}
  BY DEF Close, HelloFails, WriteFails, ResumeFails, ReidentifyCancelled, IdentifyFails, ListenReconnect, ListenFails,
     connectFailed, srvVars, seenVars, callVars
<1>3. Cursors' /\ \E cs \in Sources : OnWire(cs)'
  BY <1>1, <1>2, HungUp DEF IInv
<1>4. Phases'
  BY <1>1, <1>2 DEF Phases, Quiet
<1> QED
  BY <1>3, <1>4 DEF SInv

\* Dialling puts at most one payload on the wire, and it is not an event.
LEMMA DialSteps ==
    ASSUME IInv, Dial \/ DialFails
    PROVE  SInv'
<1>1. PICK cs \in Sources : OnWire(cs)
  BY DEF IInv, SInv
<1>2. CASE Dial
  <2>1. /\ pc' = "hello" /\ c2s' = <<>> /\ attached' = NoSession /\ bufferedEvent' = NoEvent
        /\ s2c' = <<Hello>> \/ s2c' = <<OtherPayload>>
        /\ UNCHANGED <<sessionID, sequenceNumber, log, cursor>> /\ conn' = TRUE
    BY <1>2 DEF Dial, srvVars, seenVars
  <2>2. Cursors'
    BY <2>1 DEF IInv, SInv, Cursors
  <2>3. Phases'
    BY <2>1 DEF Phases, Quiet
  <2>4. Follows(s2c', cs, Base(cs)', log')
    BY <2>1, FollowsOne, Opcodes
  <2>5. OnWire(cs)'
    BY <1>1, <2>1, <2>4 DEF OnWire, HasBuffered
  <2> QED
    BY <2>2, <2>3, <2>5 DEF SInv
<1>3. CASE DialFails
  <2>1. conn' = FALSE /\ Quiet' /\ pc' = "retry" /\ UNCHANGED <<sessionID, sequenceNumber, log, cursor>>
    BY <1>3 DEF DialFails, IInv, SInv, ResInv, Phases, Quiet, netVars, srvVars, seenVars
  <2>2. Phases'
    BY <2>1 DEF Phases, Quiet
  <2> QED
    BY <2>1, <2>2, HungUp DEF IInv, SInv
<1> QED
  BY <1>2, <1>3

\* The handshake up to the service's answer.
LEMMA HandshakeSteps ==
    ASSUME IInv, ReadHello \/ SendResume \/ SendIdentify \/ ResumeRejected
    PROVE  SInv'
<1>1. PICK cs \in Sources : OnWire(cs)
  BY DEF IInv, SInv
<1>2. CASE ReadHello
  <2>1. s2c = <<Hello>>
    BY <1>2, Opcodes DEF ReadHello, Receives, IInv, SInv, Phases
  <2>2. s2c' = <<>>
    BY <1>2, <2>1 DEF ReadHello, Receives
  <2>3. /\ UNCHANGED <<conn, bufferedEvent, sessionID, sequenceNumber, attached, log, cursor, c2s>>
        /\ pc = "hello" /\ pc' = "auth"
    BY <1>2 DEF ReadHello, srvVars, seenVars
  <2>4. Phases' /\ Quiet'
    BY <2>2, <2>3 DEF IInv, SInv, Phases, Quiet
  <2>5. Cursors'
    BY <2>3 DEF IInv, SInv, Cursors
  <2>6. OnWire(cs)'
    BY <1>1, <2>3, <2>4 DEF OnWire, HasBuffered, Quiet, Follows
  <2> QED
    BY <2>4, <2>5, <2>6 DEF SInv
<1>3. CASE SendResume
  <2>1. c2s' = <<Resume(sessionID, sequenceNumber)>> \/ c2s' = <<>>
    BY <1>3 DEF SendResume, Write, IInv, SInv, Phases, Quiet
  <2>2. /\ UNCHANGED <<conn, bufferedEvent, sessionID, sequenceNumber, s2c, attached, log, cursor>>
        /\ pc = "auth" /\ pc' = "resume" /\ sessionID # NoSession
    BY <1>3 DEF SendResume, structVars, srvVars, seenVars
  <2>3. s2c' = <<>> /\ attached' = NoSession /\ conn = TRUE /\ bufferedEvent = NoEvent
    BY <2>2 DEF IInv, SInv, ResInv, Held, Connected, Phases, Quiet
  <2>4. Phases'
    BY <2>1, <2>2, <2>3 DEF Phases, Quiet
  <2> QED
    BY <2>2, <2>4, Undisturbed DEF IInv, SInv
<1>4. CASE SendIdentify
  <2>1. c2s' = <<Identify>> \/ c2s' = <<>>
    BY <1>4 DEF SendIdentify, Write, IInv, SInv, Phases, Quiet
  <2>2. /\ UNCHANGED <<conn, bufferedEvent, sessionID, sequenceNumber, s2c, attached, log, cursor>>
        /\ pc = "auth" /\ pc' = "identify" /\ sessionID = NoSession
    BY <1>4 DEF SendIdentify, structVars, srvVars, seenVars
  <2>3. s2c' = <<>> /\ attached' = NoSession /\ conn = TRUE /\ bufferedEvent = NoEvent
    BY <2>2 DEF IInv, SInv, ResInv, Held, Connected, Phases, Quiet
  <2>4. Phases'
    BY <2>1, <2>2, <2>3 DEF Phases, Quiet
  <2> QED
    BY <2>2, <2>4, Undisturbed DEF IInv, SInv
<1>5. CASE ResumeRejected
  <2>1. /\ UNCHANGED <<conn, bufferedEvent, sequenceNumber, attached, log, cursor, c2s>>
        /\ pc = "resume" /\ pc' = "reidentify" /\ sessionID' = NoSession
        /\ s2c # <<>> /\ Head(s2c).op = "InvalidSession" /\ s2c' = Tail(s2c)
    BY <1>5 DEF ResumeRejected, Receives, srvVars, seenVars
  <2>2. s2c \in Seq(Payloads)
    BY DEF IInv, DataOK, NetOK
  <2>3. s2c[1].op # "Dispatch"
    BY <2>1, <2>2
  <2>4. Len(s2c) = 1 /\ attached = NoSession /\ c2s = <<>> /\ conn = TRUE
    BY <2>1, <2>3 DEF IInv, SInv, ResInv, Held, Connected, Phases
  <2>5. s2c' = <<>>
    BY <2>1, <2>2, <2>4
  <2>6. Phases'
    BY <2>1, <2>4, <2>5 DEF IInv, SInv, Phases, Quiet
  <2>7. Cursors'
    BY <2>1 DEF IInv, SInv, Cursors
  <2>8. OnWire(cs)'
    BY <1>1, <2>1, <2>4, <2>5 DEF OnWire, HasBuffered, Follows
  <2> QED
    BY <2>6, <2>7, <2>8 DEF SInv
<1> QED
  BY <1>2, <1>3, <1>4, <1>5

\* What the next event on the wire is, when there is one and the client holds
\* no other.
LEMMA NextEvent ==
    ASSUME IInv, NEW cs \in Sources, OnWire(cs), ~HasBuffered,
           s2c # <<>>, Head(s2c).op = "Dispatch"
    PROVE  /\ cs \in Sessions /\ cursor[cs] \in Nat /\ cursor[cs] + 1 <= Len(log[cs])
           /\ Head(s2c) = Entry(log, cs, cursor[cs] + 1) /\ Head(s2c) \in Payloads
           /\ Follows(Tail(s2c), cs, cursor[cs] + 1, log)
           /\ attached # NoSession => Complete(Tail(s2c), cs, cursor[cs] + 1, log)
<1>1. s2c \in Seq(Payloads) /\ log \in Logs
  BY DEF IInv, DataOK, NetOK, Logs
<1>2. Base(cs) \in Nat
  BY BaseType DEF IInv
<1>3. /\ cs \in Sessions /\ Base(cs) + 1 <= Len(log[cs]) /\ Head(s2c) = Entry(log, cs, Base(cs) + 1)
      /\ Follows(Tail(s2c), cs, Base(cs) + 1, log)
      /\ Complete(s2c, cs, Base(cs), log) => Complete(Tail(s2c), cs, Base(cs) + 1, log)
  BY <1>1, <1>2, FollowsTail DEF OnWire
<1>4. Base(cs) = cursor[cs]
  BY <1>3 DEF Base
<1>5. Head(s2c) \in Payloads
  BY <1>1
<1> QED
  BY <1>2, <1>3, <1>4, <1>5 DEF OnWire

\* connect keeps the event that answers its request.
LEMMA BufferSteps ==
    ASSUME IInv, ResumeAccepted \/ IdentifyAccepted
    PROVE  SInv'
<1>1. PICK cs \in Sources : OnWire(cs)
  BY DEF IInv, SInv
<1>2. /\ UNCHANGED <<conn, sessionID, sequenceNumber, attached, log, cursor, c2s>>
      /\ pc \in {"resume", "identify"} /\ pc' = "ready"
      /\ s2c # <<>> /\ Head(s2c).op = "Dispatch" /\ s2c' = Tail(s2c) /\ bufferedEvent' = Head(s2c)
  BY DEF ResumeAccepted, IdentifyAccepted, Receives, bufferEvent, srvVars, seenVars
<1>3. conn = TRUE /\ bufferedEvent = NoEvent /\ c2s = <<>>
  BY <1>2 DEF IInv, SInv, ResInv, Held, Connected, Phases
<1>4. ~HasBuffered
  BY <1>3 DEF HasBuffered
<1>5. /\ cs \in Sessions /\ cursor[cs] \in Nat /\ cursor[cs] + 1 <= Len(log[cs])
      /\ Head(s2c) = Entry(log, cs, cursor[cs] + 1) /\ Head(s2c) \in Payloads
      /\ Follows(Tail(s2c), cs, cursor[cs] + 1, log)
      /\ attached # NoSession => Complete(Tail(s2c), cs, cursor[cs] + 1, log)
  BY <1>1, <1>2, <1>4, NextEvent
<1>6. HasBuffered' /\ Base(cs)' = cursor[cs] + 1
  <2>1. bufferedEvent' # NoEvent
    BY <1>2, <1>5, NilAssumption
  <2> QED
    BY <1>2, <1>3, <1>5, <2>1 DEF HasBuffered, Base
<1>7. OnWire(cs)'
  BY <1>1, <1>2, <1>5, <1>6 DEF OnWire, Entry
<1>8. Cursors'
  BY <1>2 DEF IInv, SInv, Cursors
<1>9. Phases'
  BY <1>2, <1>3 DEF Phases, Quiet
<1> QED
  BY <1>7, <1>8, <1>9 DEF SInv

\* Listen hands out the entry after the cursor: what updateSession does with it.
LEMMA HandOutStep ==
    ASSUME IInv, NEW cs \in Sessions, cursor[cs] + 1 <= Len(log[cs]),
           sessionID # NoSession => sessionID = cs,
           HandOut(Entry(log, cs, cursor[cs] + 1)), UNCHANGED log
    PROVE  /\ Cursors'
           /\ sessionID' # NoSession => sessionID' = cs
           /\ cursor' = [cursor EXCEPT ![cs] = cursor[cs] + 1]
           /\ cursor'[cs] = cursor[cs] + 1
           /\ received' = IF log[cs][cursor[cs] + 1] = "RESUMED" THEN received
                          ELSE Append(received, <<cs, cursor[cs] + 1>>)
           /\ pc' \in {"listen", "idle"}
<1> DEFINE m == Entry(log, cs, cursor[cs] + 1)
<1>1. m.sess = cs /\ m.seq = cursor[cs] + 1 /\ m.event = log[cs][cursor[cs] + 1]
  BY Opcodes DEF Entry
<1>2. HandOut(m)
  OBVIOUS
<1> HIDE DEF m
<1>3. /\ cursor' = [cursor EXCEPT ![cs] = cursor[cs] + 1]
      /\ received' = IF log[cs][cursor[cs] + 1] = "RESUMED" THEN received
                     ELSE Append(received, <<cs, cursor[cs] + 1>>)
      /\ pc' \in {"listen", "idle"} /\ updateSession(m)
  BY <1>1, <1>2 DEF HandOut
<1>4. cursor'[cs] = cursor[cs] + 1 /\ \A s \in Sessions : s # cs => cursor'[s] = cursor[s]
  BY <1>3 DEF IInv, DataOK
<1>5. sessionID' # NoSession => sessionID' = cs /\ sequenceNumber' = cursor[cs] + 1
  <2>1. CASE m.event \notin ReadyNames
    BY <1>1, <1>3, <2>1 DEF updateSession, ReadyNames
  <2>2. CASE m.event \in ReadyNames
    BY <1>1, <1>3, <2>2 DEF updateSession, ReadyNames
  <2> QED
    BY <2>1, <2>2
<1>6. Cursors'
  BY <1>4, <1>5 DEF IInv, SInv, Cursors
<1> QED
  BY <1>3, <1>4, <1>5, <1>6

\* Listen returns the event connect kept.
LEMMA BufferedStep ==
    ASSUME IInv, ListenBuffered, NEW cs \in Sources, OnWire(cs)
    PROVE  /\ SInv' /\ cs \in Sessions /\ cursor[cs] + 1 <= Len(log[cs])
           /\ HandOut(Entry(log, cs, cursor[cs] + 1)) /\ UNCHANGED log
<1>1. /\ UNCHANGED <<conn, attached, log, c2s, s2c>>
      /\ pc = "ready" /\ bufferedEvent # NoEvent /\ bufferedEvent' = NoEvent
      /\ HandOut(bufferedEvent)
  BY DEF ListenBuffered, netVars, srvVars
<1>2. HasBuffered /\ conn = TRUE /\ c2s = <<>>
  BY <1>1 DEF IInv, SInv, ResInv, Held, Connected, Phases, HasBuffered
<1>3. cs \in Sessions /\ cursor[cs] + 1 <= Len(log[cs]) /\ bufferedEvent = Entry(log, cs, cursor[cs] + 1)
  BY <1>2 DEF OnWire
<1>4. Base(cs) = cursor[cs] + 1
  BY <1>2, <1>3 DEF Base
<1>5. /\ Cursors' /\ (sessionID' # NoSession => sessionID' = cs)
      /\ cursor'[cs] = cursor[cs] + 1 /\ pc' \in {"listen", "idle"}
  BY <1>1, <1>3, HandOutStep DEF OnWire
<1>6. ~HasBuffered' /\ Base(cs)' = Base(cs)
  BY <1>1, <1>3, <1>4, <1>5 DEF HasBuffered, Base
<1>7. OnWire(cs)'
  BY <1>1, <1>5, <1>6 DEF OnWire
<1>8. Phases'
  BY <1>1, <1>2, <1>5 DEF Phases, Quiet
<1> QED
  BY <1>1, <1>3, <1>5, <1>7, <1>8 DEF SInv

\* Listen returns the next event on the wire.
LEMMA DispatchStep ==
    ASSUME IInv, ListenDispatch, NEW cs \in Sources, OnWire(cs)
    PROVE  /\ SInv' /\ cs \in Sessions /\ cursor[cs] + 1 <= Len(log[cs])
           /\ HandOut(Entry(log, cs, cursor[cs] + 1)) /\ UNCHANGED log
<1>1. /\ UNCHANGED <<conn, bufferedEvent, attached, log, c2s>>
      /\ pc = "next" /\ s2c # <<>> /\ Head(s2c).op = "Dispatch" /\ s2c' = Tail(s2c)
      /\ HandOut(Head(s2c))
  BY DEF ListenDispatch, Receives, srvVars
<1>2. bufferedEvent = NoEvent /\ conn = TRUE /\ c2s = <<>>
  BY <1>1 DEF IInv, SInv, ResInv, Held, Connected, Phases
<1>3. ~HasBuffered /\ ~HasBuffered'
  BY <1>1, <1>2 DEF HasBuffered
<1>4. /\ cs \in Sessions /\ cursor[cs] \in Nat /\ cursor[cs] + 1 <= Len(log[cs])
      /\ Head(s2c) = Entry(log, cs, cursor[cs] + 1)
      /\ Follows(Tail(s2c), cs, cursor[cs] + 1, log)
      /\ attached # NoSession => Complete(Tail(s2c), cs, cursor[cs] + 1, log)
  BY <1>1, <1>3, NextEvent
<1>5. /\ Cursors' /\ (sessionID' # NoSession => sessionID' = cs)
      /\ cursor'[cs] = cursor[cs] + 1 /\ pc' \in {"listen", "idle"}
  BY <1>1, <1>4, HandOutStep DEF OnWire
<1>6. Base(cs)' = cursor[cs] + 1
  BY <1>3, <1>4, <1>5 DEF Base
<1>7. OnWire(cs)'
  BY <1>1, <1>3, <1>4, <1>5, <1>6 DEF OnWire
<1>8. Phases'
  BY <1>1, <1>2, <1>5 DEF Phases, Quiet
<1> QED
  BY <1>1, <1>4, <1>5, <1>7, <1>8 DEF SInv

----------------------------------------------------------------------------
(* The service's and the network's steps *)

\* Sending on a websocket that already carries a session's events.
LEMMA SendingPhases ==
    ASSUME IInv, attached # NoSession, NEW m \in Payloads, s2c' = s2c \o <<m>>,
           UNCHANGED <<conn, bufferedEvent, sessionID, sequenceNumber, pc, c2s, attached>>
    PROVE  Phases'
<1>1. s2c \in Seq(Payloads)
  BY DEF IInv, DataOK, NetOK
<1>2. s2c' # <<>> /\ (s2c # <<>> => s2c'[1] = s2c[1])
  <2>1. /\ s2c' \in Seq(Payloads) /\ Len(s2c') = Len(s2c) + 1 /\ Len(s2c) \in Nat
        /\ \A i \in 1..Len(s2c) : s2c'[i] = s2c[i]
    BY <1>1, AtEnd
  <2>2. s2c' # <<>>
    BY <2>1, EmptySeq
  <2>3. s2c # <<>> => 1 \in 1..Len(s2c)
    BY <1>1, <2>1, EmptySeq
  <2> QED
    BY <2>1, <2>2, <2>3
<1>3. ~Quiet /\ pc # "hello"
  BY DEF IInv, SInv, Phases, Quiet
<1>4. pc = "resume" => c2s = <<>> /\ s2c # <<>> /\ s2c[1].op = "Dispatch"
  BY DEF IInv, SInv, Phases
<1>5. pc = "identify" => c2s = <<>>
  BY DEF IInv, SInv, Phases
<1> QED
  BY <1>2, <1>3, <1>4, <1>5 DEF IInv, SInv, Phases

\* A request on the wire means that nothing has been answered on this websocket.
LEMMA Requested ==
    ASSUME IInv, c2s # <<>>
    PROVE  /\ s2c = <<>> /\ attached = NoSession /\ conn = TRUE /\ bufferedEvent = NoEvent
           /\ ~HasBuffered /\ Tail(c2s) = <<>>
           /\ \/ pc = "resume" /\ Head(c2s) = Resume(sessionID, sequenceNumber) /\ sessionID # NoSession
              \/ pc = "identify" /\ Head(c2s) = Identify /\ sessionID = NoSession
<1>1. pc \in {"resume", "identify"}
  BY DEF IInv, SInv, Phases
<1>2. conn = TRUE /\ bufferedEvent = NoEvent
  BY <1>1 DEF IInv, SInv, ResInv, Held, Connected, Phases
<1>3. CASE pc = "resume"
  <2>1. c2s = <<Resume(sessionID, sequenceNumber)>> /\ s2c = <<>> /\ attached = NoSession /\ sessionID # NoSession
    BY <1>3 DEF IInv, SInv, Phases
  <2> QED
    BY <1>2, <1>3, <2>1, Singletons DEF HasBuffered
<1>4. CASE pc = "identify"
  <2>1. c2s = <<Identify>> /\ s2c = <<>> /\ attached = NoSession /\ sessionID = NoSession
    BY <1>4 DEF IInv, SInv, Phases
  <2> QED
    BY <1>2, <1>4, <2>1, Singletons DEF HasBuffered
<1> QED
  BY <1>1, <1>3, <1>4

LEMMA RefuseStep ==
    ASSUME IInv, SrvRefuse
    PROVE  SInv'
<1>1. PICK cs \in Sources : OnWire(cs)
  BY DEF IInv, SInv
<1>2. c2s # <<>>
  BY DEF SrvRefuse
<1>3. PICK d \in BOOLEAN : Sends(<<InvalidSession(d)>>)
  BY DEF SrvRefuse
<1>4. /\ UNCHANGED <<conn, bufferedEvent, sessionID, sequenceNumber, pc, attached, log, cursor>>
      /\ c2s' = <<>>
  BY <1>2, Requested DEF SrvRefuse, structVars, callVars, srvVars, seenVars
<1>5. s2c' = <<InvalidSession(d)>>
  <2>1. <<InvalidSession(d)>> \in Seq(Payloads)
    BY PayloadTypes
  <2> QED
    BY <1>2, <1>3, <2>1, Requested, ConcatEmptySeq DEF Sends
<1>6. s2c' # <<>> /\ Len(s2c') = 1 /\ s2c'[1].op # "Dispatch"
  BY <1>5, Opcodes
<1>7. Phases'
  BY <1>2, <1>4, <1>6, Requested DEF Phases
<1>8. Cursors'
  BY <1>4 DEF IInv, SInv, Cursors
<1>9. Follows(s2c', cs, Base(cs)', log')
  BY <1>5, FollowsOne, Opcodes
<1>10. OnWire(cs)'
  BY <1>1, <1>2, <1>4, <1>9, Requested DEF OnWire, HasBuffered
<1> QED
  BY <1>7, <1>8, <1>10 DEF SInv

\* The service sends m, which is not an event, on a websocket in use.
LEMMA ControlStep ==
    ASSUME IInv, attached # NoSession, NEW m \in Payloads, m.op # "Dispatch", Sends(<<m>>),
           UNCHANGED <<structVars, callVars, c2s, attached, log, seenVars>>
    PROVE  SInv'
<1>1. PICK cs \in Sources : OnWire(cs)
  BY DEF IInv, SInv
<1>2. /\ UNCHANGED <<conn, bufferedEvent, sessionID, sequenceNumber, pc, attached, log, cursor, c2s>>
      /\ s2c' = s2c \o <<m>>
  BY DEF Sends, structVars, callVars, seenVars
<1>3. Phases'
  BY <1>2, SendingPhases
<1>4. Cursors'
  BY <1>2 DEF IInv, SInv, Cursors
<1>5. s2c \in Seq(Payloads) /\ log \in Logs /\ Base(cs) \in Nat
  BY BaseType DEF IInv, DataOK, NetOK, Logs
<1>6. Follows(s2c \o <<m>>, cs, Base(cs), log) /\ Complete(s2c \o <<m>>, cs, Base(cs), log)
  BY <1>1, <1>5, FollowsOther DEF OnWire
<1>7. Base(cs)' = Base(cs) /\ HasBuffered' = HasBuffered
  BY <1>2 DEF Base, HasBuffered
<1>8. Follows(s2c', cs, Base(cs)', log') /\ Complete(s2c', cs, Base(cs)', log')
  BY <1>2, <1>6, <1>7
<1>9. OnWire(cs)'
  BY <1>1, <1>2, <1>8 DEF OnWire, HasBuffered, Entry
<1> QED
  BY <1>3, <1>4, <1>9 DEF SInv

LEMMA DropStep ==
    ASSUME IInv, Drop
    PROVE  SInv'
<1>1. PICK cs \in Sources : OnWire(cs)
  BY DEF IInv, SInv
<1>2. PICK n \in 0..Len(s2c) : s2c' = SubSeq(s2c, 1, n)
  BY DEF Drop
<1>3. /\ UNCHANGED <<conn, bufferedEvent, sessionID, sequenceNumber, pc, log, cursor>>
      /\ c2s' = <<>> /\ attached' = NoSession
  BY DEF Drop, structVars, callVars, srvVars, seenVars
<1>4. s2c \in Seq(Payloads) /\ log \in Logs /\ Base(cs) \in Nat
  BY BaseType DEF IInv, DataOK, NetOK, Logs
<1>5. /\ s2c' \in Seq(Payloads) /\ Len(s2c') = n /\ (\A i \in 1..n : s2c'[i] = s2c[i])
      /\ Follows(s2c', cs, Base(cs), log)
  BY <1>1, <1>2, <1>4, FollowsPrefix DEF OnWire
<1>6. Base(cs)' = Base(cs)
  BY <1>3 DEF Base, HasBuffered
<1>7. OnWire(cs)'
  BY <1>1, <1>3, <1>5, <1>6 DEF OnWire, HasBuffered, Entry
<1>8. Cursors'
  BY <1>3 DEF IInv, SInv, Cursors
<1>9. s2c = <<>> => s2c' = <<>>
  BY <1>4, <1>5, EmptySeq
<1>10. s2c' # <<>> => s2c # <<>> /\ n >= 1 /\ n <= Len(s2c) /\ s2c'[1] = s2c[1]
  <2> SUFFICES ASSUME s2c' # <<>> PROVE s2c # <<>> /\ n >= 1 /\ n <= Len(s2c) /\ s2c'[1] = s2c[1]
    OBVIOUS
  <2>1. n # 0
    BY <1>5, EmptySeq
  <2> QED
    BY <1>4, <1>5, <1>9, <2>1
<1>11. pc = "hello" => s2c' = <<>> \/ s2c' = s2c
  <2> SUFFICES ASSUME pc = "hello", s2c' # <<>> PROVE s2c' = s2c
    OBVIOUS
  <2>1. Len(s2c) = 1 \/ s2c = <<>>
    BY Singletons DEF IInv, SInv, Phases
  <2>2. Len(s2c) = 1 /\ n >= 1
    BY <1>10, <2>1
  <2>3. n \in 0..1
    BY <2>2
  <2>4. n = Len(s2c)
    BY <2>2, <2>3
  <2> QED
    BY <1>2, <1>4, <2>4, SubSeqFull
<1>12. Phases'
  <2>1. conn = FALSE => Quiet'
    BY <1>3, <1>9 DEF IInv, SInv, Phases, Quiet
  <2>2. pc \in {"auth", "reidentify"} => Quiet'
    BY <1>3, <1>9 DEF IInv, SInv, Phases, Quiet
  <2>3. pc = "resume" => (s2c' # <<>> /\ s2c'[1].op # "Dispatch" => Len(s2c') = 1)
    <3> SUFFICES ASSUME pc = "resume", s2c' # <<>>, s2c'[1].op # "Dispatch" PROVE Len(s2c') = 1
      OBVIOUS
    <3>1. Len(s2c) = 1
      BY <1>10 DEF IInv, SInv, Phases
    <3> QED
      BY <1>5, <1>10, <3>1
  <2>4. pc = "hello" => s2c' = <<>> \/ s2c' = <<Hello>> \/ s2c' = <<OtherPayload>>
    BY <1>11 DEF IInv, SInv, Phases
  <2> QED
    BY <1>3, <2>1, <2>2, <2>3, <2>4 DEF IInv, SInv, Phases
<1> QED
  BY <1>7, <1>8, <1>12 DEF SInv

\* A new session: READY is its first entry, and the only payload on the wire.
LEMMA IdentifyStep ==
    ASSUME IInv, NEW s \in Sessions, SrvIdentify(s)
    PROVE  SInv' /\ Stream!Publish(s)
<1>1. PICK e \in ReadyNames : log' = [log EXCEPT ![s] = <<e>>] /\ Sends(<<Dispatch(s, 1, e)>>)
  BY DEF SrvIdentify
<1>2. /\ c2s # <<>> /\ Head(c2s) = Identify /\ log[s] = <<>> /\ c2s' = Tail(c2s) /\ attached' = s
      /\ UNCHANGED <<conn, bufferedEvent, sessionID, sequenceNumber, pc, cursor, received>>
  BY DEF SrvIdentify, structVars, callVars, seenVars
<1>3. /\ pc = "identify" /\ sessionID = NoSession /\ s2c = <<>> /\ attached = NoSession
      /\ ~HasBuffered /\ bufferedEvent = NoEvent /\ conn = TRUE /\ c2s' = <<>>
  BY <1>2, Requested, Opcodes
<1>4. e \in EventNames /\ log \in Logs
  BY DEF EventNames, IInv, DataOK, Logs
<1>5. cursor[s] = 0
  BY <1>2 DEF IInv, SInv, Cursors, DataOK
<1>6. Append(log[s], e) = <<e>>
  BY <1>2
<1> DEFINE k == [log EXCEPT ![s] = Append(log[s], e)]
           p == <<>> \o <<Dispatch(s, Len(k[s]), e)>>
<1>7. k \in Logs /\ Follows(p, s, 0, k) /\ Complete(p, s, 0, k)
  <2>1. Follows(<<>>, s, 0, log) /\ Complete(<<>>, s, 0, log) /\ <<>> \in Seq(Payloads)
    BY <1>2, FollowsNothing, EmptySequences DEF Complete
  <2> QED
    BY <1>4, <2>1, FollowsEvent
<1>8. log' = k /\ Len(k[s]) = 1
  BY <1>1, <1>4, <1>6, Singletons DEF Logs
<1>9. s2c' = p
  BY <1>1, <1>3, <1>8 DEF Sends
<1> HIDE DEF k, p
<1>10. HasBuffered' = FALSE /\ Base(s)' = 0
  BY <1>2, <1>3, <1>5 DEF HasBuffered, Base
<1>11. OnWire(s)'
  BY <1>2, <1>3, <1>7, <1>8, <1>9, <1>10 DEF OnWire
<1>12. Cursors'
  <2> SUFFICES ASSUME NEW t \in Sessions PROVE cursor[t] <= Len(log'[t])
    BY <1>2, <1>3 DEF Cursors
  <2>1. CASE t = s
    BY <1>5, <1>8, <2>1
  <2>2. CASE t # s
    BY <1>4, <2>2, <1>8 DEF IInv, SInv, Cursors, k, Logs
  <2> QED
    BY <2>1, <2>2
<1>13. Phases'
  BY <1>2, <1>3 DEF Phases
<1>14. Stream!Publish(s)
  BY <1>2, <1>4, <1>8 DEF Stream!Publish, k
<1> QED
  BY <1>11, <1>12, <1>13, <1>14 DEF SInv, Sources

\* An accepted resume: the rest of the log and RESUMED, on an empty wire.
LEMMA ResumeStep ==
    ASSUME IInv, NEW s \in Sessions, SrvResume(s)
    PROVE  SInv' /\ Stream!Publish(s)
<1>1. /\ c2s # <<>> /\ Head(c2s).op = "Resume" /\ Head(c2s).sess = s
      /\ log' = [log EXCEPT ![s] = Append(log[s], "RESUMED")]
      /\ s2c' = s2c \o Replay(s, log'[s], Head(c2s).seq + 1, Len(log'[s]))
      /\ c2s' = Tail(c2s) /\ attached' = s
      /\ UNCHANGED <<conn, bufferedEvent, sessionID, sequenceNumber, pc, cursor, received>>
  BY DEF SrvResume, structVars, callVars, seenVars, Sends
<1>2. /\ pc = "resume" /\ sessionID = s /\ Head(c2s).seq = sequenceNumber /\ s2c = <<>>
      /\ ~HasBuffered /\ bufferedEvent = NoEvent /\ conn = TRUE /\ c2s' = <<>> /\ s # NoSession
  BY <1>1, Requested, Opcodes
<1>3. log \in Logs /\ cursor[s] \in Nat /\ cursor[s] <= Len(log[s])
  BY DEF IInv, SInv, DataOK, Logs, Cursors
<1>4. sequenceNumber = cursor[s]
  BY <1>2 DEF IInv, SInv, Cursors
<1>5. log' \in Logs /\ Len(log'[s]) = Len(log[s]) + 1 /\ Len(log[s]) \in Nat
  <2>1. log[s] \in Seq(EventNames) /\ "RESUMED" \in EventNames
    BY <1>3 DEF Logs, EventNames
  <2>2. Append(log[s], "RESUMED") \in Seq(EventNames) /\ Len(Append(log[s], "RESUMED")) = Len(log[s]) + 1
    BY <2>1
  <2>3. log' \in Logs
    BY <1>1, <1>3, <2>2 DEF Logs
  <2>4. log'[s] = Append(log[s], "RESUMED")
    BY <1>1, <1>3 DEF Logs
  <2> QED
    BY <2>1, <2>2, <2>3, <2>4
<1> DEFINE p == Replay(s, log'[s], cursor[s] + 1, Len(log'[s]))
<1>6. /\ p \in Seq(Payloads) /\ p # <<>> /\ p[1].op = "Dispatch"
      /\ Follows(p, s, cursor[s], log') /\ Complete(p, s, cursor[s], log')
  <2>1. cursor[s] < Len(log'[s])
    BY <1>3, <1>5
  <2> QED
    BY <1>3, <1>5, <2>1, FollowsReplay
<1> HIDE DEF p
<1>7. s2c' = p
  <2>1. s2c' = <<>> \o p
    BY <1>1, <1>2, <1>4 DEF p
  <2> QED
    BY <1>6, <2>1, ConcatEmptySeq
<1>8. HasBuffered' = FALSE /\ Base(s)' = cursor[s]
  BY <1>1, <1>2 DEF HasBuffered, Base
<1>9. OnWire(s)'
  BY <1>1, <1>2, <1>6, <1>7, <1>8 DEF OnWire
<1>10. Cursors'
  <2>1. sequenceNumber' = cursor'[s] /\ sessionID' = s
    BY <1>1, <1>2, <1>4
  <2> SUFFICES ASSUME NEW t \in Sessions PROVE cursor[t] <= Len(log'[t])
    BY <1>1, <2>1 DEF Cursors
  <2>2. CASE t = s
    BY <1>3, <1>5, <2>2
  <2>3. CASE t # s
    BY <1>1, <1>3, <2>3 DEF IInv, SInv, Cursors, Logs
  <2> QED
    BY <2>2, <2>3
<1>11. Phases'
  BY <1>1, <1>2, <1>6, <1>7 DEF Phases
<1>12. Stream!Publish(s)
  BY <1>1 DEF Stream!Publish, EventNames
<1> QED
  BY <1>9, <1>10, <1>11, <1>12 DEF SInv, Sources

\* An event: on the wire when the session is attached, in the log in any case.
LEMMA PublishStep ==
    ASSUME IInv, NEW s \in Sessions, SrvPublish(s)
    PROVE  SInv' /\ Stream!Publish(s)
<1>1. PICK cs \in Sources : OnWire(cs)
  BY DEF IInv, SInv
<1>2. /\ log' = [log EXCEPT ![s] = Append(log[s], "EVENT")]
      /\ UNCHANGED <<conn, bufferedEvent, sessionID, sequenceNumber, pc, c2s, attached, cursor, received>>
      /\ attached = s => s2c' = s2c \o <<Dispatch(s, Len(log'[s]), "EVENT")>>
      /\ attached # s => s2c' = s2c
  BY DEF SrvPublish, structVars, callVars, seenVars, Sends
<1>3. log \in Logs /\ s2c \in Seq(Payloads) /\ Base(cs) \in Nat /\ "EVENT" \in EventNames
  BY BaseType DEF IInv, DataOK, NetOK, Logs, EventNames
<1>4. /\ log' \in Logs /\ log'[s] = Append(log[s], "EVENT")
      /\ \A t \in Sessions : t # s => log'[t] = log[t]
      /\ \A t \in Sessions : Len(log[t]) <= Len(log'[t]) /\ Len(log[t]) \in Nat /\ Len(log'[t]) \in Nat
                             /\ \A i \in 1..Len(log[t]) : log'[t][i] = log[t][i]
  <2>1. log[s] \in Seq(EventNames)
    BY <1>3 DEF Logs
  <2> DEFINE a == Append(log[s], "EVENT")
  <2>2. a \in Seq(EventNames) /\ Len(a) = Len(log[s]) + 1 /\ \A i \in 1..Len(log[s]) : a[i] = log[s][i]
    BY <1>3, <2>1, AppendProperties
  <2>3. log' = [log EXCEPT ![s] = a]
    BY <1>2
  <2> HIDE DEF a
  <2>4. log' \in Logs /\ log'[s] = a /\ \A t \in Sessions : t # s => log'[t] = log[t]
    BY <1>3, <2>2, <2>3 DEF Logs
  <2>5. ASSUME NEW t \in Sessions
        PROVE  Len(log[t]) <= Len(log'[t]) /\ Len(log[t]) \in Nat /\ Len(log'[t]) \in Nat
               /\ \A i \in 1..Len(log[t]) : log'[t][i] = log[t][i]
    <3>1. log[t] \in Seq(EventNames) /\ Len(log[t]) \in Nat
      BY <1>3 DEF Logs
    <3>2. CASE t = s
      BY <2>2, <2>4, <3>1, <3>2
    <3>3. CASE t # s
      BY <2>4, <3>1, <3>3
    <3> QED
      BY <3>2, <3>3
  <2> QED
    BY <2>4, <2>5 DEF a
<1>5. Base(cs)' = Base(cs) /\ HasBuffered' = HasBuffered
  BY <1>2 DEF Base, HasBuffered
<1>6. Cursors'
  <2> SUFFICES ASSUME NEW t \in Sessions PROVE cursor[t] <= Len(log'[t])
    BY <1>2 DEF IInv, SInv, Cursors
  <2>1. cursor[t] \in Nat /\ cursor[t] <= Len(log[t])
    BY DEF IInv, SInv, Cursors, DataOK
  <2> QED
    BY <1>4, <2>1
<1>7. HasBuffered' => cs \in Sessions /\ cursor'[cs] + 1 <= Len(log'[cs])
                      /\ bufferedEvent' = Entry(log, cs, cursor[cs] + 1)'
  <2> SUFFICES ASSUME HasBuffered
               PROVE  cs \in Sessions /\ cursor[cs] + 1 <= Len(log'[cs])
                      /\ bufferedEvent = Entry(log', cs, cursor[cs] + 1)
    BY <1>2, <1>5 DEF Entry
  <2>1. cs \in Sessions /\ cursor[cs] + 1 <= Len(log[cs]) /\ bufferedEvent = Entry(log, cs, cursor[cs] + 1)
    BY <1>1 DEF OnWire
  <2>2. cursor[cs] \in Nat
    BY <2>1 DEF IInv, DataOK
  <2>3. log'[cs][cursor[cs] + 1] = log[cs][cursor[cs] + 1] /\ cursor[cs] + 1 <= Len(log'[cs])
    BY <1>4, <2>1, <2>2
  <2> QED
    BY <2>1, <2>3 DEF Entry
<1>8. Stream!Publish(s)
  BY <1>2, <1>3 DEF Stream!Publish
<1>9. CASE attached = s
  <2>1. attached # NoSession /\ cs = s
    BY <1>1, <1>9, GatewayAssumption DEF OnWire
  <2>2. Phases'
    <3>1. Dispatch(s, Len(log'[s]), "EVENT") \in Payloads
      BY <1>3, <1>4, PayloadTypes
    <3> QED
      BY <1>2, <1>9, <2>1, <3>1, SendingPhases
  <2>3. Follows(s2c', s, Base(s), log') /\ Complete(s2c', s, Base(s), log')
    <3>1. Follows(s2c, s, Base(s), log) /\ Complete(s2c, s, Base(s), log)
      BY <1>1, <2>1 DEF OnWire
    <3> DEFINE k == [log EXCEPT ![s] = Append(log[s], "EVENT")]
    <3>2. /\ Follows(s2c \o <<Dispatch(s, Len(k[s]), "EVENT")>>, s, Base(s), k)
          /\ Complete(s2c \o <<Dispatch(s, Len(k[s]), "EVENT")>>, s, Base(s), k)
      BY <1>3, <2>1, <3>1, FollowsEvent
    <3> QED
      BY <1>2, <1>9, <3>2
  <2>4. OnWire(cs)'
    BY <1>1, <1>2, <1>5, <1>7, <2>1, <2>3 DEF OnWire
  <2> QED
    BY <1>6, <1>8, <2>2, <2>4 DEF SInv
<1>10. CASE attached # s
  <2>1. Follows(s2c', cs, Base(cs)', log')
    <3>1. Follows(s2c, cs, Base(cs), log)
      BY <1>1 DEF OnWire
    <3>2. Follows(s2c, cs, Base(cs), log')
      BY <1>3, <1>4, <3>1, FollowsGrowth
    <3> QED
      BY <1>2, <1>5, <1>10, <3>2
  <2>2. attached' # NoSession => Complete(s2c', cs, Base(cs)', log')
    <3> SUFFICES ASSUME attached # NoSession PROVE Complete(s2c, cs, Base(cs), log')
      BY <1>2, <1>5, <1>10
    <3>1. cs = attached /\ cs \in Sessions /\ cs # s
      BY <1>1, <1>10 DEF OnWire, Sources
    <3>2. log'[cs] = log[cs] /\ Complete(s2c, cs, Base(cs), log)
      BY <1>1, <1>4, <3>1 DEF OnWire
    <3> QED
      BY <3>2 DEF Complete
  <2>3. OnWire(cs)'
    BY <1>1, <1>2, <1>7, <2>1, <2>2 DEF OnWire
  <2>4. Phases'
    BY <1>2, <1>10 DEF IInv, SInv, Phases, Quiet
  <2> QED
    BY <1>6, <1>8, <2>3, <2>4 DEF SInv
<1> QED
  BY <1>8, <1>9, <1>10

\* The service forgets a session.
LEMMA InvalidateStep ==
    ASSUME IInv, NEW s \in Sessions, SrvInvalidate(s)
    PROVE  SInv'
<1>1. CASE attached = s
  <2>1. attached # NoSession
    BY <1>1, GatewayAssumption
  <2>2. InvalidSession(FALSE) \in Payloads /\ InvalidSession(FALSE).op # "Dispatch"
    BY PayloadTypes, Opcodes
  <2> QED
    BY <1>1, <2>1, <2>2, ControlStep DEF SrvInvalidate
<1>2. CASE attached # s
  <2>1. UNCHANGED <<conn, bufferedEvent, sessionID, sequenceNumber, s2c, attached, log, cursor, pc, c2s>>
    BY <1>2 DEF SrvInvalidate, structVars, callVars, seenVars
  <2>2. Phases'
    BY <2>1 DEF IInv, SInv, Phases, Quiet
  <2> QED
    BY <2>1, <2>2, Undisturbed DEF IInv, SInv
<1> QED
  BY <1>1, <1>2

\* The service asks for a reconnect, or sends something else.
LEMMA SrvControlStep ==
    ASSUME IInv, SrvControl
    PROVE  SInv'
<1>1. PICK m \in {Reconnect, InvalidSession(TRUE), OtherPayload} : Sends(<<m>>)
  BY DEF SrvControl
<1>2. m \in Payloads /\ m.op # "Dispatch"
  BY PayloadTypes, Opcodes
<1> QED
  BY <1>1, <1>2, ControlStep DEF SrvControl, srvVars

----------------------------------------------------------------------------
(* The theorems *)

LEMMA InitInv == Init => IInv
<1> SUFFICES ASSUME Init PROVE SInv
  BY InitRes, InitData DEF IInv
<1>1. Cursors
  BY DEF Init, Cursors
<1>2. Phases
  BY DEF Init, Phases, Quiet
<1>3. OnWire(NoSession)
  BY FollowsNothing DEF Init, OnWire, HasBuffered
<1> QED
  BY <1>1, <1>2, <1>3 DEF SInv, Sources

LEMMA NextInv == IInv /\ [Next]_vars => IInv'
<1> SUFFICES ASSUME IInv, [Next]_vars PROVE SInv'
  BY NextRes, NextData DEF IInv
<1>1. PICK cs \in Sources : OnWire(cs)
  BY DEF IInv, SInv
<1>2. CASE ListenBuffered \/ ListenDispatch
  BY <1>1, <1>2, BufferedStep, DispatchStep
<1>3. CASE Client /\ ~(ListenBuffered \/ ListenDispatch)
  BY <1>3, CallSteps, CloseSteps, DialSteps, HandshakeSteps, BufferSteps DEF Client, Connect
<1>4. CASE Answer
  BY <1>4, RefuseStep, IdentifyStep, ResumeStep DEF Answer
<1>5. CASE Environment
  BY <1>5, SrvControlStep, DropStep, PublishStep, InvalidateStep DEF Environment
<1>6. CASE CallListen \/ CallWaitForReady \/ Cancel \/ Close \/ UNCHANGED vars
  BY <1>6, CallSteps, CloseSteps
<1> QED
  BY <1>2, <1>3, <1>4, <1>5, <1>6 DEF Next

\* Every resume asks for exactly what follows the last event the application
\* was given in that session, through any number of drops, failed handshakes,
\* cancelled calls and invalidated sessions.
THEOREM ResumesFromCursor == Spec => []ResumeFromCursor
<1>1. ASSUME IInv, NEW i \in 1..Len(c2s), c2s[i].op = "Resume"
      PROVE  c2s[i].seq = cursor[c2s[i].sess]
  <2>1. c2s # <<>>
    BY <1>1
  <2>2. \/ pc = "resume" /\ c2s = <<Resume(sessionID, sequenceNumber)>> /\ sessionID # NoSession
        \/ pc = "identify" /\ c2s = <<Identify>>
    BY <1>1, <2>1 DEF IInv, SInv, Phases
  <2>3. c2s[i] = Resume(sessionID, sequenceNumber) /\ sessionID # NoSession
    <3>1. i = 1
      BY <1>1, <2>2
    <3> QED
      BY <1>1, <2>2, <3>1, Opcodes
  <2>4. c2s[i].seq = sequenceNumber /\ c2s[i].sess = sessionID
    BY <2>3, Opcodes
  <2> QED
    BY <1>1, <2>3, <2>4 DEF IInv, SInv, Cursors
<1>2. IInv => ResumeFromCursor
  BY <1>1 DEF ResumeFromCursor
<1> QED
  BY InitInv, NextInv, <1>2, PTL DEF Spec

\* A step of Listen that hands out an event consumes the next entry.
LEMMA Consumes ==
    ASSUME IInv, NEW cs \in Sessions, cursor[cs] + 1 <= Len(log[cs]),
           sessionID # NoSession => sessionID = cs,
           HandOut(Entry(log, cs, cursor[cs] + 1)), UNCHANGED log
    PROVE  Stream!Consume(cs)
<1>1. cursor[cs] < Len(log[cs])
  BY DEF IInv, DataOK
<1>2. /\ cursor' = [cursor EXCEPT ![cs] = cursor[cs] + 1]
      /\ received' = IF log[cs][cursor[cs] + 1] = "RESUMED" THEN received
                     ELSE Append(received, <<cs, cursor[cs] + 1>>)
  BY HandOutStep
<1> QED
  BY <1>1, <1>2 DEF Stream!Consume

\* Every step is a step of the event stream or none.
LEMMA StepMaps == IInv /\ [Next]_vars => [Stream!Next]_(Stream!vars)
<1> SUFFICES ASSUME IInv, [Next]_vars PROVE [Stream!Next]_(Stream!vars)
  OBVIOUS
<1>1. PICK cs \in Sources : OnWire(cs)
  BY DEF IInv, SInv
<1>2. CASE ListenBuffered
  <2>1. cs \in Sessions /\ cursor[cs] + 1 <= Len(log[cs])
        /\ HandOut(Entry(log, cs, cursor[cs] + 1)) /\ UNCHANGED log
    BY <1>1, <1>2, BufferedStep
  <2>2. Stream!Consume(cs)
    BY <1>1, <2>1, Consumes DEF OnWire
  <2> QED
    BY <2>1, <2>2 DEF Stream!Next
<1>3. CASE ListenDispatch
  <2>1. cs \in Sessions /\ cursor[cs] + 1 <= Len(log[cs])
        /\ HandOut(Entry(log, cs, cursor[cs] + 1)) /\ UNCHANGED log
    BY <1>1, <1>3, DispatchStep
  <2>2. Stream!Consume(cs)
    BY <1>1, <2>1, Consumes DEF OnWire
  <2> QED
    BY <2>1, <2>2 DEF Stream!Next
<1>4. ASSUME NEW s \in Sessions, SrvIdentify(s) \/ SrvResume(s) \/ SrvPublish(s)
      PROVE  [Stream!Next]_(Stream!vars)
  BY <1>4, IdentifyStep, ResumeStep, PublishStep DEF Stream!Next
<1>5. ASSUME UNCHANGED <<log, cursor, received>> PROVE [Stream!Next]_(Stream!vars)
  BY <1>5 DEF Stream!vars
<1>6. CASE CallListen \/ CallWaitForReady \/ Cancel \/ Close
  BY <1>5, <1>6 DEF CallListen, CallWaitForReady, Cancel, Close, srvVars, seenVars
<1>7. CASE ConnectReuse \/ Dial \/ DialFails \/ ReadHello \/ HelloFails
  BY <1>5, <1>7 DEF ConnectReuse, Dial, DialFails, ReadHello, HelloFails, srvVars, seenVars
<1>8. CASE SendResume \/ SendIdentify \/ WriteFails \/ ResumeAccepted \/ ResumeRejected \/ ResumeFails
  BY <1>5, <1>8 DEF SendResume, SendIdentify, WriteFails, ResumeAccepted, ResumeRejected, ResumeFails,
     connectFailed, srvVars, seenVars
<1>9. CASE ReidentifyTimer \/ ReidentifyCancelled \/ IdentifyAccepted \/ IdentifyFails
  BY <1>5, <1>9 DEF ReidentifyTimer, ReidentifyCancelled, IdentifyAccepted, IdentifyFails,
     connectFailed, srvVars, seenVars
<1>10. CASE \/ RetryTimer \/ RetryCancelled \/ WaitForReadyReturns \/ ListenTop \/ ListenNext
            \/ ListenReconnect \/ ListenFails
  BY <1>5, <1>10 DEF RetryTimer, RetryCancelled, WaitForReadyReturns, ListenTop, ListenNext,
     ListenReconnect, ListenFails, srvVars, seenVars
<1>11. CASE SrvRefuse \/ SrvControl \/ Drop
  BY <1>5, <1>11 DEF SrvRefuse, SrvControl, Drop, srvVars, seenVars
<1>12. ASSUME NEW s \in Sessions, SrvInvalidate(s) PROVE [Stream!Next]_(Stream!vars)
  BY <1>5, <1>12 DEF SrvInvalidate, seenVars
<1>13. CASE UNCHANGED vars
  BY <1>5, <1>13 DEF vars, srvVars, seenVars
<1> QED
  BY <1>2, <1>3, <1>4, <1>6, <1>7, <1>8, <1>9, <1>10, <1>11, <1>12, <1>13
     DEF Next, Client, Connect, Answer, Environment

\* Gateway implements EventStream: Listen hands out every session's events in
\* order, none skipped and none twice, for every set of sessions and any number
\* of connections.
THEOREM ImplementsEventStream == Spec => EventStreamSpec
<1>1. Init => Stream!Init
  BY DEF Init, Stream!Init
<1> QED
  BY <1>1, InitInv, NextInv, StepMaps, PTL DEF Spec, EventStreamSpec, Stream!Spec
==============================================================================
