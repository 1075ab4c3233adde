---------------------------- MODULE SessionProofs ----------------------------
(***************************************************************************)
(* Theorems about FakeGateway and, further down, about the client's Gateway*)
(* against it (Session), for every number of messages, requests and losses.*)
(***************************************************************************)
EXTENDS Session, SequenceTheorems, TLAPS

\* The notifier has events in hand exactly while it sends them: what it takes
\* from the queue then neither overwrites a batch nor leaves Head without one.
BatchOK ==
    /\ notifier = "send" => batch # <<>>
    /\ notifier \in {"lock", "wait"} => batch = <<>>

Inv == TypeOK /\ BatchOK /\ NoLostWakeup /\ EventsInOrder

----------------------------------------------------------------------------
(* Sequences *)

\* What is appended to the last of the four places is appended to the whole.
LEMMA AppendToQueue ==
    ASSUME NEW S, NEW s \in Seq(S), NEW t \in Seq(S), NEW e \in S
    PROVE  s \o Append(t, e) = Append(s \o t, e)
<1>1. Append(t, e) = t \o <<e>> /\ Append(s \o t, e) = (s \o t) \o <<e>>
  BY AppendIsConcat, ConcatProperties
<1>2. <<e>> \in Seq(S)
  OBVIOUS
<1> QED
  BY <1>1, <1>2, ConcatAssociative

\* A sequence is its head and its tail.
LEMMA HeadAndTail ==
    ASSUME NEW S, NEW s \in Seq(S), s # <<>>
    PROVE  s = <<Head(s)>> \o Tail(s) /\ Head(s) \in S /\ Tail(s) \in Seq(S)
<1>1. Head(s) \in S /\ Tail(s) \in Seq(S) /\ Len(Tail(s)) = Len(s) - 1
      /\ \A i \in 1..Len(Tail(s)) : Tail(s)[i] = s[i + 1]
  BY HeadTailProperties
<1> DEFINE r == <<Head(s)>> \o Tail(s)
<1>2. <<Head(s)>> \in Seq(S) /\ Len(<<Head(s)>>) = 1 /\ <<Head(s)>>[1] = s[1]
  BY <1>1
<1>3. r \in Seq(S) /\ Len(r) = 1 + Len(Tail(s))
      /\ \A i \in 1..(1 + Len(Tail(s))) :
            r[i] = IF i <= 1 THEN <<Head(s)>>[i] ELSE Tail(s)[i - 1]
  BY <1>1, <1>2, ConcatProperties
<1>4. Len(s) \in Nat
  OBVIOUS
<1>5. Len(r) = Len(s)
  BY <1>1, <1>3, <1>4
<1>6. ASSUME NEW i \in 1..Len(r) PROVE r[i] = s[i]
  <2> HIDE DEF r
  <2>1. CASE i = 1
    BY <1>2, <1>3, <1>4, <1>5, <2>1
  <2>2. CASE i # 1
    <3>1. i \in 1..(1 + Len(Tail(s))) /\ i - 1 \in 1..Len(Tail(s)) /\ ~(i <= 1) /\ (i - 1) + 1 = i
      BY <1>1, <1>3, <1>4, <1>5, <2>2
    <3> QED
      BY <1>1, <1>3, <3>1
  <2> QED
    BY <2>1, <2>2
<1> QED
  BY <1>1, <1>3, <1>5, <1>6, SeqEqual

----------------------------------------------------------------------------
(* Types *)

LEMMA PayloadTypes ==
    /\ Hello \in Outbound /\ nothing \in Outbound
    /\ idleWriter \in {"select", "write", "done"} \X Outbound
    /\ doneWriter \in {"select", "write", "done"} \X Outbound
    /\ \A r \in Replies : Reply(r) \in Outbound
    /\ \A n \in Events : Event(n) \in Outbound
BY DEF idleWriter, doneWriter, Outbound

\* What the writer has in hand is at most one event, and one that was queued.
LEMMA NumberType ==
    /\ \A m \in Outbound : Number(m) \in Seq(Events)
    /\ Number(nothing) = <<>>
    /\ \A r \in Replies : Number(Reply(r)) = <<>>
    /\ \A n \in Events : Number(Event(n)) = <<n>>
<1>1. Number(nothing) = <<>> /\ Number(Hello) = <<>>
  BY DEF Number, nothing, Hello
<1>2. ASSUME NEW r \in Replies PROVE Number(Reply(r)) = <<>>
  BY DEF Number, Reply, Replies
<1>3. ASSUME NEW n \in Events PROVE Number(Event(n)) = <<n>> /\ <<n>> \in Seq(Events)
  BY DEF Number, Event
<1>4. <<>> \in Seq(Events)
  OBVIOUS
<1> QED
  BY <1>1, <1>2, <1>3, <1>4 DEF Outbound

\* A fresh payload leaves the writer, or nothing does.
LEMMA NextType ==
    ASSUME TypeOK, BatchOK, [Next]_vars
    PROVE  TypeOK' /\ BatchOK'
<1> USE DEF TypeOK, BatchOK, gwVars, hdVars, netVars, msgVars
<1>1. CASE createMessage
  <2>1. posted' \in Events
    BY <1>1, FakeGatewayAssumption DEF createMessage, Events
  <2>2. posted' \in 0..MaxEvents
    BY <2>1 DEF Events
  <2>3. queue' \in Seq(Events) /\ pushed' \in Seq(Events)
    <3>1. Append(queue, posted') \in Seq(Events) /\ Append(pushed, posted') \in Seq(Events)
      BY <2>1, AppendProperties
    <3> QED
      BY <1>1, <3>1 DEF createMessage, lockedPush
  <2>4. queueNotify' \in BOOLEAN
    <3>1. queueNotify' = FALSE \/ queueNotify' = queueNotify
      BY <1>1, Zenon DEF createMessage, lockedPush
    <3> QED
      BY <3>1
  <2> QED
    BY <1>1, <2>2, <2>3, <2>4 DEF createMessage
<1>2. CASE Start
  <2>1. wire' \in Seq(Outbound)
    BY <1>2, PayloadTypes DEF Start
  <2> QED
    BY <1>2, <2>1 DEF Start
<1>3. CASE StartFails
  BY <1>3 DEF StartFails
<1>4. CASE Finish
  <2>1. <<>> \in Seq(Questions)
    OBVIOUS
  <2> QED
    BY <1>4, <2>1 DEF Finish
<1>5. CASE ReadPayload
  <2>1. c2s' \in Seq(Questions) /\ Head(c2s) \in Questions
    BY <1>5 DEF ReadPayload
  <2>2. reader' \in Replies /\ authUser' \in BOOLEAN
    BY <1>5, <2>1 DEF ReadPayload, Questions, Replies
  <2> QED
    BY <1>5, <2>1, <2>2 DEF ReadPayload
<1>6. CASE ReadFails
  BY <1>6 DEF ReadFails
<1>7. CASE TakeQueue
  <2>1. <<>> \in Seq(Events)
    OBVIOUS
  <2> QED
    BY <1>7, <2>1 DEF TakeQueue
<1>8. CASE AwaitQueue
  BY <1>8 DEF AwaitQueue
<1>9. CASE QueueNotified
  BY <1>9 DEF QueueNotified
<1>10. CASE NotifierCancelled
  BY <1>10 DEF NotifierCancelled
<1>11. CASE SendReply
  <2>1. writer' \in {"select", "write", "done"} \X Outbound
    BY <1>11, PayloadTypes DEF SendReply
  <2> QED
    BY <1>11, <2>1 DEF SendReply
<1>12. CASE SendEvent
  <2>1. batch # <<>> /\ Head(batch) \in Events /\ batch' \in Seq(Events)
    BY <1>12, HeadAndTail DEF SendEvent
  <2>2. writer' \in {"select", "write", "done"} \X Outbound
    BY <1>12, <2>1, PayloadTypes DEF SendEvent
  <2>3. (notifier' = "lock" /\ batch' = <<>>) \/ (notifier' = "send" /\ batch' # <<>>)
    <3>1. Len(batch') = Len(batch) - 1 /\ Len(batch) \in Nat /\ Len(batch') \in Nat
      BY <1>12, <2>1, HeadTailProperties DEF SendEvent
    <3>2. CASE Len(batch) = 1
      <4>1. notifier' = "lock" /\ Len(batch') = 0
        BY <1>12, <3>1, <3>2 DEF SendEvent
      <4> QED
        BY <2>1, <4>1, EmptySeq
    <3>3. CASE Len(batch) # 1
      <4>1. notifier' = "send" /\ Len(batch') # 0
        BY <1>12, <3>1, <3>3 DEF SendEvent
      <4> QED
        BY <4>1, EmptySeq
    <3> QED
      BY <3>2, <3>3
  <2> QED
    BY <1>12, <2>1, <2>2, <2>3 DEF SendEvent
<1>13. CASE SendCancelled
  BY <1>13 DEF SendCancelled
<1>14. CASE Written
  <2>1. writer[2] \in Outbound /\ Number(writer[2]) \in Seq(Events)
    BY NumberType
  <2>2. wire' \in Seq(Outbound) /\ written' \in Seq(Events)
    <3>1. Append(wire, writer[2]) \in Seq(Outbound)
      BY <2>1, AppendProperties
    <3>2. written \o Number(writer[2]) \in Seq(Events)
      BY <2>1, ConcatProperties
    <3> QED
      BY <1>14, <3>1, <3>2 DEF Written
  <2> QED
    BY <1>14, <2>2, PayloadTypes DEF Written
<1>15. CASE WriterStops
  BY <1>15, PayloadTypes DEF WriterStops
<1>16. CASE ClientSends
  <2>1. c2s' \in Seq(Questions)
    BY <1>16 DEF ClientSends
  <2>2. requests' \in 0..MaxRequests
    BY <1>16, FakeGatewayAssumption DEF ClientSends
  <2> QED
    BY <1>16, <2>1, <2>2 DEF ClientSends
<1>17. CASE ClientLeaves
  <2>1. c2s' \in Seq(Questions)
    BY <1>17 DEF ClientLeaves
  <2> QED
    BY <1>17, <2>1 DEF ClientLeaves
<1>18. CASE ClientStalls
  BY <1>18 DEF ClientStalls
<1>19. CASE UNCHANGED vars
  BY <1>19 DEF vars
<1> QED
  BY <1>1, <1>2, <1>3, <1>4, <1>5, <1>6, <1>7, <1>8, <1>9, <1>10, <1>11, <1>12, <1>13, <1>14,
     <1>15, <1>16, <1>17, <1>18, <1>19
  DEF Next, Handler, Reader, Notifier, Sending, Writer

LEMMA InitInv == Init => Inv
<1> SUFFICES ASSUME Init PROVE Inv
  OBVIOUS
<1> USE DEF Init
<1>1. /\ <<>> \in Seq(Events) /\ <<>> \in Seq(Questions) /\ <<>> \in Seq(Outbound)
      /\ 0 \in 0..MaxRequests /\ 0 \in 0..MaxEvents
  BY FakeGatewayAssumption
<1>2. TypeOK
  BY <1>1, PayloadTypes DEF TypeOK
<1>3. EventsInOrder
  <2>1. writer[2] = nothing
    BY DEF idleWriter
  <2>2. <<>> \o <<>> \o <<>> \o <<>> = <<>>
    BY <1>1, ConcatEmptySeq
  <2> QED
    BY <2>1, <2>2, NumberType DEF EventsInOrder
<1> QED
  BY <1>2, <1>3 DEF Inv, BatchOK, NoLostWakeup

----------------------------------------------------------------------------
(* No wakeup is lost *)

\* Only a push puts an event in a queue the notifier may be waiting on, and a
\* push to an empty queue closes the channel.
LEMMA NextWakeup ==
    ASSUME TypeOK, NoLostWakeup, [Next]_vars
    PROVE  NoLostWakeup'
<1>1. CASE createMessage
  <2>1. CASE UNCHANGED <<queue, queueNotify>>
    BY <1>1, <2>1 DEF createMessage, hdVars, NoLostWakeup
  <2>2. CASE lockedPush(posted')
    <3>1. CASE queue = <<>>
      <4>1. Len(queue') = 1
        <5>1. queue' = <<posted'>>
          BY <2>2, <3>1 DEF lockedPush
        <5> QED
          BY <5>1
      <4>2. queueNotify' = FALSE
        BY <2>2, <4>1 DEF lockedPush
      <4> QED
        BY <4>2 DEF NoLostWakeup
    <3>2. CASE queue # <<>>
      <4>1. queueNotify' = FALSE \/ queueNotify' = queueNotify
        BY <2>2, Zenon DEF lockedPush
      <4> QED
        BY <1>1, <3>2, <4>1 DEF createMessage, hdVars, NoLostWakeup
    <3> QED
      BY <3>1, <3>2
  <2> QED
    BY <1>1, <2>1, <2>2 DEF createMessage
<1>2. CASE TakeQueue
  BY <1>2 DEF TakeQueue, NoLostWakeup
<1>3. CASE AwaitQueue
  BY <1>3 DEF AwaitQueue, NoLostWakeup
<1>4. ASSUME notifier' = notifier \/ notifier' # "wait", UNCHANGED <<queue, queueNotify>>
      PROVE  NoLostWakeup'
  BY <1>4 DEF NoLostWakeup
<1>5. CASE Handler
  BY <1>4, <1>5 DEF Handler, Start, StartFails, Finish, gwVars
<1>6. CASE Reader
  BY <1>4, <1>6 DEF Reader, ReadPayload, ReadFails, gwVars
<1>7. CASE QueueNotified \/ NotifierCancelled
  BY <1>4, <1>7 DEF QueueNotified, NotifierCancelled, gwVars
<1>8. CASE Sending
  BY <1>4, <1>8 DEF Sending, SendReply, SendEvent, SendCancelled, gwVars
<1>9. CASE Writer
  BY <1>4, <1>9 DEF Writer, Written, WriterStops, gwVars
<1>10. CASE ClientSends \/ ClientLeaves \/ ClientStalls \/ UNCHANGED vars
  BY <1>4, <1>10 DEF ClientSends, ClientLeaves, ClientStalls, vars, gwVars, hdVars
<1> QED
  BY <1>1, <1>2, <1>3, <1>5, <1>6, <1>7, <1>8, <1>9, <1>10 DEF Next, Notifier

----------------------------------------------------------------------------
(* Events stay in order *)

\* Each of the four hands an event on to the one before it, at the end where
\* the other takes it.
LEMMA NextOrder ==
    ASSUME TypeOK, BatchOK, EventsInOrder, [Next]_vars
    PROVE  EventsInOrder'
<1> DEFINE inWriter == Number(writer[2])
<1>1. /\ written \in Seq(Events) /\ inWriter \in Seq(Events)
      /\ batch \in Seq(Events) /\ queue \in Seq(Events)
  BY NumberType DEF TypeOK
<1>2. <<>> \in Seq(Events)
  OBVIOUS
<1>3. written \o inWriter \in Seq(Events) /\ written \o inWriter \o batch \in Seq(Events)
  BY <1>1, ConcatProperties
<1>4. ASSUME UNCHANGED <<written, writer, batch, queue, pushed>>, link' => link
      PROVE  EventsInOrder'
  BY <1>4 DEF EventsInOrder
<1>5. CASE createMessage
  <2>1. CASE UNCHANGED <<queue, pushed>>
    BY <1>4, <1>5, <2>1 DEF createMessage, hdVars, netVars
  <2>2. CASE lockedPush(posted') /\ pushed' = Append(pushed, posted')
    <3>1. posted' \in Events
      BY <1>5, FakeGatewayAssumption DEF createMessage, Events, TypeOK
    <3>2. (written \o inWriter \o batch) \o Append(queue, posted')
            = Append(written \o inWriter \o batch \o queue, posted')
      <4> HIDE DEF inWriter
      <4> QED
        BY <1>1, <1>3, <3>1, AppendToQueue
    <3>3. queue' = Append(queue, posted') /\ UNCHANGED <<written, writer, batch, link>>
      BY <1>5, <2>2 DEF createMessage, lockedPush, hdVars, netVars
    <3> QED
      BY <2>2, <3>2, <3>3 DEF EventsInOrder
  <2> QED
    BY <1>5, <2>1, <2>2 DEF createMessage
<1>6. CASE TakeQueue
  <2>1. batch = <<>> /\ batch' = queue /\ queue' = <<>> /\ UNCHANGED <<written, writer, link, pushed>>
    BY <1>6 DEF TakeQueue, BatchOK, netVars, msgVars
  <2>2. (written \o inWriter \o <<>>) \o queue = (written \o inWriter \o queue) \o <<>>
    <3> HIDE DEF inWriter
    <3>1. written \o inWriter \o queue \in Seq(Events)
      BY <1>1, <1>3, ConcatProperties
    <3> QED
      BY <1>3, <3>1, ConcatEmptySeq
  <2> QED
    BY <2>1, <2>2 DEF EventsInOrder
<1>7. CASE SendReply
  <2>1. writer[2] = nothing /\ writer'[2] = Reply(reader) /\ reader \in Replies
    BY <1>7 DEF SendReply, idleWriter
  <2>2. Number(writer[2]) = <<>> /\ Number(writer'[2]) = <<>>
    BY <2>1, NumberType
  <2> QED
    BY <1>7, <2>2 DEF SendReply, EventsInOrder, gwVars, netVars, msgVars
<1>8. CASE SendEvent
  <2>1. batch # <<>>
    BY <1>8 DEF SendEvent, BatchOK
  <2>2. /\ batch = <<Head(batch)>> \o Tail(batch)
        /\ Head(batch) \in Events /\ Tail(batch) \in Seq(Events)
    BY <1>1, <2>1, HeadAndTail
  <2>3. writer[2] = nothing /\ writer'[2] = Event(Head(batch)) /\ batch' = Tail(batch)
    BY <1>8 DEF SendEvent, idleWriter
  <2>4. Number(writer[2]) = <<>> /\ Number(writer'[2]) = <<Head(batch)>>
    BY <2>2, <2>3, NumberType
  <2>5. <<Head(batch)>> \in Seq(Events)
    BY <2>2
  <2>6. (written \o <<>>) \o batch = (written \o <<Head(batch)>>) \o Tail(batch)
    <3>1. written \o <<>> = written
      BY <1>1, ConcatEmptySeq
    <3>2. (written \o <<Head(batch)>>) \o Tail(batch) = written \o (<<Head(batch)>> \o Tail(batch))
      BY <1>1, <2>2, <2>5, ConcatAssociative
    <3> QED
      BY <2>2, <3>1, <3>2
  <2>7. UNCHANGED <<written, queue, link, pushed>>
    BY <1>8 DEF SendEvent, gwVars, netVars, msgVars
  <2> QED
    BY <2>3, <2>4, <2>6, <2>7 DEF EventsInOrder
<1>9. CASE Written
  <2>1. CASE link
    <3>1. /\ written' = written \o inWriter /\ writer'[2] = nothing
          /\ UNCHANGED <<batch, queue, link, pushed>>
      BY <1>9, <2>1 DEF Written, idleWriter, gwVars
    <3>2. Number(writer'[2]) = <<>>
      BY <3>1, NumberType
    <3>3. (written \o inWriter) \o <<>> = written \o inWriter
      BY <1>3, ConcatEmptySeq
    <3> QED
      BY <3>1, <3>2, <3>3 DEF EventsInOrder
  <2>2. CASE ~link
    BY <1>9, <2>2 DEF Written, EventsInOrder
  <2> QED
    BY <2>1, <2>2
<1>10. CASE WriterStops
  <2>1. CASE link
    <3>1. writer[2] = nothing /\ writer'[2] = nothing
      BY <1>10, <2>1 DEF WriterStops, idleWriter, doneWriter
    <3> QED
      BY <1>10, <3>1 DEF WriterStops, EventsInOrder, gwVars, netVars, msgVars
  <2>2. CASE ~link
    BY <1>10, <2>2 DEF WriterStops, EventsInOrder, netVars
  <2> QED
    BY <2>1, <2>2
<1>11. CASE Handler
  BY <1>4, <1>11 DEF Handler, Start, StartFails, Finish, gwVars, netVars, msgVars
<1>12. CASE Reader
  BY <1>4, <1>12 DEF Reader, ReadPayload, ReadFails, gwVars, netVars, msgVars
<1>13. CASE AwaitQueue \/ QueueNotified \/ NotifierCancelled
  BY <1>4, <1>13 DEF AwaitQueue, QueueNotified, NotifierCancelled, gwVars, netVars, msgVars
<1>14. CASE SendCancelled
  BY <1>4, <1>14 DEF SendCancelled, gwVars, netVars, msgVars
<1>15. CASE ClientSends \/ ClientLeaves \/ ClientStalls \/ UNCHANGED vars
  BY <1>4, <1>15 DEF ClientSends, ClientLeaves, ClientStalls, vars, gwVars, hdVars, netVars, msgVars
<1> QED
  BY <1>5, <1>6, <1>7, <1>8, <1>9, <1>10, <1>11, <1>12, <1>13, <1>14, <1>15
  DEF Next, Notifier, Sending, Writer

----------------------------------------------------------------------------

LEMMA NextInv == Inv /\ [Next]_vars => Inv'
BY NextType, NextWakeup, NextOrder DEF Inv

\* The type invariant, for every number of messages and requests.
THEOREM TypeCorrect == Spec => []TypeOK
<1>1. Inv => TypeOK
  BY DEF Inv
<1> QED
  BY InitInv, NextInv, <1>1, PTL DEF Spec

\* A notifier that waits with its channel open has nothing to hand over, however
\* createMessage, the look at the queue and the wait interleave.
THEOREM WakeupsKept == Spec => []NoLostWakeup
<1>1. Inv => NoLostWakeup
  BY DEF Inv
<1> QED
  BY InitInv, NextInv, <1>1, PTL DEF Spec

\* Whatever is posted while the websocket is up, its events are written in the
\* order of posting, none lost and none twice.
THEOREM OrderKept == Spec => []EventsInOrder
<1>1. Inv => EventsInOrder
  BY DEF Inv
<1> QED
  BY InitInv, NextInv, <1>1, PTL DEF Spec

----------------------------------------------------------------------------
(* The client's Gateway against it *)

\* While the websocket is up nothing of the handler has ended: this client asks
\* for nothing the handler gives up for.
Alive ==
    /\ link => ~ctxDone /\ client # "off"
    /\ ~ctxDone => reader # "done"
    /\ \A i \in 1..Len(c2s) : c2s[i] \in {"Heartbeat", "Identify"}

\* The first payload is Hello, and the client has read nothing before it.
Greeted ==
    /\ handler = "hello" => wire = <<>>
    /\ handler = "running" => wire # <<>>
    /\ wire # <<>> => wire[1] = Hello
    /\ registered => handler = "running"
    /\ session = 0 => handler = "returned" /\ client = "off"
    /\ client = "hello" => seen = 0 /\ requests = 0
    /\ client \in {"hello", "identify"} => ~buffered

Asked       == \E i \in 1..Len(c2s) : c2s[i] = "Identify"
Answering   == writer[2].kind = "READY"
Answered(m) == \E i \in 1..m : wire[i].kind = "READY"

\* A websocket carries Identify once and so READY once, in one place at a time.
ReadyOnce ==
    /\ authUser \/ client = "hello" => ~Asked
    /\ client = "hello" => ~authUser
    /\ \A i, j \in 1..Len(c2s) : c2s[i] = "Identify" /\ c2s[j] = "Identify" => i = j
    /\ ~authUser => reader # "READY" /\ ~Answering /\ ~Answered(Len(wire))
    /\ reader = "READY" => ~Answering /\ ~Answered(Len(wire))
    /\ Answering => ~Answered(Len(wire))
    /\ \A i, j \in 1..Len(wire) : wire[i].kind = "READY" /\ wire[j].kind = "READY" => i = j
    /\ client = "ready" => Answered(seen)

Ascending(s) == \A i, j \in 1..Len(s) : i < j => s[i] < s[j]

\* What is written of a websocket is the beginning of what was queued for it,
\* after the websocket has broken too.
Beginning ==
    /\ Ascending(pushed) /\ \A i \in 1..Len(pushed) : pushed[i] <= posted
    /\ Len(written) <= Len(pushed) /\ \A i \in 1..Len(written) : written[i] = pushed[i]

IsEvent(i) == wire[i].kind = "Event"

\* The events of wire are those of written, each once and in order.
OnWire ==
    /\ \A i \in 1..Len(wire) : IsEvent(i) => \E k \in 1..Len(written) : wire[i].n = written[k]
    /\ \A k \in 1..Len(written) : \E i \in 1..Len(wire) : IsEvent(i) /\ wire[i].n = written[k]
    /\ \A i, j \in 1..Len(wire) : i < j /\ IsEvent(i) /\ IsEvent(j) => wire[i].n < wire[j].n

\* The event of place i of wire is one of the first that Listen has handed out.
HandedOut(i) == \E k \in 1..Len(written) : k < cursor[session] /\ wire[i].n = written[k]

\* The cursor counts READY and then the events among what the client has read.
Consumed ==
    client # "off" =>
        /\ cursor[session] <= Len(written) + 1
        /\ cursor[session] = 0 <=> client # "ready" \/ buffered
        /\ \A i \in 1..Len(wire) : IsEvent(i) => (i <= seen <=> HandedOut(i))

\* The log of the websocket is READY and what was queued.
Logged ==
    /\ ~authUser => pushed = <<>>
    /\ session # 0 => Len(log[session]) = IF authUser THEN 1 + Len(pushed) ELSE 0
    /\ \A s \in Sessions : s > session => log[s] = <<>> /\ cursor[s] = 0

\* What was posted before the websocket's first event.
Before == IF pushed = <<>> THEN posted ELSE pushed[1] - 1

\* A websocket is given up for a loss or for an event of its own.
Counted ==
    session <= drops + IF client = "off" THEN posted ELSE Before + (IF link THEN 1 ELSE 0)

SInv ==
    /\ SessionTypeOK /\ BatchOK /\ EventsInOrder
    /\ Alive /\ Greeted /\ ReadyOnce /\ Beginning /\ OnWire /\ Consumed /\ Logged /\ Counted

\* The types of FakeGateway's variables that the client's steps change.
LEMMA ServerTypes ==
    ASSUME TypeOK
    PROVE  /\ queue \in Seq(Events) /\ batch \in Seq(Events) /\ pushed \in Seq(Events)
           /\ written \in Seq(Events) /\ c2s \in Seq(Questions) /\ wire \in Seq(Outbound)
           /\ requests \in 0..MaxRequests /\ requests \in Nat
           /\ posted \in 0..MaxEvents /\ posted \in Nat
           /\ Len(wire) \in Nat /\ Len(c2s) \in Nat /\ Len(pushed) \in Nat /\ Len(written) \in Nat
BY FakeGatewayAssumption DEF TypeOK

LEMMA ClientTypes ==
    ASSUME SessionTypeOK
    PROVE  /\ seen \in Nat /\ seen <= Len(wire) /\ drops \in Nat /\ drops <= MaxDrops
           /\ session \in Sessions \cup {0} /\ session \in Nat
           /\ log \in [Sessions -> Seq(EventNames)] /\ cursor \in [Sessions -> Nat]
           /\ received \in Seq(Sessions \X Nat)
<1>1. Len(wire) \in Nat
  BY ServerTypes DEF SessionTypeOK
<1> QED
  BY <1>1, SessionAssumption, FakeGatewayAssumption DEF SessionTypeOK, Sessions

\* One step as the steps of the server and of the client that it may be.
LEMMA SessionSteps ==
    ASSUME [SessionNext]_sessionVars
    PROVE  \/ PostMessage \/ Identified
           \/ /\ Start \/ StartFails \/ Finish \/ ReadFails \/ Notifier
                 \/ SendReply \/ SendEvent \/ SendCancelled \/ Written \/ WriterStops
              /\ UNCHANGED <<clientVars, drops, historyVars>>
           \/ Dial \/ ReadHello \/ ReadACK \/ ReadReady \/ Overtaken
           \/ ListenBuffered \/ ListenDispatch \/ ReadBroken
           \/ Heartbeat \/ Drop \/ Leave \/ UNCHANGED sessionVars
BY DEF SessionNext, ServerRuns, Client, Handler, Sending, Writer

\* The steps of FakeGateway among them.
LEMMA ServerSteps ==
    ASSUME \/ PostMessage \/ Identified \/ Start \/ StartFails \/ Finish \/ ReadFails \/ Notifier
           \/ SendReply \/ SendEvent \/ SendCancelled \/ Written \/ WriterStops
           \/ ReadACK \/ ReadReady \/ ListenBuffered \/ ListenDispatch \/ Drop
           \/ UNCHANGED sessionVars
    PROVE  [Next]_vars
BY DEF PostMessage, Identified, ReadACK, ReadReady, ListenBuffered, ListenDispatch, Drop,
       Next, Handler, Reader, Sending, Writer, sessionVars

\* What the client sends is a question.
LEMMA SendsTypes ==
    ASSUME TypeOK, NEW q \in Questions, Sends(q)
    PROVE  c2s' \in Seq(Questions)
<1>1. Append(c2s, q) \in Seq(Questions)
  BY ServerTypes, AppendProperties
<1> QED
  BY <1>1, ServerTypes DEF Sends

LEMMA GivesUpChanges ==
    ASSUME GivesUp
    PROVE  /\ client' = "off" /\ link' = FALSE /\ c2s' = <<>>
           /\ UNCHANGED <<registered, authUser, queue, queueNotify>>
           /\ UNCHANGED <<handler, ctxDone, reader, notifier, batch, writer>>
           /\ UNCHANGED <<stalled, wire, requests, posted, pushed, written>>
           /\ UNCHANGED <<buffered, seen, session, log, cursor, received>>
BY DEF GivesUp, gwVars, hdVars, msgVars, historyVars

\* The other steps: the client dials, sends or gives up.
LEMMA CoreNext ==
    ASSUME SessionTypeOK, Greeted, BatchOK, EventsInOrder, [SessionNext]_sessionVars
    PROVE  TypeOK' /\ BatchOK' /\ EventsInOrder'
<1>a. TypeOK
  BY DEF SessionTypeOK
<1>1. CASE [Next]_vars
  BY <1>a, <1>1, NextType, NextOrder
<1>2. CASE Dial
  <2> USE DEF Dial, NewWebsocket
  <2>1. /\ <<>> \in Seq(Events) /\ <<>> \in Seq(Questions) /\ <<>> \in Seq(Outbound)
        /\ 0 \in 0..MaxRequests
    BY FakeGatewayAssumption
  <2>2. TypeOK'
    BY <1>a, <1>2, <2>1, PayloadTypes DEF TypeOK
  <2>3. BatchOK'
    BY <1>2 DEF BatchOK
  <2>4. EventsInOrder'
    <3>1. writer'[2] = nothing
      BY <1>2 DEF idleWriter
    <3>2. <<>> \o <<>> \o <<>> \o <<>> = <<>>
      BY <2>1, ConcatEmptySeq
    <3> QED
      BY <1>2, <3>1, <3>2, NumberType DEF EventsInOrder
  <2> QED
    BY <2>2, <2>3, <2>4
<1>3. CASE ReadHello \/ Heartbeat
  <2>1. c2s' \in Seq(Questions)
    BY <1>a, <1>3, SendsTypes DEF ReadHello, Heartbeat, Questions
  <2>2. requests' \in 0..MaxRequests
    <3>1. requests \in Nat /\ MaxRequests \in Nat
      BY <1>a, ServerTypes, FakeGatewayAssumption
    <3>2. CASE ReadHello
      BY <3>1, <3>2, SessionAssumption DEF ReadHello, Greeted
    <3>3. CASE Heartbeat
      BY <3>1, <3>3 DEF Heartbeat
    <3> QED
      BY <1>3, <3>2, <3>3
  <2>3. UNCHANGED <<gwVars, hdVars, link, stalled, wire, msgVars>>
    BY <1>3 DEF ReadHello, Heartbeat
  <2>4. TypeOK'
    BY <1>a, <2>1, <2>2, <2>3 DEF TypeOK, gwVars, hdVars, msgVars
  <2>5. BatchOK' /\ EventsInOrder'
    BY <2>3 DEF BatchOK, EventsInOrder, gwVars, hdVars, msgVars
  <2> QED
    BY <2>4, <2>5
<1>4. CASE GivesUp
  <2>1. <<>> \in Seq(Questions)
    OBVIOUS
  <2>2. TypeOK'
    BY <1>a, <1>4, <2>1, GivesUpChanges DEF TypeOK
  <2>3. BatchOK' /\ EventsInOrder'
    BY <1>4, GivesUpChanges DEF BatchOK, EventsInOrder
  <2> QED
    BY <2>2, <2>3
<1> QED
  BY <1>1, <1>2, <1>3, <1>4, SessionSteps, ServerSteps DEF Overtaken, ReadBroken, Leave

----------------------------------------------------------------------------
(* The handler lives as long as its websocket *)

\* What one step does to what is on its way from the client: all of it moves up
\* by the payload that is read, and a payload is added at the end or the end is lost.
LEMMA Asking ==
    ASSUME SessionTypeOK, [SessionNext]_sessionVars
    PROVE  /\ Len(c2s') \in Nat
           /\ \E d \in {0, 1} :
                 /\ Identified => d = 1
                 /\ \A i \in 1..Len(c2s') :
                       \/ i + d \in 1..Len(c2s) /\ c2s'[i] = c2s[i + d]
                       \/ c2s'[i] = "Identify" /\ ReadHello /\ i = Len(c2s')
                       \/ c2s'[i] = "Heartbeat" /\ Heartbeat
<1>a. TypeOK /\ c2s \in Seq(Questions) /\ Len(c2s) \in Nat
  BY ServerTypes DEF SessionTypeOK
<1> DEFINE Moved(d) == \A i \in 1..Len(c2s') :
                          \/ i + d \in 1..Len(c2s) /\ c2s'[i] = c2s[i + d]
                          \/ c2s'[i] = "Identify" /\ ReadHello /\ i = Len(c2s')
                          \/ c2s'[i] = "Heartbeat" /\ Heartbeat
           Stays == \A i \in 1..Len(c2s') :
                       \/ i \in 1..Len(c2s) /\ c2s'[i] = c2s[i]
                       \/ c2s'[i] = "Identify" /\ ReadHello /\ i = Len(c2s')
                       \/ c2s'[i] = "Heartbeat" /\ Heartbeat
<1>b. ASSUME Len(c2s') \in Nat, Stays PROVE Moved(0)
  <2> SUFFICES ASSUME NEW i \in 1..Len(c2s')
               PROVE  \/ i + 0 \in 1..Len(c2s) /\ c2s'[i] = c2s[i + 0]
                      \/ c2s'[i] = "Identify" /\ ReadHello /\ i = Len(c2s')
                      \/ c2s'[i] = "Heartbeat" /\ Heartbeat
    OBVIOUS
  <2>1. i + 0 = i
    BY <1>b
  <2> QED
    BY <1>b, <2>1
<1> SUFFICES Len(c2s') \in Nat /\ (Moved(1) \/ (Stays /\ ~Identified))
  BY <1>b
<1>0. CASE c2s' = <<>>
  BY <1>0
<1>1. CASE UNCHANGED c2s /\ ~Identified
  BY <1>a, <1>1
<1>3. CASE Identified
  <2>1. c2s # <<>> /\ c2s' = Tail(c2s)
    BY <1>3 DEF Identified, ReadPayload
  <2>2. /\ Len(c2s') = Len(c2s) - 1 /\ \A i \in 1..Len(c2s') : c2s'[i] = c2s[i + 1]
        /\ c2s' \in Seq(Questions)
    BY <1>a, <2>1, HeadTailProperties
  <2>3. Len(c2s') \in Nat
    BY <2>2
  <2>4. \A i \in 1..Len(c2s') : i + 1 \in 1..Len(c2s)
    BY <1>a, <2>2, <2>3
  <2> QED
    BY <2>2, <2>3, <2>4
<1>4. CASE ReadHello \/ Heartbeat
  <2>0. ~Identified
    <3>1. UNCHANGED c2s \/ Len(c2s') = Len(c2s) + 1
      <4>1. ASSUME NEW q \in Questions, Sends(q)
            PROVE  UNCHANGED c2s \/ Len(c2s') = Len(c2s) + 1
        BY <1>a, <4>1, AppendProperties DEF Sends
      <4> QED
        BY <1>4, <4>1 DEF ReadHello, Heartbeat, Questions
    <3>2. Identified => Len(c2s') = Len(c2s) - 1
      BY <1>a, HeadTailProperties DEF Identified, ReadPayload
    <3> QED
      BY <1>a, <3>1, <3>2
  <2>1. ASSUME NEW q \in Questions, Sends(q)
        PROVE  /\ Len(c2s') \in Nat
               /\ \A i \in 1..Len(c2s') :
                     \/ i \in 1..Len(c2s) /\ c2s'[i] = c2s[i]
                     \/ c2s'[i] = q /\ i = Len(c2s')
    <3>1. CASE UNCHANGED c2s
      BY <1>a, <3>1
    <3>2. CASE c2s' = Append(c2s, q)
      <4>1. /\ Len(c2s') = Len(c2s) + 1 /\ c2s'[Len(c2s) + 1] = q
            /\ \A i \in 1..Len(c2s) : c2s'[i] = c2s[i]
        BY <1>a, <3>2, AppendProperties
      <4> QED
        BY <1>a, <4>1
    <3> QED
      BY <2>1, <3>1, <3>2 DEF Sends
  <2>2. CASE ReadHello
    <3>1. Sends("Identify") /\ "Identify" \in Questions
      BY <2>2 DEF ReadHello, Questions
    <3> QED
      BY <2>0, <2>1, <2>2, <3>1
  <2>3. CASE Heartbeat
    <3>1. Sends("Heartbeat") /\ "Heartbeat" \in Questions
      BY <2>3 DEF Heartbeat, Questions
    <3> QED
      BY <2>0, <2>1, <2>3, <3>1
  <2> QED
    BY <1>4, <2>2, <2>3
<1>5. CASE Drop /\ ~Identified
  <2>1. PICK n \in 0..Len(c2s) : c2s' = SubSeq(c2s, 1, n)
    BY <1>5 DEF Drop, ClientLeaves
  <2>2. n \in Nat /\ n <= Len(c2s)
    BY <1>a, <2>1
  <2>3. /\ Len(c2s') = n /\ \A i \in 1..n : c2s'[i] = c2s[i]
    BY <1>a, <2>1, <2>2
  <2> QED
    BY <1>a, <1>5, <2>2, <2>3
<1>6. CASE Finish \/ Dial \/ GivesUp
  BY <1>0, <1>6, GivesUpChanges DEF Finish, Dial, NewWebsocket
<1>7. CASE Start \/ StartFails \/ ReadFails \/ Notifier \/ SendReply \/ SendEvent
           \/ SendCancelled \/ Written \/ WriterStops
  BY <1>1, <1>3, <1>7 DEF Start, StartFails, ReadFails, Notifier, TakeQueue, AwaitQueue,
     QueueNotified, NotifierCancelled, SendReply, SendEvent, SendCancelled, Written, WriterStops,
     netVars
<1>8. CASE PostMessage \/ ReadACK \/ ReadReady \/ ListenBuffered \/ ListenDispatch
           \/ UNCHANGED sessionVars
  BY <1>1, <1>3, <1>8 DEF PostMessage, createMessage, ReadACK, ReadReady, ListenBuffered,
     ListenDispatch, sessionVars, vars, netVars
<1> QED
  BY <1>3, <1>4, <1>5, <1>6, <1>7, <1>8, SessionSteps DEF Overtaken, ReadBroken, Leave

LEMMA AliveNext ==
    ASSUME SessionTypeOK, Alive, [SessionNext]_sessionVars
    PROVE  Alive'
<1>a. c2s \in Seq(Questions) /\ Len(c2s) \in Nat
  BY ServerTypes DEF SessionTypeOK
<1>1. \A i \in 1..Len(c2s') : c2s'[i] \in {"Heartbeat", "Identify"}
  BY Asking DEF Alive
<1>2. ASSUME link' => ~ctxDone' /\ client' # "off", ~ctxDone' => reader' # "done"
      PROVE  Alive'
  BY <1>1, <1>2 DEF Alive
<1>3. ASSUME UNCHANGED <<ctxDone, reader>>, link' => link, client' # "off" \/ client' = client
      PROVE  Alive'
  BY <1>2, <1>3 DEF Alive
<1>4. CASE Identified
  <2>1. reader' # "done" /\ UNCHANGED <<link, ctxDone, client>>
    <3>1. c2s # <<>> /\ Head(c2s) \in {"Heartbeat", "Identify"}
      <4>1. c2s # <<>>
        BY <1>4 DEF Identified, ReadPayload
      <4>2. Head(c2s) = c2s[1] /\ 1 \in 1..Len(c2s)
        BY <1>a, <4>1, EmptySeq
      <4> QED
        BY <4>1, <4>2 DEF Alive
    <3> QED
      BY <1>4, <3>1 DEF Identified, ReadPayload, clientVars
  <2> QED
    BY <1>2, <2>1 DEF Alive
<1>5. CASE ReadFails /\ UNCHANGED clientVars
  <2>1. ~link
    <3>1. ~(c2s # <<>> /\ Head(c2s) = "Other")
      <4> SUFFICES ASSUME c2s # <<>> PROVE Head(c2s) # "Other"
        OBVIOUS
      <4>1. Head(c2s) = c2s[1] /\ 1 \in 1..Len(c2s)
        BY <1>a, EmptySeq
      <4> QED
        BY <4>1 DEF Alive
    <3> QED
      BY <1>5, <3>1 DEF ReadFails, Alive
  <2>2. link' = link /\ ctxDone'
    BY <1>5 DEF ReadFails, netVars
  <2> QED
    BY <1>2, <2>1, <2>2
<1>6. CASE WriterStops /\ UNCHANGED clientVars
  <2>1. ~link /\ link' = link /\ ctxDone'
    BY <1>6 DEF WriterStops, Alive, netVars
  <2> QED
    BY <1>2, <2>1
<1>7. CASE SendReply /\ UNCHANGED clientVars
  <2>1. reader' # "done" /\ UNCHANGED <<link, ctxDone, client>>
    BY <1>7 DEF SendReply, netVars, clientVars
  <2> QED
    BY <1>2, <2>1 DEF Alive
<1>8. CASE SendCancelled /\ UNCHANGED clientVars
  <2>1. ctxDone /\ UNCHANGED <<link, ctxDone, client>>
    BY <1>8 DEF SendCancelled, netVars, clientVars
  <2> QED
    BY <1>2, <2>1 DEF Alive
<1>9. CASE Dial
  BY <1>2, <1>9 DEF Dial, NewWebsocket
<1>10. CASE GivesUp
  <2>1. UNCHANGED <<ctxDone, reader>> /\ link' = FALSE
    BY <1>10, GivesUpChanges
  <2> QED
    BY <1>2, <2>1 DEF Alive
<1>11. CASE (Start \/ StartFails \/ Finish \/ Notifier \/ SendEvent \/ Written)
            /\ UNCHANGED clientVars
  <2>1. UNCHANGED <<ctxDone, reader, client>> /\ (link' => link)
    BY <1>11 DEF Start, StartFails, Finish, Notifier, TakeQueue, AwaitQueue, QueueNotified,
       NotifierCancelled, SendEvent, Written, netVars, clientVars
  <2> QED
    BY <1>3, <2>1
<1>12. CASE PostMessage \/ ReadHello \/ Heartbeat \/ ReadACK \/ ReadReady \/ ListenBuffered
            \/ ListenDispatch \/ Drop \/ UNCHANGED sessionVars
  <2>1. UNCHANGED <<ctxDone, reader>> /\ (link' => link) /\ (client' # "off" \/ client' = client)
    BY <1>12 DEF PostMessage, createMessage, ReadHello, Heartbeat, ReadACK, ReadReady,
       ListenBuffered, ListenDispatch, Drop, ClientLeaves, sessionVars, vars, hdVars, netVars,
       clientVars
  <2> QED
    BY <1>3, <2>1
<1> QED
  BY <1>4, <1>5, <1>6, <1>7, <1>8, <1>9, <1>10, <1>11, <1>12, SessionSteps
  DEF Overtaken, ReadBroken, Leave

\* What is on the wire stays; the handler adds to it.
LEMMA Wiring ==
    ASSUME SessionTypeOK, [SessionNext]_sessionVars
    PROVE  \/ UNCHANGED <<wire, written>>
           \/ Dial /\ wire' = <<>> /\ written' = <<>>
           \/ Start /\ wire' = Append(wire, Hello) /\ UNCHANGED written
           \/ /\ Written /\ wire' = Append(wire, writer[2])
              /\ written' = written \o Number(writer[2])
<1>1. CASE Dial \/ Start \/ Written
  BY <1>1 DEF Dial, NewWebsocket, Start, Written, msgVars
<1>2. CASE GivesUp
  BY <1>2, GivesUpChanges
<1>3. CASE StartFails \/ Finish \/ ReadFails \/ Notifier \/ SendReply \/ SendEvent
           \/ SendCancelled \/ WriterStops \/ Identified
  BY <1>3 DEF StartFails, Finish, ReadFails, Notifier, TakeQueue, AwaitQueue, QueueNotified,
     NotifierCancelled, SendReply, SendEvent, SendCancelled, WriterStops, Identified, ReadPayload,
     netVars, msgVars
<1>4. CASE PostMessage \/ ReadHello \/ Heartbeat \/ ReadACK \/ ReadReady \/ ListenBuffered
           \/ ListenDispatch \/ Drop \/ UNCHANGED sessionVars
  BY <1>4 DEF PostMessage, createMessage, ReadHello, Heartbeat, ReadACK, ReadReady,
     ListenBuffered, ListenDispatch, Drop, ClientLeaves, sessionVars, vars, netVars, msgVars
<1> QED
  BY <1>1, <1>2, <1>3, <1>4, SessionSteps DEF Overtaken, ReadBroken, Leave

LEMMA GreetedNext ==
    ASSUME SessionTypeOK, Greeted, Alive, [SessionNext]_sessionVars
    PROVE  Greeted'
<1>a. wire \in Seq(Outbound) /\ Len(wire) \in Nat
  BY ServerTypes DEF SessionTypeOK
<1> DEFINE Handling == /\ handler' = "hello" => wire' = <<>>
                       /\ handler' = "running" => wire' # <<>>
                       /\ registered' => handler' = "running"
                       /\ session' = 0 => handler' = "returned"
           Calling == /\ session' = 0 => client' = "off"
                      /\ client' = "hello" => seen' = 0 /\ requests' = 0
                      /\ client' \in {"hello", "identify"} => ~buffered'
<1>1. wire' # <<>> => wire'[1] = Hello
  <2>1. CASE UNCHANGED wire
    BY <2>1 DEF Greeted
  <2>2. CASE wire' = <<>>
    BY <2>2
  <2>3. ASSUME NEW m \in Outbound, wire' = Append(wire, m), wire = <<>> => m = Hello
        PROVE  wire'[1] = Hello
    <3>1. CASE wire = <<>>
      BY <1>a, <2>3, <3>1, AppendProperties
    <3>2. CASE wire # <<>>
      <4>1. 1 \in 1..Len(wire)
        BY <1>a, <3>2, EmptySeq
      <4> QED
        BY <1>a, <2>3, <3>2, <4>1, AppendProperties DEF Greeted
    <3> QED
      BY <3>1, <3>2
  <2>4. CASE Start /\ wire' = Append(wire, Hello)
    BY <2>3, <2>4, PayloadTypes
  <2>5. CASE Written /\ wire' = Append(wire, writer[2])
    <3>1. wire # <<>> /\ writer[2] \in Outbound
      BY <2>5 DEF Written, Running, Greeted, SessionTypeOK, TypeOK
    <3> QED
      BY <2>3, <2>5, <3>1
  <2> QED
    BY <2>1, <2>2, <2>4, <2>5, Wiring
<1>2. ASSUME Handling, Calling PROVE Greeted'
  BY <1>1, <1>2 DEF Greeted
<1>3. ASSUME UNCHANGED <<handler, registered, wire, session>> PROVE Handling
  BY <1>3 DEF Greeted
<1>4. ASSUME UNCHANGED <<clientVars, session, requests>> PROVE Calling
  BY <1>4 DEF Greeted, clientVars
<1>5. CASE Start /\ UNCHANGED <<clientVars, drops, historyVars>>
  <2>1. wire' = Append(wire, Hello) /\ handler = "hello" /\ handler' = "running"
    BY <1>5 DEF Start
  <2>2. wire' # <<>>
    BY <1>a, <2>1, PayloadTypes, AppendProperties
  <2>3. Handling
    BY <1>5, <2>1, <2>2 DEF Greeted, historyVars
  <2> QED
    BY <1>2, <1>4, <1>5, <2>3 DEF Start, historyVars
<1>6. CASE (StartFails \/ Finish) /\ UNCHANGED <<clientVars, drops, historyVars>>
  <2>1. handler' = "returned" /\ (registered' => registered) /\ handler # "returned"
        /\ (registered' => handler # "hello" /\ ~Finish)
    BY <1>6 DEF StartFails, Finish, gwVars, Running, Greeted
  <2>2. UNCHANGED <<wire, requests, clientVars, session>>
    BY <1>6 DEF StartFails, Finish, netVars, historyVars
  <2>3. ~registered'
    BY <1>6, <2>1 DEF StartFails
  <2>4. Handling
    BY <2>1, <2>3
  <2> QED
    BY <1>2, <1>4, <2>2, <2>4
<1>7. CASE Written /\ UNCHANGED <<clientVars, drops, historyVars>>
  <2>1. /\ Running /\ UNCHANGED <<handler, registered, requests, session>> /\ writer[2] \in Outbound
        /\ wire' = wire \/ wire' = Append(wire, writer[2])
    BY <1>7 DEF Written, gwVars, historyVars, SessionTypeOK, TypeOK
  <2>2. wire' # <<>>
    BY <1>a, <2>1, AppendProperties DEF Greeted, Running
  <2>3. Handling
    BY <2>1, <2>2 DEF Running, Greeted
  <2> QED
    BY <1>2, <1>4, <1>7, <2>1, <2>3
<1>8. CASE (ReadFails \/ Notifier \/ SendReply \/ SendEvent \/ SendCancelled \/ WriterStops)
           /\ UNCHANGED <<clientVars, drops, historyVars>>
  <2>1. UNCHANGED <<handler, registered, wire, requests, session>>
    BY <1>8 DEF ReadFails, Notifier, TakeQueue, AwaitQueue, QueueNotified, NotifierCancelled,
       SendReply, SendEvent, SendCancelled, WriterStops, gwVars, netVars, historyVars
  <2> QED
    BY <1>2, <1>3, <1>4, <1>8, <2>1
<1>9. CASE PostMessage \/ Identified \/ Drop \/ UNCHANGED sessionVars
  <2>1. UNCHANGED <<handler, registered, wire, requests, session, clientVars>>
    BY <1>9 DEF PostMessage, createMessage, Identified, ReadPayload, Drop, ClientLeaves,
       sessionVars, vars, gwVars, hdVars, netVars, historyVars
  <2> QED
    BY <1>2, <1>3, <1>4, <2>1
<1>10. CASE Dial
  <2>1. session' # 0
    BY <1>10, ClientTypes DEF Dial, NewWebsocket
  <2> QED
    BY <1>2, <1>10, <2>1 DEF Dial, NewWebsocket
<1>11. CASE ReadHello
  <2>1. UNCHANGED <<handler, registered, wire, session, buffered>> /\ client = "hello"
        /\ client' = "identify"
    BY <1>11 DEF ReadHello, hdVars, gwVars, historyVars
  <2> QED
    BY <1>2, <1>3, <2>1 DEF Greeted
<1>12. CASE Heartbeat
  <2>1. UNCHANGED <<handler, registered, wire, session, clientVars>> /\ client # "hello"
    BY <1>12 DEF Heartbeat, hdVars, gwVars, historyVars
  <2> QED
    BY <1>2, <1>3, <2>1 DEF Greeted, clientVars
<1>13. CASE ReadACK \/ ReadReady \/ ListenBuffered \/ ListenDispatch
  <2>1. /\ UNCHANGED <<handler, registered, wire, session>> /\ client # "off" /\ client' # "hello"
        /\ client' = "identify" => client = "identify" /\ buffered' = buffered
    BY <1>13 DEF ReadACK, ReadReady, ListenBuffered, ListenDispatch, hdVars, gwVars, netVars, vars,
       historyVars, HandOut
  <2> QED
    BY <1>2, <1>3, <2>1 DEF Greeted
<1>14. CASE GivesUp
  <2>1. UNCHANGED <<handler, registered, wire, session>> /\ client' = "off"
    BY <1>14, GivesUpChanges
  <2> QED
    BY <1>2, <1>3, <2>1
<1> QED
  BY <1>5, <1>6, <1>7, <1>8, <1>9, <1>10, <1>11, <1>12, <1>13, <1>14, SessionSteps
  DEF Overtaken, ReadBroken, Leave

----------------------------------------------------------------------------
(* READY comes once *)

\* What is on the wire stays there until the client dials again.
LEMMA WireGrows ==
    ASSUME SessionTypeOK, [SessionNext]_sessionVars, ~Dial
    PROVE  /\ Len(wire') \in Nat /\ Len(wire) <= Len(wire')
           /\ \A i \in 1..Len(wire) : i \in 1..Len(wire') /\ wire'[i] = wire[i]
           /\ \A i \in 1..Len(wire') :
                 i \in 1..Len(wire) \/ (wire'[i] = writer[2] /\ Written) \/ wire'[i] = Hello
<1>a. wire \in Seq(Outbound) /\ Len(wire) \in Nat
  BY ServerTypes DEF SessionTypeOK
<1>1. CASE UNCHANGED wire
  BY <1>a, <1>1
<1>2. ASSUME NEW m \in Outbound, wire' = Append(wire, m), m = Hello \/ (m = writer[2] /\ Written)
      PROVE  /\ Len(wire') \in Nat /\ Len(wire) <= Len(wire')
             /\ \A i \in 1..Len(wire) : i \in 1..Len(wire') /\ wire'[i] = wire[i]
             /\ \A i \in 1..Len(wire') :
                 i \in 1..Len(wire) \/ (wire'[i] = writer[2] /\ Written) \/ wire'[i] = Hello
  <2>1. /\ Len(wire') = Len(wire) + 1 /\ wire'[Len(wire) + 1] = m
        /\ \A i \in 1..Len(wire) : wire'[i] = wire[i]
    BY <1>a, <1>2, AppendProperties
  <2>2. \A i \in 1..Len(wire') : i \in 1..Len(wire) \/ i = Len(wire) + 1
    BY <1>a, <2>1
  <2> QED
    BY <1>a, <1>2, <2>1, <2>2
<1>3. writer[2] \in Outbound
  BY DEF SessionTypeOK, TypeOK
<1> QED
  BY <1>1, <1>2, <1>3, Wiring, PayloadTypes

\* The gateway becomes the user's where its handler reads Identify.
LEMMA Identifying ==
    ASSUME SessionTypeOK, [SessionNext]_sessionVars
    PROVE  \/ UNCHANGED authUser
           \/ Dial /\ authUser' = FALSE
           \/ Identified /\ Head(c2s) = "Identify" /\ authUser'
<1>1. CASE Dial
  BY <1>1 DEF Dial, NewWebsocket
<1>2. CASE Identified
  <2>1. authUser' = (authUser \/ Head(c2s) = "Identify") /\ authUser \in BOOLEAN
    BY <1>2, Zenon DEF Identified, ReadPayload, SessionTypeOK, TypeOK
  <2> QED
    BY <1>2, <2>1, Zenon
<1>3. CASE GivesUp
  BY <1>3, GivesUpChanges
<1>4. CASE Start \/ StartFails \/ Finish \/ ReadFails \/ Notifier \/ SendReply \/ SendEvent
           \/ SendCancelled \/ Written \/ WriterStops
  BY <1>4 DEF Start, StartFails, Finish, ReadFails, Notifier, TakeQueue, AwaitQueue, QueueNotified,
     NotifierCancelled, SendReply, SendEvent, SendCancelled, Written, WriterStops, gwVars
<1>5. CASE PostMessage \/ ReadHello \/ Heartbeat \/ ReadACK \/ ReadReady \/ ListenBuffered
           \/ ListenDispatch \/ Drop \/ UNCHANGED sessionVars
  BY <1>5 DEF PostMessage, createMessage, ReadHello, Heartbeat, ReadACK, ReadReady,
     ListenBuffered, ListenDispatch, Drop, ClientLeaves, sessionVars, vars, gwVars
<1> QED
  BY <1>1, <1>2, <1>3, <1>4, <1>5, SessionSteps DEF Overtaken, ReadBroken, Leave

\* Where the client stands changes only in its own steps.
LEMMA Calling ==
    ASSUME [SessionNext]_sessionVars
    PROVE  \/ UNCHANGED <<client, seen>>
           \/ Dial /\ client' = "hello" /\ seen' = 0
           \/ ReadHello /\ client = "hello" /\ client' = "identify" /\ seen' = seen + 1
           \/ ReadACK /\ client' = client /\ seen' = seen + 1
           \/ ReadReady /\ client = "identify" /\ client' = "ready" /\ seen' = seen + 1
           \/ ListenDispatch /\ client' = client /\ seen' = seen + 1
           \/ GivesUp /\ client' = "off" /\ UNCHANGED seen
<1>1. CASE Dial \/ ReadHello \/ ReadACK \/ ReadReady \/ ListenDispatch
  BY <1>1 DEF Dial, NewWebsocket, ReadHello, ReadACK, ReadReady, ListenDispatch, Reads
<1>2. CASE GivesUp
  BY <1>2, GivesUpChanges
<1>3. CASE PostMessage \/ Identified \/ Heartbeat \/ ListenBuffered \/ Drop
           \/ UNCHANGED <<clientVars, drops, historyVars>> \/ UNCHANGED sessionVars
  BY <1>3 DEF PostMessage, Identified, Heartbeat, ListenBuffered, Drop, sessionVars, clientVars
<1> QED
  BY <1>1, <1>2, <1>3, SessionSteps DEF Overtaken, ReadBroken, Leave

\* Identify is asked for once, and not while it is still to be sent.
LEMMA AskedOnce ==
    ASSUME SessionTypeOK, ReadyOnce, [SessionNext]_sessionVars
    PROVE  /\ authUser' \/ client' = "hello" => \A i \in 1..Len(c2s') : c2s'[i] # "Identify"
           /\ client' = "hello" => ~authUser'
           /\ \A i, j \in 1..Len(c2s') : c2s'[i] = "Identify" /\ c2s'[j] = "Identify" => i = j
<1>a. c2s \in Seq(Questions) /\ Len(c2s) \in Nat
  BY ServerTypes DEF SessionTypeOK
<1>b. /\ authUser \/ client = "hello" => \A i \in 1..Len(c2s) : c2s[i] # "Identify"
      /\ client = "hello" => ~authUser
      /\ \A i, j \in 1..Len(c2s) : c2s[i] = "Identify" /\ c2s[j] = "Identify" => i = j
  BY DEF ReadyOnce, Asked
<1>1. Identified => c2s # <<>> /\ Head(c2s) = c2s[1] /\ 1 \in 1..Len(c2s)
  <2>1. Identified => c2s # <<>>
    BY DEF Identified, ReadPayload
  <2> QED
    BY <1>a, <2>1, EmptySeq
<1>2. PICK d \in {0, 1} :
        /\ Identified => d = 1
        /\ \A i \in 1..Len(c2s') :
              \/ i + d \in 1..Len(c2s) /\ c2s'[i] = c2s[i + d]
              \/ c2s'[i] = "Identify" /\ ReadHello /\ i = Len(c2s')
              \/ c2s'[i] = "Heartbeat" /\ Heartbeat
  BY Asking
<1>3. Len(c2s') \in Nat
  BY Asking
<1>4. Dial => c2s' = <<>> /\ authUser' = FALSE
  BY DEF Dial, NewWebsocket
<1>5. ReadHello => client = "hello" /\ client' = "identify" /\ authUser' = authUser
  BY DEF ReadHello, gwVars
<1>6. client' = "hello" => client = "hello" \/ Dial
  BY Calling DEF ReadACK, ListenDispatch
<1>7. client' = "hello" => ~authUser'
  BY <1>1, <1>4, <1>6, <1>b, Identifying
<1>8. ASSUME authUser' \/ client' = "hello", NEW i \in 1..Len(c2s'), c2s'[i] = "Identify"
      PROVE  FALSE
  <2>1. ~Dial
    BY <1>4, <1>8
  <2>2. CASE ReadHello
    BY <1>5, <1>8, <1>b, <2>2
  <2>3. CASE ~ReadHello
    <3>1. i + d \in 1..Len(c2s) /\ c2s[i + d] = "Identify"
      BY <1>2, <1>8, <2>3
    <3>2. ~authUser /\ client # "hello"
      BY <1>b, <3>1
    <3>3. Identified /\ Head(c2s) = "Identify"
      BY <1>6, <1>8, <2>1, <3>2, Identifying
    <3>4. d = 1 /\ c2s[1] = "Identify"
      BY <1>1, <1>2, <3>3
    <3>5. i + 1 = 1
      BY <1>1, <1>b, <3>1, <3>3, <3>4
    <3> QED
      BY <1>3, <3>5
  <2> QED
    BY <2>2, <2>3
<1>9. ASSUME NEW i \in 1..Len(c2s'), NEW j \in 1..Len(c2s'),
             c2s'[i] = "Identify", c2s'[j] = "Identify"
      PROVE  i = j
  <2>1. CASE ReadHello
    BY <1>2, <1>5, <1>9, <1>b, <2>1
  <2>2. CASE ~ReadHello
    <3>1. i + d \in 1..Len(c2s) /\ c2s[i + d] = "Identify" /\ j + d \in 1..Len(c2s)
          /\ c2s[j + d] = "Identify"
      BY <1>2, <1>9, <2>2
    <3>2. i + d = j + d
      BY <1>b, <3>1
    <3> QED
      BY <1>3, <3>2
  <2> QED
    BY <2>1, <2>2
<1> QED
  BY <1>7, <1>8, <1>9

LEMMA KindOf ==
    ASSUME TypeOK
    PROVE  /\ nothing.kind # "READY" /\ Hello.kind # "READY"
           /\ \A n \in Events : Event(n).kind # "READY"
           /\ \A r \in Replies : Reply(r).kind = r
           /\ writer[2] \in Outbound
BY DEF nothing, Hello, Event, Reply, TypeOK

\* READY is in one place at a time: with the reader, with the writer, written.
LEMMA ReadyOncePlaces ==
    ASSUME SessionTypeOK, BatchOK, ReadyOnce, [SessionNext]_sessionVars
    PROVE  /\ ~authUser' => reader' # "READY" /\ ~(writer'[2].kind = "READY")
           /\ ~authUser' \/ reader' = "READY" \/ writer'[2].kind = "READY"
                 => \A i \in 1..Len(wire') : wire'[i].kind # "READY"
           /\ reader' = "READY" => ~(writer'[2].kind = "READY")
           /\ \A i, j \in 1..Len(wire') :
                 wire'[i].kind = "READY" /\ wire'[j].kind = "READY" => i = j
<1>a. /\ wire \in Seq(Outbound) /\ Len(wire) \in Nat /\ c2s \in Seq(Questions) /\ Len(c2s) \in Nat
      /\ authUser \in BOOLEAN /\ batch \in Seq(Events) /\ TypeOK
  BY ServerTypes DEF SessionTypeOK, TypeOK
<1> DEFINE Clean == \A i \in 1..Len(wire) : wire[i].kind # "READY"
           answering == writer[2].kind = "READY"
           Clean2 == \A i \in 1..Len(wire') : wire'[i].kind # "READY"
           answering2 == writer'[2].kind = "READY"
           Single2 == \A i, j \in 1..Len(wire') :
                         wire'[i].kind = "READY" /\ wire'[j].kind = "READY" => i = j
           Goal == /\ ~authUser' => reader' # "READY" /\ ~answering2
                   /\ ~authUser' \/ reader' = "READY" \/ answering2 => Clean2
                   /\ reader' = "READY" => ~answering2
                   /\ Single2
<1>b. /\ ~authUser => reader # "READY" /\ ~answering
      /\ ~authUser \/ reader = "READY" \/ answering => Clean
      /\ reader = "READY" => ~answering
      /\ \A i, j \in 1..Len(wire) : wire[i].kind = "READY" /\ wire[j].kind = "READY" => i = j
  BY DEF ReadyOnce, Answering, Answered
<1>c. UNCHANGED wire => (Clean2 <=> Clean) /\ Single2
  BY <1>b
<1> SUFFICES Goal
  OBVIOUS
<1>1. ASSUME UNCHANGED <<authUser, wire>>, reader' = "READY" => reader = "READY",
             answering2 => answering
      PROVE  Goal
  <2> HIDE DEF Clean, Clean2, Single2, answering, answering2
  <2> QED
    BY <1>1, <1>b, <1>c
<1>2. CASE Identified
  <2>1. UNCHANGED <<wire, writer>> /\ c2s # <<>>
    BY <1>2 DEF Identified, ReadPayload, netVars
  <2>2. CASE Head(c2s) = "Identify"
    <3>1. Head(c2s) = c2s[1] /\ 1 \in 1..Len(c2s)
      BY <1>a, <2>1, EmptySeq
    <3>2. ~authUser
      BY <2>2, <3>1 DEF ReadyOnce, Asked
    <3>3. ~answering /\ Clean
      BY <1>b, <3>2
    <3>4. authUser' = TRUE
      BY <1>2, <2>2, Zenon DEF Identified, ReadPayload
    <3>5. ~answering2
      BY <2>1, <3>3
    <3> QED
      BY <1>c, <2>1, <3>3, <3>4, <3>5
  <2>3. CASE Head(c2s) # "Identify"
    <3>1. authUser' = authUser
      BY <1>2, <1>a, <2>3, Zenon DEF Identified, ReadPayload
    <3>2. reader' # "READY"
      <4>1. Head(c2s) \in Questions
        BY <1>a, <2>1
      <4> QED
        BY <1>2, <2>3, <4>1 DEF Identified, ReadPayload, Questions
    <3> QED
      BY <1>1, <2>1, <3>1, <3>2
  <2> QED
    BY <2>2, <2>3
<1>3. CASE SendReply
  <2>1. /\ UNCHANGED <<authUser, wire>> /\ reader' = "read" /\ reader \in Replies
        /\ writer'[2] = Reply(reader)
    BY <1>3 DEF SendReply, gwVars, netVars
  <2>2. answering2 => reader = "READY"
    BY <1>a, <2>1, KindOf
  <2> HIDE DEF Clean, Clean2, Single2, answering, answering2
  <2> QED
    BY <1>b, <1>c, <2>1, <2>2
<1>4. CASE SendEvent
  <2>1. /\ UNCHANGED <<authUser, wire, reader>> /\ writer'[2] = Event(Head(batch))
        /\ batch # <<>>
    BY <1>4 DEF SendEvent, gwVars, netVars, BatchOK
  <2>2. Head(batch) \in Events
    BY <1>a, <2>1
  <2>3. ~answering2
    BY <1>a, <2>1, <2>2, KindOf
  <2> QED
    BY <1>1, <2>1, <2>3
<1>5. CASE Written
  <2>1. UNCHANGED <<authUser, reader>> /\ writer'[2] = nothing
        /\ (wire' = wire \/ wire' = Append(wire, writer[2]))
    BY <1>5 DEF Written, gwVars, idleWriter
  <2>2. ~answering2
    BY <1>a, <2>1, KindOf
  <2>3. CASE wire' = Append(wire, writer[2])
    <3>1. /\ Len(wire') = Len(wire) + 1 /\ wire'[Len(wire) + 1] = writer[2]
          /\ \A i \in 1..Len(wire) : wire'[i] = wire[i]
      BY <1>a, <2>3, KindOf, AppendProperties
    <3>2. \A i \in 1..Len(wire') : i \in 1..Len(wire) \/ i = Len(wire) + 1
      BY <1>a, <3>1
    <3>3. Clean /\ ~answering => Clean2
      BY <3>1, <3>2
    <3>4. Single2
      BY <1>b, <3>1, <3>2
    <3> HIDE DEF Clean, Clean2, Single2, answering, answering2
    <3> QED
      BY <1>b, <2>1, <2>2, <3>3, <3>4
  <2>4. CASE wire' = wire
    BY <1>1, <2>1, <2>2, <2>4
  <2> QED
    BY <2>1, <2>3, <2>4
<1>6. CASE Start
  <2>1. UNCHANGED <<authUser, reader, writer>> /\ wire' = Append(wire, Hello)
    BY <1>6 DEF Start
  <2>2. /\ Len(wire') = Len(wire) + 1 /\ wire'[Len(wire) + 1] = Hello
        /\ \A i \in 1..Len(wire) : wire'[i] = wire[i]
    BY <1>a, <2>1, PayloadTypes, AppendProperties
  <2>3. \A i \in 1..Len(wire') : i \in 1..Len(wire) \/ i = Len(wire) + 1
    BY <1>a, <2>2
  <2>4. Clean => Clean2
    BY <1>a, <2>2, <2>3, KindOf
  <2>5. Single2
    BY <1>a, <1>b, <2>2, <2>3, KindOf
  <2>6. answering2 = answering
    BY <2>1
  <2> HIDE DEF Clean, Clean2, Single2, answering, answering2
  <2> QED
    BY <1>b, <2>1, <2>4, <2>5, <2>6
<1>7. CASE Dial
  <2>1. /\ wire' = <<>> /\ reader' = "read" /\ writer'[2] = nothing /\ authUser' = FALSE
    BY <1>7 DEF Dial, NewWebsocket, idleWriter
  <2> QED
    BY <1>a, <2>1, KindOf
<1>8. CASE GivesUp
  BY <1>1, <1>8, GivesUpChanges
<1>9. CASE WriterStops
  <2>1. writer'[2] = nothing /\ UNCHANGED <<authUser, reader, wire>>
    BY <1>9 DEF WriterStops, doneWriter, gwVars, netVars
  <2> QED
    BY <1>1, <1>a, <2>1, KindOf
<1>10. CASE SendCancelled
  <2>1. UNCHANGED <<authUser, writer, wire>> /\ (reader' = "done" \/ reader' = reader)
    BY <1>10 DEF SendCancelled, gwVars, netVars
  <2> QED
    BY <1>1, <2>1
<1>11. CASE StartFails \/ Finish \/ ReadFails \/ Notifier
  <2>1. UNCHANGED <<authUser, writer, wire>> /\ (reader' = "done" \/ reader' = reader)
    BY <1>11 DEF StartFails, Finish, ReadFails, Notifier, TakeQueue, AwaitQueue, QueueNotified,
       NotifierCancelled, gwVars, netVars
  <2> QED
    BY <1>1, <2>1
<1>12. CASE PostMessage \/ ReadHello \/ Heartbeat \/ ReadACK \/ ReadReady \/ ListenBuffered
            \/ ListenDispatch \/ Drop \/ UNCHANGED sessionVars
  <2>1. UNCHANGED <<authUser, reader, writer, wire>>
    BY <1>12 DEF PostMessage, createMessage, ReadHello, Heartbeat, ReadACK, ReadReady,
       ListenBuffered, ListenDispatch, Drop, ClientLeaves, sessionVars, vars, gwVars, hdVars, netVars
  <2> QED
    BY <1>1, <2>1
<1> QED
  BY <1>2, <1>3, <1>4, <1>5, <1>6, <1>7, <1>8, <1>9, <1>10, <1>11, <1>12, SessionSteps
  DEF Overtaken, ReadBroken, Leave

LEMMA ReadyOnceNext ==
    ASSUME SessionTypeOK, BatchOK, ReadyOnce, [SessionNext]_sessionVars
    PROVE  ReadyOnce'
<1>1. client' = "ready" => \E i \in 1..seen' : wire'[i].kind = "READY"
  <2> SUFFICES ASSUME client' = "ready" PROVE \E i \in 1..seen' : wire'[i].kind = "READY"
    OBVIOUS
  <2>1. ~Dial
    BY DEF Dial, NewWebsocket
  <2>2. seen \in Nat /\ seen <= Len(wire) /\ Len(wire) \in Nat
    BY ClientTypes, ServerTypes DEF SessionTypeOK
  <2>3. \A i \in 1..Len(wire) : wire'[i] = wire[i]
    BY <2>1, WireGrows
  <2>4. CASE client = "ready"
    <3>1. seen' = seen \/ seen' = seen + 1
      BY <2>1, Calling
    <3>2. PICK i \in 1..seen : wire[i].kind = "READY"
      BY <2>4 DEF ReadyOnce, Answered
    <3>3. i \in 1..Len(wire) /\ i \in 1..seen'
      BY <2>2, <3>1
    <3> QED
      BY <2>3, <3>2, <3>3
  <2>5. CASE ReadReady
    <3>1. seen < Len(wire) /\ seen' = seen + 1 /\ wire[seen + 1].kind = "READY"
      BY <2>5 DEF ReadReady, Reads, next
    <3>2. seen + 1 \in 1..Len(wire) /\ seen + 1 \in 1..seen'
      BY <2>2, <3>1
    <3> QED
      BY <2>3, <3>1, <3>2
  <2> QED
    BY <2>1, <2>4, <2>5, Calling DEF GivesUp
<1> QED
  BY <1>1, AskedOnce, ReadyOncePlaces DEF ReadyOnce, Asked, Answering, Answered

----------------------------------------------------------------------------
(* What is written is the beginning of what was queued *)

\* A message that is posted is queued for the websocket or not; dialling forgets
\* what was queued for the one before.
LEMMA Posting ==
    ASSUME [SessionNext]_sessionVars
    PROVE  \/ UNCHANGED <<pushed, posted>>
           \/ Dial /\ pushed' = <<>> /\ posted' = posted
           \/ /\ PostMessage /\ posted < MaxEvents /\ posted' = posted + 1
              /\ \/ UNCHANGED pushed
                 \/ registered /\ authUser /\ pushed' = Append(pushed, posted')
<1>1. CASE Dial
  BY <1>1 DEF Dial, NewWebsocket
<1>2. CASE PostMessage
  BY <1>2 DEF PostMessage, createMessage
<1>3. CASE GivesUp
  BY <1>3, GivesUpChanges
<1>4. CASE Start \/ StartFails \/ Finish \/ ReadFails \/ Notifier \/ SendReply \/ SendEvent
           \/ SendCancelled \/ Written \/ WriterStops
  BY <1>4 DEF Start, StartFails, Finish, ReadFails, Notifier, TakeQueue, AwaitQueue, QueueNotified,
     NotifierCancelled, SendReply, SendEvent, SendCancelled, Written, WriterStops, msgVars
<1>5. CASE Identified \/ ReadHello \/ Heartbeat \/ ReadACK \/ ReadReady \/ ListenBuffered
           \/ ListenDispatch \/ Drop \/ UNCHANGED sessionVars
  BY <1>5 DEF Identified, ReadPayload, ReadHello, Heartbeat, ReadACK, ReadReady,
     ListenBuffered, ListenDispatch, Drop, ClientLeaves, sessionVars, vars, msgVars
<1> QED
  BY <1>1, <1>2, <1>3, <1>4, <1>5, SessionSteps DEF Overtaken, ReadBroken, Leave

LEMMA FirstOfFour ==
    ASSUME NEW S, NEW a \in Seq(S), NEW b \in Seq(S), NEW c \in Seq(S), NEW d \in Seq(S),
           NEW p, p = a \o b \o c \o d
    PROVE  Len(a) <= Len(p) /\ \A i \in 1..Len(a) : a[i] = p[i]
<1>1. ASSUME NEW s \in Seq(S), NEW t \in Seq(S)
      PROVE  /\ s \o t \in Seq(S) /\ Len(s) \in Nat /\ Len(s) <= Len(s \o t)
             /\ \A i \in 1..Len(s) : s[i] = (s \o t)[i]
  <2>1. Len(s) \in Nat /\ Len(t) \in Nat
    OBVIOUS
  <2>2. /\ s \o t \in Seq(S) /\ Len(s \o t) = Len(s) + Len(t)
        /\ \A i \in 1..(Len(s) + Len(t)) : (s \o t)[i] = IF i <= Len(s) THEN s[i] ELSE t[i - Len(s)]
    BY ConcatProperties
  <2> QED
    BY <2>1, <2>2
<1> DEFINE ab == a \o b
           abc == ab \o c
           abcd == abc \o d
<1>2. ab \in Seq(S) /\ Len(a) \in Nat /\ Len(a) <= Len(ab) /\ \A i \in 1..Len(a) : a[i] = ab[i]
  BY <1>1
<1>3. abc \in Seq(S) /\ Len(ab) \in Nat /\ Len(ab) <= Len(abc) /\ \A i \in 1..Len(ab) : ab[i] = abc[i]
  BY <1>1, <1>2
<1>4. /\ abcd \in Seq(S) /\ Len(abc) \in Nat /\ Len(abc) <= Len(abcd)
      /\ \A i \in 1..Len(abc) : abc[i] = abcd[i]
  BY <1>1, <1>3
<1>5. Len(abcd) \in Nat
  BY <1>4
<1> HIDE DEF ab, abc, abcd
<1>6. Len(a) <= Len(ab) /\ Len(ab) <= Len(abc) /\ Len(abc) <= Len(abcd)
  BY <1>2, <1>3, <1>4
<1>7. Len(a) <= Len(abcd)
  BY <1>2, <1>3, <1>4, <1>5, <1>6
<1>8. ASSUME NEW i \in 1..Len(a) PROVE a[i] = abcd[i]
  <2>1. i \in 1..Len(ab) /\ i \in 1..Len(abc)
    BY <1>2, <1>3, <1>4, <1>6
  <2>2. a[i] = ab[i] /\ ab[i] = abc[i] /\ abc[i] = abcd[i]
    BY <1>2, <1>3, <1>4, <2>1
  <2> QED
    BY <2>2
<1> QED
  BY <1>7, <1>8 DEF ab, abc, abcd

LEMMA BeginningNext ==
    ASSUME SInv, [SessionNext]_sessionVars
    PROVE  Beginning'
<1>a. /\ pushed \in Seq(Events) /\ Len(pushed) \in Nat /\ written \in Seq(Events)
      /\ Len(written) \in Nat /\ posted \in Nat
      /\ \A i \in 1..Len(pushed) : pushed[i] \in Nat
  <2>1. pushed \in Seq(Events) /\ \A e \in Events : e \in Nat
    BY ServerTypes DEF SInv, SessionTypeOK, Events
  <2>2. \A i \in 1..Len(pushed) : pushed[i] \in Events
    BY <2>1, ElementOfSeq
  <2> QED
    BY <2>1, <2>2, ServerTypes DEF SInv, SessionTypeOK
<1>b. /\ \A i, j \in 1..Len(pushed) : i < j => pushed[i] < pushed[j]
      /\ \A i \in 1..Len(pushed) : pushed[i] <= posted
      /\ Len(written) <= Len(pushed) /\ \A i \in 1..Len(written) : written[i] = pushed[i]
  BY DEF SInv, Beginning, Ascending
<1>c. TypeOK' /\ EventsInOrder'
  BY CoreNext DEF SInv
<1> DEFINE Queue == /\ \A i, j \in 1..Len(pushed') : i < j => pushed'[i] < pushed'[j]
                    /\ \A i \in 1..Len(pushed') : pushed'[i] <= posted'
           Prefix == Len(written') <= Len(pushed') /\ \A i \in 1..Len(written') : written'[i] = pushed'[i]
<1> SUFFICES Queue /\ Prefix
  BY DEF Beginning, Ascending
<1>1. CASE UNCHANGED <<pushed, posted>> /\ UNCHANGED written
  BY <1>1, <1>b
<1>2. CASE Dial
  <2>1. pushed' = <<>> /\ written' = <<>>
    BY <1>2 DEF Dial, NewWebsocket
  <2> QED
    BY <2>1
<1>3. CASE PostMessage
  <2>1. written' = written /\ posted' = posted + 1
        /\ (UNCHANGED pushed \/ pushed' = Append(pushed, posted'))
    BY <1>3 DEF PostMessage, createMessage
  <2>2. CASE UNCHANGED pushed
    BY <1>a, <1>b, <2>1, <2>2
  <2>3. CASE pushed' = Append(pushed, posted')
    <3>1. posted' \in Events
      BY <1>3, <1>a, FakeGatewayAssumption DEF PostMessage, createMessage, Events
    <3>2. /\ Len(pushed') = Len(pushed) + 1 /\ pushed'[Len(pushed) + 1] = posted + 1
          /\ \A i \in 1..Len(pushed) : pushed'[i] = pushed[i]
      BY <1>a, <2>1, <2>3, <3>1, AppendProperties
    <3>3. \A i \in 1..Len(pushed') : i \in 1..Len(pushed) \/ i = Len(pushed) + 1
      BY <1>a, <3>2
    <3>a. \A i \in 1..Len(pushed') : pushed'[i] <= posted'
      BY <1>a, <1>b, <2>1, <3>2, <3>3
    <3>b. ASSUME NEW i \in 1..Len(pushed'), NEW j \in 1..Len(pushed'), i < j
          PROVE  pushed'[i] < pushed'[j]
      <4>1. i \in 1..Len(pushed)
        BY <1>a, <3>2, <3>b
      <4>2. CASE j \in 1..Len(pushed)
        BY <1>b, <3>2, <3>b, <4>1, <4>2
      <4>3. CASE j = Len(pushed) + 1
        BY <1>a, <1>b, <3>2, <4>1, <4>3
      <4> QED
        BY <3>3, <4>2, <4>3
    <3>4. Queue
      BY <3>a, <3>b
    <3>5. Prefix
      BY <1>a, <1>b, <2>1, <3>2
    <3> QED
      BY <3>4, <3>5
  <2> QED
    BY <2>1, <2>2, <2>3
<1>4. CASE Written /\ UNCHANGED <<pushed, posted>>
  <2>1. CASE link
    <3>1. link'
      BY <1>4, <2>1 DEF Written
    <3>2. written' \o Number(writer'[2]) \o batch' \o queue' = pushed'
      BY <1>c, <3>1 DEF EventsInOrder
    <3>3. /\ written' \in Seq(Events) /\ Number(writer'[2]) \in Seq(Events)
          /\ batch' \in Seq(Events) /\ queue' \in Seq(Events)
      BY <1>c, NumberType DEF TypeOK
    <3> DEFINE a == written'
               b == Number(writer'[2])
               c == batch'
               d == queue'
    <3>a. a \in Seq(Events) /\ b \in Seq(Events) /\ c \in Seq(Events) /\ d \in Seq(Events)
      BY <3>3
    <3> HIDE DEF a, b, c, d
    <3>b. pushed' = a \o b \o c \o d
      BY <3>2 DEF a, b, c, d
    <3>c. Len(a) <= Len(pushed') /\ \A i \in 1..Len(a) : a[i] = pushed'[i]
      BY <3>a, <3>b, FirstOfFour
    <3>4. Prefix
      BY <3>c DEF a
    <3> QED
      BY <1>4, <1>b, <3>4
  <2>2. CASE ~link
    BY <1>1, <1>4, <2>2 DEF Written
  <2> QED
    BY <2>1, <2>2
<1> QED
  BY <1>1, <1>2, <1>3, <1>4, Posting, Wiring DEF SInv, Start, msgVars

\* A payload is an event of Events, or it is no event.
LEMMA EventOf ==
    ASSUME NEW m \in Outbound
    PROVE  /\ m.kind = "Event" => m.n \in Events /\ Number(m) = <<m.n>>
           /\ m.kind # "Event" => Number(m) = <<>>
BY DEF Number, Outbound, Reply, Replies, Event, Hello, nothing

LEMMA OnWireNext ==
    ASSUME SInv, [SessionNext]_sessionVars
    PROVE  OnWire'
<1>a. /\ wire \in Seq(Outbound) /\ Len(wire) \in Nat
      /\ written \in Seq(Events) /\ Len(written) \in Nat
  BY ServerTypes DEF SInv, SessionTypeOK
<1>b. /\ \A i \in 1..Len(wire) : IsEvent(i) => \E k \in 1..Len(written) : wire[i].n = written[k]
      /\ \A k \in 1..Len(written) : \E i \in 1..Len(wire) : IsEvent(i) /\ wire[i].n = written[k]
      /\ \A i, j \in 1..Len(wire) : i < j /\ IsEvent(i) /\ IsEvent(j) => wire[i].n < wire[j].n
  BY DEF SInv, OnWire
<1>c. /\ Ascending(pushed') /\ Len(written') <= Len(pushed') /\ Len(pushed') \in Nat
      /\ \A i \in 1..Len(written') : written'[i] = pushed'[i]
  <2>1. TypeOK'
    BY CoreNext DEF SInv
  <2>2. Len(pushed') \in Nat
    BY <2>1 DEF TypeOK
  <2> QED
    BY <2>2, BeginningNext DEF Beginning
<1>1. CASE UNCHANGED <<wire, written>>
  BY <1>1, <1>b DEF OnWire, IsEvent
<1>2. CASE wire' = <<>> /\ written' = <<>>
  BY <1>2 DEF OnWire
<1>3. ASSUME NEW m \in Outbound, wire' = Append(wire, m), m.kind # "Event", UNCHANGED written
      PROVE  OnWire'
  <2>1. /\ Len(wire') = Len(wire) + 1 /\ wire'[Len(wire) + 1] = m
        /\ \A i \in 1..Len(wire) : wire'[i] = wire[i] /\ i \in 1..Len(wire')
    BY <1>a, <1>3, AppendProperties
  <2>2. \A i \in 1..Len(wire') : i \in 1..Len(wire) \/ i = Len(wire) + 1
    BY <1>a, <2>1
  <2> QED
    BY <1>3, <1>b, <2>1, <2>2 DEF OnWire, IsEvent
<1>4. ASSUME NEW m \in Outbound, wire' = Append(wire, m), m.kind = "Event", written' = written \o <<m.n>>
      PROVE  OnWire'
  <2>1. /\ Len(wire') = Len(wire) + 1 /\ wire'[Len(wire) + 1] = m
        /\ \A i \in 1..Len(wire) : wire'[i] = wire[i] /\ i \in 1..Len(wire')
    BY <1>a, <1>4, AppendProperties
  <2>2. \A i \in 1..Len(wire') : i \in 1..Len(wire) \/ i = Len(wire) + 1
    BY <1>a, <2>1
  <2>3. /\ Len(written') = Len(written) + 1 /\ written'[Len(written) + 1] = m.n
        /\ \A k \in 1..Len(written) : written'[k] = written[k] /\ k \in 1..Len(written')
    <3>1. m.n \in Events
      BY <1>4, EventOf
    <3>2. written' = Append(written, m.n)
      BY <1>a, <1>4, <3>1, AppendIsConcat
    <3> QED
      BY <1>a, <3>1, <3>2, AppendProperties
  <2>4. \A k \in 1..Len(written') : k \in 1..Len(written) \/ k = Len(written) + 1
    BY <1>a, <2>3
  <2>5. \A k \in 1..Len(written) : written[k] < m.n
    <3> TAKE k \in 1..Len(written)
    <3>1. k \in 1..Len(pushed') /\ Len(written) + 1 \in 1..Len(pushed') /\ k < Len(written) + 1
      BY <1>a, <1>c, <2>3
    <3>2. pushed'[k] < pushed'[Len(written) + 1]
      BY <1>c, <3>1 DEF Ascending
    <3>3. Len(written) + 1 \in 1..Len(written')
      BY <1>a, <2>3
    <3> QED
      BY <1>c, <2>3, <3>2, <3>3
  <2>6. \A i \in 1..Len(wire) : IsEvent(i) => wire[i].n < m.n
    BY <1>b, <2>5
  <2>7. \A i \in 1..Len(wire') :
           wire'[i].kind = "Event" => \E k \in 1..Len(written') : wire'[i].n = written'[k]
    <3>1. Len(written) + 1 \in 1..Len(written')
      BY <1>a, <2>3
    <3>2. ASSUME NEW i \in 1..Len(wire), wire'[i].kind = "Event"
          PROVE  \E k \in 1..Len(written') : wire'[i].n = written'[k]
      <4>1. wire'[i] = wire[i]
        BY <2>1
      <4>2. PICK k \in 1..Len(written) : wire[i].n = written[k]
        BY <1>b, <3>2, <4>1 DEF IsEvent
      <4>3. k \in 1..Len(written') /\ written'[k] = written[k]
        BY <2>3
      <4> QED
        BY <4>1, <4>2, <4>3
    <3> QED
      BY <2>1, <2>2, <2>3, <3>1, <3>2
  <2>8. \A k \in 1..Len(written') :
           \E i \in 1..Len(wire') : wire'[i].kind = "Event" /\ wire'[i].n = written'[k]
    <3>1. Len(wire) + 1 \in 1..Len(wire')
      BY <1>a, <2>1
    <3>2. ASSUME NEW k \in 1..Len(written)
          PROVE  \E i \in 1..Len(wire') : wire'[i].kind = "Event" /\ wire'[i].n = written'[k]
      <4>1. PICK i \in 1..Len(wire) : IsEvent(i) /\ wire[i].n = written[k]
        BY <1>b
      <4>2. i \in 1..Len(wire') /\ wire'[i] = wire[i] /\ written'[k] = written[k]
        BY <2>1, <2>3
      <4> QED
        BY <4>1, <4>2 DEF IsEvent
    <3> QED
      BY <1>4, <2>1, <2>3, <2>4, <3>1, <3>2
  <2>9. \A i, j \in 1..Len(wire') :
           i < j /\ wire'[i].kind = "Event" /\ wire'[j].kind = "Event" => wire'[i].n < wire'[j].n
    <3> SUFFICES ASSUME NEW i \in 1..Len(wire'), NEW j \in 1..Len(wire'), i < j,
                        wire'[i].kind = "Event", wire'[j].kind = "Event"
                 PROVE  wire'[i].n < wire'[j].n
      OBVIOUS
    <3>1. i \in 1..Len(wire)
      BY <1>a, <2>1
    <3>2. CASE j \in 1..Len(wire)
      BY <1>b, <2>1, <3>1, <3>2 DEF IsEvent
    <3>3. CASE j = Len(wire) + 1
      BY <2>1, <2>6, <3>1, <3>3 DEF IsEvent
    <3> QED
      BY <2>2, <3>2, <3>3
  <2> QED
    BY <2>7, <2>8, <2>9 DEF OnWire, IsEvent
<1>5. CASE Start /\ wire' = Append(wire, Hello) /\ UNCHANGED written
  <2>1. Hello \in Outbound /\ Hello.kind # "Event"
    BY PayloadTypes DEF Hello
  <2> QED
    BY <1>3, <1>5, <2>1
<1>6. CASE Written /\ wire' = Append(wire, writer[2]) /\ written' = written \o Number(writer[2])
  <2>1. writer[2] \in Outbound
    BY DEF SInv, SessionTypeOK, TypeOK
  <2>2. CASE writer[2].kind = "Event"
    BY <1>4, <1>6, <2>1, <2>2, EventOf
  <2>3. CASE writer[2].kind # "Event"
    <3>1. written' = written
      BY <1>a, <1>6, <2>1, <2>3, EventOf, ConcatEmptySeq
    <3> QED
      BY <1>3, <1>6, <2>1, <2>3, <3>1
  <2> QED
    BY <2>2, <2>3
<1> QED
  BY <1>1, <1>2, <1>5, <1>6, Wiring DEF SInv

----------------------------------------------------------------------------
(* The log, the cursor and what Listen returns *)

\* READY and the queued events are logged for the websocket the client has.
LEMMA Dispatched ==
    ASSUME SInv, [SessionNext]_sessionVars
    PROVE  \/ UNCHANGED log /\ (Dial \/ UNCHANGED <<authUser, pushed, session>>)
           \/ /\ session \in Sessions /\ UNCHANGED <<session, cursor, received>>
              /\ \E e \in EventNames : log' = [log EXCEPT ![session] = Append(log[session], e)]
              /\ authUser'
              /\ \/ authUser /\ Len(pushed') = Len(pushed) + 1
                 \/ ~authUser /\ UNCHANGED pushed
<1>1. Running => session \in Sessions
  <2>1. session \in Sessions \cup {0}
    BY ClientTypes DEF SInv
  <2> QED
    BY <2>1 DEF Running, SInv, Greeted
<1>2. CASE PostMessage
  <2>1. UNCHANGED <<authUser, session, cursor, received>>
    BY <1>2 DEF PostMessage, createMessage
  <2>2. CASE UNCHANGED pushed
    BY <1>2, <2>1, <2>2 DEF PostMessage
  <2>3. CASE pushed' # pushed
    <3>1. registered /\ authUser /\ pushed' = Append(pushed, posted') /\ Dispatch("EVENT")
      BY <1>2, <2>3 DEF PostMessage, createMessage
    <3>2. Len(pushed') = Len(pushed) + 1
      <4>1. posted' \in Events /\ pushed \in Seq(Events)
        <5>1. posted \in 0..MaxEvents /\ pushed \in Seq(Events)
          BY ServerTypes DEF SInv, SessionTypeOK
        <5> QED
          BY <1>2, <5>1, FakeGatewayAssumption DEF PostMessage, createMessage, Events
      <4> QED
        BY <3>1, <4>1, AppendProperties
    <3>3. session \in Sessions
      BY <1>1, <3>1 DEF SInv, Greeted, Running
    <3>4. \E e \in EventNames : log' = [log EXCEPT ![session] = Append(log[session], e)]
      BY <3>1 DEF Dispatch, EventNames
    <3> QED
      BY <2>1, <3>1, <3>2, <3>3, <3>4
  <2> QED
    BY <2>2, <2>3
<1>3. CASE Identified
  <2>1. UNCHANGED <<pushed, session, cursor, received>> /\ Running
    BY <1>3 DEF Identified, ReadPayload, msgVars
  <2>2. CASE UNCHANGED authUser
    BY <1>3, <2>1, <2>2 DEF Identified
  <2>3. CASE authUser' # authUser
    <3>1. authUser \in BOOLEAN /\ authUser' = (authUser \/ Head(c2s) = "Identify")
      BY <1>3, Zenon DEF Identified, ReadPayload, SInv, SessionTypeOK, TypeOK
    <3>2. ~authUser /\ authUser'
      BY <2>3, <3>1, Zenon
    <3>3. \E e \in EventNames : log' = [log EXCEPT ![session] = Append(log[session], e)]
      BY <1>3, <2>3 DEF Identified, Dispatch, EventNames
    <3> QED
      BY <1>1, <2>1, <3>2, <3>3
  <2> QED
    BY <2>2, <2>3
<1>4. CASE Dial
  BY <1>4 DEF Dial, NewWebsocket
<1>5. CASE GivesUp
  BY <1>5, GivesUpChanges
<1>6. ASSUME UNCHANGED authUser, UNCHANGED pushed, UNCHANGED <<session, log>>
      PROVE  UNCHANGED log /\ (Dial \/ UNCHANGED <<authUser, pushed, session>>)
  BY <1>6
<1>7. CASE (Start \/ StartFails \/ Finish \/ ReadFails \/ Notifier \/ SendReply \/ SendEvent
            \/ SendCancelled \/ Written \/ WriterStops) /\ UNCHANGED <<clientVars, drops, historyVars>>
  BY <1>6, <1>7 DEF Start, StartFails, Finish, ReadFails, Notifier, TakeQueue, AwaitQueue,
     QueueNotified, NotifierCancelled, SendReply, SendEvent, SendCancelled, Written, WriterStops,
     gwVars, msgVars, historyVars
<1>8. CASE ReadHello \/ Heartbeat \/ ReadACK \/ ReadReady \/ ListenBuffered
           \/ ListenDispatch \/ Drop \/ UNCHANGED sessionVars
  BY <1>6, <1>8 DEF ReadHello, Heartbeat, ReadACK, ReadReady, ListenBuffered, ListenDispatch,
     HandOut, Drop, ClientLeaves, sessionVars, vars, gwVars, msgVars, historyVars
<1> QED
  BY <1>2, <1>3, <1>4, <1>5, <1>7, <1>8, SessionSteps DEF Overtaken, ReadBroken, Leave

\* Only Listen moves the cursor, and only dialling starts another websocket.
LEMMA Listening ==
    ASSUME [SessionNext]_sessionVars
    PROVE  /\ ListenBuffered \/ ListenDispatch \/ UNCHANGED <<cursor, received>>
           /\ Dial \/ UNCHANGED session
           /\ Dial \/ ReadReady \/ ListenBuffered \/ UNCHANGED buffered
<1>1. CASE PostMessage \/ Identified \/ Dial
  BY <1>1 DEF PostMessage, Identified, Dial, NewWebsocket, clientVars
<1>2. CASE GivesUp
  BY <1>2, GivesUpChanges
<1>3. CASE UNCHANGED <<clientVars, drops, historyVars>> \/ UNCHANGED sessionVars
  BY <1>3 DEF sessionVars, clientVars, historyVars
<1>4. CASE ReadHello \/ Heartbeat \/ ReadACK \/ ReadReady \/ Drop
  BY <1>4 DEF ReadHello, Heartbeat, ReadACK, ReadReady, Drop, clientVars, historyVars
<1>5. CASE ListenBuffered \/ ListenDispatch
  BY <1>5 DEF ListenBuffered, ListenDispatch
<1> QED
  BY <1>1, <1>2, <1>3, <1>4, <1>5, SessionSteps DEF Overtaken, ReadBroken, Leave

\* There is a number for the websocket that is dialled: each one before it was
\* given up for a loss or for an event of its own.
LEMMA DialFits ==
    ASSUME SInv, Dial
    PROVE  session' = session + 1 /\ session' \in Sessions /\ session' # session
<1>1. session \in Nat /\ drops \in Nat /\ drops <= MaxDrops /\ posted \in Nat /\ posted <= MaxEvents
  BY ClientTypes, ServerTypes, FakeGatewayAssumption DEF SInv, SessionTypeOK
<1>2. session' = session + 1 /\ session <= drops + posted
  BY DEF Dial, NewWebsocket, SInv, Counted
<1> QED
  BY <1>1, <1>2, SessionAssumption, FakeGatewayAssumption DEF Sessions

LEMMA Numbers ==
    ASSUME SInv
    PROVE  /\ pushed \in Seq(Events) /\ Len(pushed) \in Nat /\ Len(written) \in Nat /\ Len(wire) \in Nat
           /\ Len(written) <= Len(pushed) /\ seen \in Nat /\ seen <= Len(wire)
           /\ \A k \in 1..Len(pushed) : pushed[k] \in Nat
           /\ \A k \in 1..Len(written) : k \in 1..Len(pushed) /\ written[k] = pushed[k]
           /\ \A k, l \in 1..Len(pushed) : k < l => pushed[k] < pushed[l]
<1>1. pushed \in Seq(Events) /\ Len(pushed) \in Nat /\ Len(written) \in Nat /\ Len(wire) \in Nat
  BY ServerTypes DEF SInv, SessionTypeOK
<1>2. \A e \in Events : e \in Nat
  BY DEF Events
<1>3. \A k \in 1..Len(pushed) : pushed[k] \in Events
  BY <1>1, ElementOfSeq
<1>4. seen \in Nat /\ seen <= Len(wire)
  BY ClientTypes DEF SInv
<1>5. /\ Len(written) <= Len(pushed) /\ \A k \in 1..Len(written) : written[k] = pushed[k]
      /\ \A k, l \in 1..Len(pushed) : k < l => pushed[k] < pushed[l]
  BY DEF SInv, Beginning, Ascending
<1> QED
  BY <1>1, <1>2, <1>3, <1>4, <1>5

\* The event that Listen reads next is the next one that was queued.
LEMMA NextEvent ==
    ASSUME SInv, ListenDispatch
    PROVE  LET c == cursor[session]
           IN  /\ session \in Sessions /\ c \in 1..Len(written)
               /\ wire[seen + 1].kind = "Event" /\ wire[seen + 1].n = written[c]
               /\ c < Len(log[session])
               /\ cursor' = [cursor EXCEPT ![session] = c + 1]
               /\ received' = Append(received, <<session, c + 1>>)
<1> DEFINE c == cursor[session]
           i0 == seen + 1
<1>1. /\ client = "ready" /\ ~buffered /\ seen < Len(wire) /\ wire[i0].kind \in {"READY", "Event"}
      /\ HandOut(IF wire[i0].kind = "READY" THEN 1 ELSE Position(wire[i0].n))
  BY DEF ListenDispatch, Reads, next
<1>2. session \in Sessions
  <2>1. session \in Sessions \cup {0}
    BY ClientTypes DEF SInv
  <2> QED
    BY <1>1, <2>1 DEF SInv, Greeted
<1>3. i0 \in 1..Len(wire) /\ i0 > seen /\ seen \in Nat
  BY <1>1, Numbers
<1>4. wire[i0].kind = "Event"
  <2> SUFFICES wire[i0].kind # "READY"
    BY <1>1
  <2>1. PICK i \in 1..seen : wire[i].kind = "READY"
    BY <1>1 DEF SInv, ReadyOnce, Answered
  <2>2. i \in 1..Len(wire) /\ i # i0
    BY <1>3, Numbers
  <2> QED
    BY <1>3, <2>1, <2>2 DEF SInv, ReadyOnce
<1>5. /\ c \in Nat /\ c >= 1 /\ c <= Len(written) + 1
      /\ \A i \in 1..Len(wire) : IsEvent(i) => (i <= seen <=> HandedOut(i))
  <2>1. c \in Nat
    BY <1>2, ClientTypes DEF SInv
  <2>2. c # 0
    BY <1>1 DEF SInv, Consumed
  <2> QED
    BY <1>1, <2>1, <2>2 DEF SInv, Consumed
<1> HIDE DEF i0
<1>6. PICK k \in 1..Len(written) : wire[i0].n = written[k]
  BY <1>3, <1>4 DEF SInv, OnWire, IsEvent
<1>7. c <= k
  <2>1. ~HandedOut(i0)
    BY <1>3, <1>4, <1>5 DEF IsEvent
  <2> QED
    BY <1>5, <1>6, <2>1 DEF HandedOut
<1>8. c \in 1..Len(written)
  BY <1>5, <1>7, Numbers
<1>9. ~(c < k)
  <2> SUFFICES ASSUME c < k PROVE FALSE
    OBVIOUS
  <2>1. written[c] < written[k] /\ written[c] \in Nat /\ written[k] \in Nat
    BY <1>8, Numbers
  <2>2. PICK i \in 1..Len(wire) : IsEvent(i) /\ wire[i].n = written[c]
    BY <1>8 DEF SInv, OnWire
  <2>3. i # i0
    BY <1>6, <2>1, <2>2
  <2>4. ~(i <= seen)
    <3> SUFFICES ASSUME i <= seen PROVE FALSE
      OBVIOUS
    <3>1. PICK l \in 1..Len(written) : l < c /\ wire[i].n = written[l]
      BY <1>5, <2>2 DEF HandedOut
    <3>2. written[l] < written[c] /\ written[l] \in Nat
      BY <1>8, <3>1, Numbers
    <3> QED
      BY <2>1, <2>2, <3>1, <3>2
  <2>5. i0 < i
    BY <1>3, <2>2, <2>3, <2>4 DEF i0
  <2>6. wire[i0].n < wire[i].n
    BY <1>3, <1>4, <2>2, <2>5 DEF SInv, OnWire, IsEvent
  <2> QED
    BY <1>6, <2>1, <2>2, <2>6
<1>10. k = c
  BY <1>5, <1>6, <1>7, <1>9
<1>11. Position(wire[i0].n) = c + 1
  <2>1. c \in 1..Len(pushed) /\ pushed[c] = wire[i0].n
    BY <1>6, <1>8, <1>10, Numbers
  <2>2. \A i \in 1..Len(pushed) : pushed[i] = wire[i0].n => i = c
    <3> SUFFICES ASSUME NEW i \in 1..Len(pushed), pushed[i] = pushed[c] PROVE i = c
      BY <2>1
    <3>1. ~(i < c) /\ ~(c < i)
      BY <2>1, Numbers
    <3> QED
      BY <2>1, <3>1
  <2>3. (CHOOSE i \in 1..Len(pushed) : pushed[i] = wire[i0].n) = c
    BY <2>1, <2>2
  <2>4. Position(wire[i0].n) = 1 + c
    BY <2>3, Zenon DEF Position
  <2> QED
    BY <1>5, <2>4
<1>12. c < Len(log[session])
  <2>1. pushed # <<>>
    BY <1>8, Numbers
  <2>2. session # 0 /\ authUser
    BY <1>1, <2>1 DEF SInv, Logged, Greeted
  <2>3. Len(log[session]) = 1 + Len(pushed)
    BY <2>2 DEF SInv, Logged
  <2> QED
    BY <1>8, <2>3, Numbers
<1>13. cursor' = [cursor EXCEPT ![session] = c + 1] /\ received' = Append(received, <<session, c + 1>>)
  BY <1>1, <1>4, <1>11 DEF HandOut
<1> QED
  BY <1>2, <1>4, <1>6, <1>8, <1>10, <1>12, <1>13 DEF i0

\* What a step adds to the wire was not handed out, and what was there stays
\* handed out or not, as long as the cursor stays.
LEMMA HandedOutKept ==
    ASSUME SInv, [SessionNext]_sessionVars, ~Dial, client # "off"
    PROVE  /\ Len(written) <= Len(written') /\ Len(written') \in Nat
           /\ \A i \in 1..Len(wire') : wire'[i].kind = "Event" =>
                 ((\E k \in 1..Len(written') : k < cursor[session] /\ wire'[i].n = written'[k])
                    <=> i \in 1..Len(wire) /\ HandedOut(i))
<1>a. /\ Len(wire) \in Nat /\ Len(written) \in Nat
      /\ written \in Seq(Events) /\ writer[2] \in Outbound
  BY ServerTypes DEF SInv, SessionTypeOK, TypeOK
<1>b. /\ Len(wire') \in Nat /\ Len(wire) <= Len(wire')
      /\ \A i \in 1..Len(wire) : i \in 1..Len(wire') /\ wire'[i] = wire[i]
  BY WireGrows DEF SInv
<1>c. cursor[session] \in Nat /\ cursor[session] <= Len(written) + 1
  <2>1. session \in Sessions
    <3>1. session \in Sessions \cup {0}
      BY ClientTypes DEF SInv
    <3> QED
      BY <3>1 DEF SInv, Greeted
  <2> QED
    BY <2>1, ClientTypes DEF SInv, Consumed
<1>1. /\ Len(written') \in Nat /\ Len(written) <= Len(written')
      /\ \A k \in 1..Len(written) : k \in 1..Len(written') /\ written'[k] = written[k]
  <2>1. CASE UNCHANGED written
    BY <1>a, <2>1
  <2>2. CASE written' = written \o Number(writer[2])
    <3> DEFINE e == Number(writer[2])
    <3>1. e \in Seq(Events) /\ Len(e) \in Nat
      BY <1>a, NumberType
    <3> HIDE DEF e
    <3>2. /\ Len(written \o e) = Len(written) + Len(e)
          /\ \A k \in 1..(Len(written) + Len(e)) :
                (written \o e)[k] = IF k <= Len(written) THEN written[k] ELSE e[k - Len(written)]
      BY <1>a, <3>1, ConcatProperties
    <3>3. written' = written \o e
      BY <2>2 DEF e
    <3> QED
      BY <1>a, <3>1, <3>2, <3>3
  <2> QED
    BY <2>1, <2>2, Wiring DEF SInv
<1>2. /\ \A i \in 1..Len(wire) : IsEvent(i) => \E k \in 1..Len(written) : wire[i].n = written[k]
      /\ \A k \in 1..Len(written) : \E i \in 1..Len(wire) : IsEvent(i) /\ wire[i].n = written[k]
      /\ \A i, j \in 1..Len(wire) : i < j /\ IsEvent(i) /\ IsEvent(j) => wire[i].n < wire[j].n
  BY DEF SInv, OnWire
<1>3. \A i, j \in 1..Len(wire') :
         i < j /\ wire'[i].kind = "Event" /\ wire'[j].kind = "Event" => wire'[i].n < wire'[j].n
  BY OnWireNext DEF OnWire, IsEvent
<1>4. \A k \in 1..Len(written') : k < cursor[session] => k \in 1..Len(written)
  BY <1>a, <1>c, <1>1
<1>5. ASSUME NEW i \in 1..Len(wire), wire'[i].kind = "Event"
      PROVE  (\E k \in 1..Len(written') : k < cursor[session] /\ wire'[i].n = written'[k])
                <=> HandedOut(i)
  <2>1. wire'[i] = wire[i]
    BY <1>b
  <2>2. ASSUME NEW k \in 1..Len(written'), k < cursor[session], wire'[i].n = written'[k]
        PROVE  HandedOut(i)
    <3>1. k \in 1..Len(written) /\ written'[k] = written[k]
      BY <1>1, <1>4, <2>2
    <3> QED
      BY <2>1, <2>2, <3>1 DEF HandedOut
  <2>3. ASSUME NEW k \in 1..Len(written), k < cursor[session], wire[i].n = written[k]
        PROVE  k \in 1..Len(written') /\ wire'[i].n = written'[k]
    BY <1>1, <2>1, <2>3
  <2> QED
    BY <2>2, <2>3 DEF HandedOut
<1>6. ASSUME NEW i \in 1..Len(wire'), wire'[i].kind = "Event", i \notin 1..Len(wire),
             NEW k \in 1..Len(written'), k < cursor[session], wire'[i].n = written'[k]
      PROVE  FALSE
  <2>1. k \in 1..Len(written) /\ written'[k] = written[k]
    BY <1>1, <1>4, <1>6
  <2>2. PICK j \in 1..Len(wire) : IsEvent(j) /\ wire[j].n = written[k]
    BY <1>2, <2>1
  <2>3. j \in 1..Len(wire') /\ wire'[j] = wire[j] /\ j < i
    BY <1>a, <1>b, <1>6
  <2>4. wire'[j].n < wire'[i].n
    BY <1>3, <1>6, <2>2, <2>3 DEF IsEvent
  <2>5. wire'[j].n = written[k] /\ wire'[i].n = written[k] /\ written[k] \in Nat
    BY <1>6, <2>1, <2>2, <2>3, Numbers
  <2> QED
    BY <2>4, <2>5
<1> QED
  BY <1>1, <1>5, <1>6

LEMMA ConsumedNext ==
    ASSUME SInv, [SessionNext]_sessionVars
    PROVE  Consumed'
<1> DEFINE c == cursor[session]
           c2 == cursor'[session']
           HandedOut2(i) == \E k \in 1..Len(written') : k < c2 /\ wire'[i].n = written'[k]
<1>1. CASE Dial
  <2>1. wire' = <<>> /\ written' = <<>> /\ cursor' = cursor /\ client' = "hello"
    BY <1>1 DEF Dial, NewWebsocket
  <2>2. session' \in Sessions /\ session' > session
    <3>1. session \in Nat
      BY ClientTypes DEF SInv
    <3> QED
      BY <1>1, <3>1, DialFits
  <2>3. cursor'[session'] = 0
    BY <2>1, <2>2 DEF SInv, Logged
  <2>4. Len(wire') = 0 /\ Len(written') = 0
    BY <2>1
  <2> QED
    BY <2>1, <2>3, <2>4 DEF Consumed
<1>2. ASSUME ~Dial, client' # "off" PROVE Consumed'
  <2>1. client # "off" /\ session' = session /\ session \in Sessions
    <3>1. client # "off"
      BY <1>2, Calling DEF SInv, GivesUp, ReadACK, ListenDispatch
    <3>2. session \in Sessions \cup {0} /\ session # 0
      BY <3>1, ClientTypes DEF SInv, Greeted
    <3> QED
      BY <1>2, <3>1, <3>2, Listening
  <2>2. /\ c \in Nat /\ c <= Len(written) + 1 /\ (c = 0 <=> client # "ready" \/ buffered)
        /\ \A i \in 1..Len(wire) : IsEvent(i) => (i <= seen <=> HandedOut(i))
    BY <2>1, ClientTypes DEF SInv, Consumed
  <2>3. /\ Len(written) <= Len(written') /\ Len(written') \in Nat /\ Len(written) \in Nat
        /\ \A i \in 1..Len(wire') : wire'[i].kind = "Event" =>
              ((\E k \in 1..Len(written') : k < c /\ wire'[i].n = written'[k])
                 <=> i \in 1..Len(wire) /\ HandedOut(i))
    BY <1>2, <2>1, HandedOutKept, Numbers
  <2>4. /\ Len(wire) \in Nat /\ Len(wire') \in Nat /\ Len(wire) <= Len(wire')
        /\ \A i \in 1..Len(wire) : wire'[i] = wire[i]
        /\ seen \in Nat /\ seen <= Len(wire)
    BY <1>2, WireGrows, Numbers DEF SInv
  <2>5. ASSUME cursor' = cursor, c = 0 <=> client' # "ready" \/ buffered',
               \/ seen' = seen
               \/ seen' = seen + 1 /\ seen < Len(wire) /\ wire[seen + 1].kind # "Event"
        PROVE  Consumed'
    <3>1. c2 = c
      BY <2>1, <2>5
    <3>2. c2 <= Len(written') + 1
      BY <2>2, <2>3, <3>1
    <3>3. ASSUME NEW i \in 1..Len(wire'), wire'[i].kind = "Event"
          PROVE  i <= seen' <=> HandedOut2(i)
      <4>1. HandedOut2(i) <=> i \in 1..Len(wire) /\ HandedOut(i)
        BY <2>3, <3>1, <3>3
      <4>2. CASE i \in 1..Len(wire)
        <5>1. wire'[i] = wire[i]
          BY <2>4, <4>2
        <5>2. i <= seen <=> HandedOut(i)
          BY <2>2, <3>3, <4>2, <5>1 DEF IsEvent
        <5>3. i <= seen' <=> i <= seen
          BY <2>4, <2>5, <3>3, <4>2, <5>1
        <5> QED
          BY <4>1, <4>2, <5>2, <5>3
      <4>3. CASE i \notin 1..Len(wire)
        <5>1. ~(i <= seen')
          BY <2>4, <2>5, <4>3
        <5> QED
          BY <4>1, <4>3, <5>1
      <4> QED
        BY <4>2, <4>3
    <3>4. c2 = 0 <=> client' # "ready" \/ buffered'
      BY <2>5, <3>1
    <3> QED
      BY <3>2, <3>3, <3>4 DEF Consumed, IsEvent, HandedOut
  <2>6. CASE ListenBuffered
    <3>1. /\ client = "ready" /\ buffered /\ client' = client /\ seen' = seen /\ ~buffered'
          /\ cursor' = [cursor EXCEPT ![session] = 1]
      BY <2>6 DEF ListenBuffered, HandOut
    <3>2. c = 0 /\ c2 = 1
      BY <2>1, <2>2, <3>1, ClientTypes DEF SInv
    <3>3. c2 <= Len(written') + 1
      BY <2>3, <3>2
    <3>4. ASSUME NEW i \in 1..Len(wire'), wire'[i].kind = "Event"
          PROVE  i <= seen' <=> HandedOut2(i)
      <4>1. ~HandedOut2(i)
        BY <2>3, <3>2
      <4>2. ~(i <= seen)
        <5> SUFFICES ASSUME i <= seen PROVE FALSE
          OBVIOUS
        <5>1. i \in 1..Len(wire) /\ wire'[i] = wire[i]
          BY <2>4
        <5>2. HandedOut(i)
          BY <2>2, <3>4, <5>1 DEF IsEvent
        <5> QED
          BY <2>3, <3>2, <5>2 DEF HandedOut
      <4> QED
        BY <3>1, <4>1, <4>2
    <3> QED
      BY <3>1, <3>2, <3>3, <3>4 DEF Consumed, IsEvent, HandedOut
  <2>7. CASE ListenDispatch
    <3>1. /\ client = "ready" /\ ~buffered /\ client' = client /\ seen' = seen + 1 /\ ~buffered'
          /\ UNCHANGED <<wire, written>> /\ seen < Len(wire)
      BY <2>7 DEF ListenDispatch, Reads, vars, netVars, msgVars
    <3>2. /\ c \in 1..Len(written) /\ wire[seen + 1].kind = "Event"
          /\ wire[seen + 1].n = written[c] /\ cursor' = [cursor EXCEPT ![session] = c + 1]
      BY <2>7, NextEvent
    <3>3. c2 = c + 1
      BY <2>1, <3>2, ClientTypes DEF SInv
    <3>4. c2 <= Len(written') + 1 /\ c2 # 0
      BY <2>3, <3>1, <3>2, <3>3
    <3>5. ASSUME NEW i \in 1..Len(wire), wire[i].kind = "Event"
          PROVE  i <= seen' <=> HandedOut2(i)
      <4>1. i <= seen <=> HandedOut(i)
        BY <2>2, <3>5 DEF IsEvent
      <4>2. HandedOut2(i) <=> HandedOut(i) \/ wire[i].n = written[c]
        <5>1. \A k \in 1..Len(written) : k < c + 1 <=> k < c \/ k = c
          BY <2>2
        <5> QED
          BY <3>1, <3>2, <3>3, <5>1 DEF HandedOut
      <4>3. i = seen + 1 => HandedOut2(i)
        BY <3>2, <4>2
      <4>4. i > seen + 1 => ~HandedOut2(i)
        <5> SUFFICES ASSUME i > seen + 1 PROVE ~HandedOut2(i)
          OBVIOUS
        <5>1. seen + 1 \in 1..Len(wire) /\ seen + 1 < i /\ ~(i <= seen)
          BY <2>4, <3>1
        <5>2. wire[seen + 1].n < wire[i].n
          BY <3>2, <3>5, <5>1 DEF SInv, OnWire, IsEvent
        <5>3. written[c] \in Nat
          BY <3>2, Numbers
        <5>4. wire[i].n # written[c]
          BY <3>2, <5>2, <5>3
        <5> QED
          BY <4>1, <4>2, <5>1, <5>4
      <4> QED
        BY <2>4, <3>1, <4>1, <4>2, <4>3, <4>4
    <3> QED
      BY <3>1, <3>4, <3>5 DEF Consumed, IsEvent, HandedOut
  <2>8. CASE ReadHello
    <3>1. /\ client = "hello" /\ client' = "identify" /\ seen < Len(wire) /\ seen' = seen + 1
          /\ seen = 0 /\ cursor' = cursor
      BY <2>8 DEF ReadHello, Reads, historyVars, SInv, Greeted
    <3>2. wire[seen + 1].kind # "Event"
      <4>1. wire # <<>> /\ seen + 1 = 1
        BY <3>1
      <4> QED
        BY <4>1 DEF SInv, Greeted, Hello
    <3> QED
      BY <2>2, <2>5, <3>1, <3>2
  <2>9. CASE ReadACK \/ ReadReady
    <3>1. /\ seen' = seen + 1 /\ seen < Len(wire) /\ wire[seen + 1].kind # "Event" /\ cursor' = cursor
          /\ \/ UNCHANGED <<client, buffered>>
             \/ client = "identify" /\ buffered'
      BY <2>9 DEF ReadACK, ReadReady, Reads, next, historyVars
    <3> QED
      BY <2>2, <2>5, <3>1
  <2>10. CASE ~ListenBuffered /\ ~ListenDispatch /\ ~ReadHello /\ ~ReadACK /\ ~ReadReady
    <3>1. UNCHANGED <<client, buffered, seen, cursor>>
      BY <1>2, <2>10, Calling, Listening
    <3> QED
      BY <2>2, <2>5, <3>1
  <2> QED
    BY <2>6, <2>7, <2>8, <2>9, <2>10
<1>3. CASE client' = "off"
  BY <1>3 DEF Consumed
<1> QED
  BY <1>1, <1>2, <1>3

LEMMA LoggedNext ==
    ASSUME SInv, [SessionNext]_sessionVars
    PROVE  Logged'
<1>a. /\ session \in Nat /\ log \in [Sessions -> Seq(EventNames)] /\ cursor \in [Sessions -> Nat]
      /\ authUser \in BOOLEAN
  BY ClientTypes DEF SInv, SessionTypeOK, TypeOK
<1>b. /\ ~authUser => pushed = <<>>
      /\ session # 0 => Len(log[session]) = IF authUser THEN 1 + Len(pushed) ELSE 0
      /\ \A s \in Sessions : s > session => log[s] = <<>> /\ cursor[s] = 0
  BY DEF SInv, Logged
<1>c. \A s \in Sessions : s \in Nat
  BY DEF Sessions
<1>1. CASE Dial
  <2>1. pushed' = <<>> /\ authUser' = FALSE /\ log' = log /\ cursor' = cursor
    BY <1>1 DEF Dial, NewWebsocket
  <2>2. session' = session + 1 /\ session' \in Sessions
    BY <1>1, DialFits
  <2>3. \A s \in Sessions : s > session' => s > session
    BY <1>a, <1>c, <2>2
  <2>4. log[session'] = <<>>
    BY <1>a, <1>b, <2>2
  <2> QED
    BY <1>b, <2>1, <2>2, <2>3, <2>4 DEF Logged
<1>2. CASE ~Dial
  <2>0. session' = session
    BY <1>2, Listening
  <2>1. \A s \in Sessions : s > session => log'[s] = <<>> /\ cursor'[s] = 0
    <3> TAKE s \in Sessions
    <3> HAVE s > session
    <3>0. s # session
      BY <1>a, <1>c
    <3>1. log'[s] = log[s]
      BY <1>a, <3>0, Dispatched
    <3>2. cursor'[s] = cursor[s]
      <4>1. UNCHANGED cursor \/ \E n : cursor' = [cursor EXCEPT ![session] = n]
        BY Listening DEF ListenBuffered, ListenDispatch, HandOut
      <4> QED
        BY <1>a, <3>0, <4>1
    <3> QED
      BY <1>b, <3>1, <3>2
  <2>2. CASE UNCHANGED <<log, authUser, pushed>>
    BY <1>b, <2>0, <2>1, <2>2 DEF Logged
  <2>3. ASSUME session \in Sessions, NEW e \in EventNames,
               log' = [log EXCEPT ![session] = Append(log[session], e)], authUser',
               \/ authUser /\ Len(pushed') = Len(pushed) + 1
               \/ ~authUser /\ UNCHANGED pushed
        PROVE  Logged'
    <3>1. log'[session] = Append(log[session], e) /\ log[session] \in Seq(EventNames)
      BY <1>a, <2>3
    <3>2. Len(log'[session]) = Len(log[session]) + 1
      BY <3>1, AppendProperties
    <3>3. session # 0
      BY <2>3 DEF Sessions
    <3>4. Len(log[session]) = IF authUser THEN 1 + Len(pushed) ELSE 0
      BY <1>b, <3>3
    <3>5. Len(log'[session]) = 1 + Len(pushed')
      <4>1. Len(pushed) \in Nat
        BY Numbers
      <4>2. CASE authUser
        BY <2>3, <3>2, <3>4, <4>1, <4>2
      <4>3. CASE ~authUser
        <5>1. pushed' = <<>>
          BY <1>b, <2>3, <4>3
        <5> QED
          BY <3>2, <3>4, <4>3, <5>1
      <4> QED
        BY <4>2, <4>3
    <3> QED
      BY <2>0, <2>1, <2>3, <3>5 DEF Logged
  <2> QED
    BY <1>2, <2>2, <2>3, Dispatched
<1> QED
  BY <1>1, <1>2

LEMMA CountedNext ==
    ASSUME SInv, [SessionNext]_sessionVars
    PROVE  Counted'
<1>a. /\ session \in Nat /\ drops \in Nat /\ posted \in Nat /\ Len(pushed) \in Nat
      /\ link \in BOOLEAN /\ pushed \in Seq(Events)
      /\ pushed # <<>> => pushed[1] \in Nat /\ pushed[1] <= posted
  <2>1. pushed # <<>> => 1 \in 1..Len(pushed)
    BY Numbers, EmptySeq
  <2>2. pushed # <<>> => pushed[1] \in Nat /\ pushed[1] <= posted
    BY <2>1, Numbers DEF SInv, Beginning
  <2> QED
    BY <2>2, Numbers, ClientTypes, ServerTypes DEF SInv, SessionTypeOK, TypeOK
<1>b. session <= drops + IF client = "off" THEN posted ELSE Before + (IF link THEN 1 ELSE 0)
  BY DEF SInv, Counted
<1>c. Before \in Int /\ Before <= posted
  BY <1>a DEF Before
<1> DEFINE Before2 == IF pushed' = <<>> THEN posted' ELSE pushed'[1] - 1
<1>1. CASE Dial
  BY <1>1, <1>a, <1>b, DialFits DEF Dial, NewWebsocket, Counted, Before
<1>2. CASE PostMessage
  <2>1. UNCHANGED <<client, session, drops, link>> /\ posted' = posted + 1
        /\ (UNCHANGED pushed \/ pushed' = Append(pushed, posted'))
    BY <1>2 DEF PostMessage, createMessage, netVars, clientVars
  <2>2. Before2 \in Int /\ Before <= Before2
    <3>1. CASE UNCHANGED pushed
      BY <1>a, <2>1, <3>1 DEF Before
    <3>2. CASE pushed' = Append(pushed, posted')
      <4>1. posted' \in Events
        BY <1>2, <1>a, FakeGatewayAssumption DEF PostMessage, createMessage, Events
      <4>2. pushed' # <<>> /\ (pushed # <<>> => pushed'[1] = pushed[1])
            /\ (pushed = <<>> => pushed'[1] = posted')
        <5>1. pushed' # <<>> /\ \A i \in 1..Len(pushed) : pushed'[i] = pushed[i]
          BY <1>a, <3>2, <4>1, AppendProperties
        <5>2. pushed # <<>> => 1 \in 1..Len(pushed)
          BY Numbers, EmptySeq
        <5>3. pushed = <<>> => pushed'[1] = posted'
          BY <3>2
        <5> QED
          BY <5>1, <5>2, <5>3
      <4> QED
        BY <1>a, <2>1, <4>2 DEF Before
    <3> QED
      BY <2>1, <3>1, <3>2
  <2> HIDE DEF Before2
  <2>3. session <= drops + IF client = "off" THEN posted' ELSE Before2 + (IF link THEN 1 ELSE 0)
    BY <1>a, <1>b, <1>c, <2>1, <2>2
  <2> QED
    BY <2>1, <2>3 DEF Counted, Before, Before2
<1>3. CASE Drop
  <2>1. /\ drops' = drops + 1 /\ link /\ link' = FALSE
        /\ UNCHANGED <<client, session, posted, pushed>>
    BY <1>3 DEF Drop, ClientLeaves, clientVars, historyVars, msgVars
  <2>2. client # "off"
    BY <2>1 DEF SInv, Alive
  <2>3. Before' = Before
    BY <2>1 DEF Before
  <2>4. session <= drops + (Before + 1)
    BY <1>b, <2>1, <2>2
  <2>5. session <= (drops + 1) + (Before + 0)
    BY <1>a, <1>c, <2>4
  <2> QED
    BY <2>1, <2>2, <2>3, <2>5 DEF Counted
<1>4. CASE GivesUp /\ (drops' = drops + 1 \/ (drops' = drops /\ (~link \/ Overtaken)))
  <2>1. client' = "off" /\ UNCHANGED <<session, posted, pushed>>
    BY <1>4, GivesUpChanges
  <2>2. session <= drops' + posted
    <3>1. CASE drops' = drops + 1
      BY <1>a, <1>b, <1>c, <3>1
    <3>2. CASE drops' = drops /\ ~link
      BY <1>a, <1>b, <1>c, <3>2
    <3>3. CASE drops' = drops /\ Overtaken
      <4>1. client = "identify" /\ seen < Len(wire) /\ wire[seen + 1].kind = "Event"
        BY <3>3 DEF Overtaken, next
      <4>2. seen + 1 \in 1..Len(wire)
        BY <4>1, Numbers
      <4>3. \E k \in 1..Len(written) : wire[seen + 1].n = written[k]
        BY <4>1, <4>2 DEF SInv, OnWire, IsEvent
      <4>4. pushed # <<>>
        BY <4>3, Numbers
      <4>5. Before <= posted - 1
        BY <1>a, <4>4 DEF Before
      <4>6. session <= drops + (Before + (IF link THEN 1 ELSE 0))
        BY <1>b, <4>1
      <4> QED
        BY <1>a, <1>c, <3>3, <4>5, <4>6
    <3> QED
      BY <1>4, <3>1, <3>2, <3>3
  <2> QED
    BY <2>1, <2>2 DEF Counted
<1>5. ASSUME UNCHANGED <<session, drops, posted, pushed>>, client' = "off" <=> client = "off",
             link' = link
      PROVE  Counted'
  <2>1. Before' = Before
    BY <1>5 DEF Before
  <2>2. CASE client = "off"
    BY <1>5, <1>b, <2>2 DEF Counted
  <2>3. CASE client # "off"
    BY <1>5, <1>b, <2>1, <2>3 DEF Counted
  <2> QED
    BY <2>2, <2>3
<1>6. CASE Finish /\ UNCHANGED <<clientVars, drops, historyVars>>
  <2>1. ~link
    BY <1>6 DEF Finish, SInv, Alive
  <2>2. link' = FALSE /\ link = FALSE
    BY <1>6, <1>a, <2>1 DEF Finish
  <2>3. UNCHANGED <<posted, pushed, client, session, drops>>
    BY <1>6 DEF Finish, msgVars, clientVars, historyVars
  <2> QED
    BY <1>5, <2>2, <2>3
<1>7. CASE (Start \/ StartFails \/ ReadFails \/ Notifier \/ SendReply \/ SendEvent
            \/ SendCancelled \/ Written \/ WriterStops) /\ UNCHANGED <<clientVars, drops, historyVars>>
  <2>1. UNCHANGED <<posted, pushed, link, client, session, drops>>
    BY <1>7 DEF Start, StartFails, ReadFails, Notifier, TakeQueue, AwaitQueue, QueueNotified,
       NotifierCancelled, SendReply, SendEvent, SendCancelled, Written, WriterStops, msgVars, netVars,
       clientVars, historyVars
  <2> QED
    BY <1>5, <2>1
<1>8. CASE Identified \/ ReadHello \/ Heartbeat \/ ReadACK \/ ReadReady \/ ListenBuffered
           \/ ListenDispatch \/ UNCHANGED sessionVars
  <2>1. /\ UNCHANGED <<posted, pushed, link, session, drops>>
        /\ client' = client \/ (client # "off" /\ client' # "off")
    BY <1>8 DEF Identified, ReadPayload, ReadHello, Heartbeat, ReadACK, ReadReady, ListenBuffered,
       ListenDispatch, sessionVars, vars, msgVars, netVars, clientVars, historyVars
  <2> QED
    BY <1>5, <2>1
<1>9. CASE Overtaken \/ ReadBroken \/ Leave
  BY <1>4, <1>9 DEF Overtaken, ReadBroken, Leave
<1> QED
  BY <1>1, <1>2, <1>3, <1>6, <1>7, <1>8, <1>9, SessionSteps

----------------------------------------------------------------------------
(* Types, and the refinement *)

LEMMA SessionTypes ==
    ASSUME SInv, [SessionNext]_sessionVars
    PROVE  SessionTypeOK'
<1>a. /\ seen \in Nat /\ seen <= Len(wire) /\ drops \in Nat /\ drops <= MaxDrops /\ session \in Nat
      /\ session \in Sessions \cup {0} /\ Len(wire) \in Nat
      /\ log \in [Sessions -> Seq(EventNames)] /\ cursor \in [Sessions -> Nat]
      /\ received \in Seq(Sessions \X Nat)
  BY ClientTypes, Numbers DEF SInv
<1>1. TypeOK'
  BY CoreNext DEF SInv
<1>2. client' \in {"off", "hello", "identify", "ready"}
  <2>1. client \in {"off", "hello", "identify", "ready"}
    BY DEF SInv, SessionTypeOK
  <2> QED
    BY <2>1, Calling DEF ReadACK, ListenDispatch
<1>3. buffered' \in BOOLEAN
  <2>1. buffered \in BOOLEAN
    BY DEF SInv, SessionTypeOK
  <2>2. CASE Dial \/ ReadReady \/ ListenBuffered
    BY <2>2 DEF Dial, NewWebsocket, ReadReady, ListenBuffered
  <2> QED
    BY <2>1, <2>2, Listening
<1>4. seen' \in 0..Len(wire')
  <2>1. CASE Dial
    BY <2>1 DEF Dial, NewWebsocket
  <2>2. CASE ~Dial
    <3>1. seen' = seen \/ (seen' = seen + 1 /\ seen < Len(wire))
      BY <2>2, Calling DEF ReadHello, ReadACK, ReadReady, ListenDispatch, Reads
    <3>2. Len(wire') \in Nat /\ Len(wire) <= Len(wire')
      BY <2>2, WireGrows DEF SInv
    <3> QED
      BY <1>a, <3>1, <3>2
  <2> QED
    BY <2>1, <2>2
<1>5. drops' \in 0..MaxDrops
  <2>1. UNCHANGED drops \/ (drops < MaxDrops /\ drops' = drops + 1)
    <3>1. CASE PostMessage \/ Identified \/ Dial \/ ReadHello \/ ReadACK \/ ReadReady
               \/ ListenBuffered \/ ListenDispatch \/ Heartbeat \/ UNCHANGED sessionVars
      BY <3>1 DEF PostMessage, Identified, Dial, NewWebsocket, ReadHello, ReadACK, ReadReady,
         ListenBuffered, ListenDispatch, Heartbeat, sessionVars
    <3> QED
      BY <3>1, SessionSteps DEF Overtaken, ReadBroken, Drop, Leave
  <2> QED
    BY <1>a, <2>1, SessionAssumption
<1>6. session' \in Sessions \cup {0}
  BY <1>a, DialFits, Listening
<1>7. log' \in [Sessions -> Seq(EventNames)]
  <2>1. CASE UNCHANGED log
    BY <1>a, <2>1
  <2>2. ASSUME session \in Sessions, NEW e \in EventNames,
               log' = [log EXCEPT ![session] = Append(log[session], e)]
        PROVE  log' \in [Sessions -> Seq(EventNames)]
    <3>1. Append(log[session], e) \in Seq(EventNames)
      BY <1>a, <2>2, AppendProperties
    <3> QED
      BY <1>a, <2>2, <3>1
  <2> QED
    BY <2>1, <2>2, Dispatched
<1>8. cursor' \in [Sessions -> Nat] /\ received' \in Seq(Sessions \X Nat)
  <2>1. CASE UNCHANGED <<cursor, received>>
    BY <1>a, <2>1
  <2>2. ASSUME session \in Sessions, NEW n \in Nat, cursor' = [cursor EXCEPT ![session] = n],
               received' = Append(received, <<session, n>>)
        PROVE  cursor' \in [Sessions -> Nat] /\ received' \in Seq(Sessions \X Nat)
    <3>1. <<session, n>> \in Sessions \X Nat
      BY <2>2
    <3>2. received' \in Seq(Sessions \X Nat)
      BY <1>a, <2>2, <3>1, AppendProperties
    <3> QED
      BY <1>a, <2>2, <3>2
  <2>3. CASE ListenBuffered
    <3>1. session \in Sessions
      BY <1>a, <2>3 DEF ListenBuffered, SInv, Greeted
    <3> QED
      BY <2>2, <2>3, <3>1 DEF ListenBuffered, HandOut
  <2>4. CASE ListenDispatch
    <3>1. /\ session \in Sessions /\ cursor[session] + 1 \in Nat
          /\ cursor' = [cursor EXCEPT ![session] = cursor[session] + 1]
          /\ received' = Append(received, <<session, cursor[session] + 1>>)
      BY <1>a, <2>4, NextEvent
    <3> QED
      BY <2>2, <3>1
  <2> QED
    BY <2>1, <2>3, <2>4, Listening
<1> QED
  BY <1>1, <1>2, <1>3, <1>4, <1>5, <1>6, <1>7, <1>8 DEF SessionTypeOK

LEMMA SessionInitInv == SessionInit => SInv
<1> SUFFICES ASSUME SessionInit PROVE SInv
  OBVIOUS
<1> USE DEF SessionInit
<1>1. /\ <<>> \in Seq(Events) /\ <<>> \in Seq(Questions) /\ <<>> \in Seq(Outbound)
      /\ 0 \in 0..MaxRequests /\ 0 \in 0..MaxEvents /\ 0 \in 0..MaxDrops
      /\ <<>> \in Seq(Sessions \X Nat) /\ <<>> \in Seq(EventNames)
  BY FakeGatewayAssumption, SessionAssumption
<1>2. TypeOK
  BY <1>1, PayloadTypes DEF TypeOK
<1>3. SessionTypeOK
  <2>1. client \in {"off", "hello", "identify", "ready"} /\ buffered \in BOOLEAN
    BY Zenon
  <2>2. seen \in 0..Len(wire) /\ drops \in 0..MaxDrops /\ session \in Sessions \cup {0}
    BY <1>1
  <2>3. /\ log \in [Sessions -> Seq(EventNames)] /\ cursor \in [Sessions -> Nat]
        /\ received \in Seq(Sessions \X Nat)
    BY <1>1
  <2> QED
    BY <1>2, <2>1, <2>2, <2>3 DEF SessionTypeOK
<1>4. EventsInOrder /\ BatchOK
  BY DEF EventsInOrder, BatchOK
<1>5. Alive /\ Greeted
  BY DEF Alive, Greeted
<1>6. ReadyOnce
  <2>1. writer[2].kind = "none"
    BY DEF doneWriter, nothing
  <2> QED
    BY <2>1 DEF ReadyOnce, Asked, Answering, Answered
<1>7. Beginning /\ OnWire /\ Consumed
  BY DEF Beginning, Ascending, OnWire, Consumed
<1>8. Logged
  BY DEF Logged
<1>9. Counted
  BY DEF Counted
<1> QED
  BY <1>3, <1>4, <1>5, <1>6, <1>7, <1>8, <1>9 DEF SInv

LEMMA SessionStep == SInv /\ [SessionNext]_sessionVars => SInv'
<1> SUFFICES ASSUME SInv, [SessionNext]_sessionVars PROVE SInv'
  OBVIOUS
<1>1. SessionTypeOK' /\ BatchOK' /\ EventsInOrder'
  BY SessionTypes, CoreNext DEF SInv
<1>2. Alive' /\ Greeted' /\ ReadyOnce'
  BY AliveNext, GreetedNext, ReadyOnceNext DEF SInv
<1>3. Beginning' /\ OnWire' /\ Consumed' /\ Logged' /\ Counted'
  BY BeginningNext, OnWireNext, ConsumedNext, LoggedNext, CountedNext
<1> QED
  BY <1>1, <1>2, <1>3 DEF SInv

LEMMA SessionAlways == SessionInit /\ [][SessionNext]_sessionVars => []SInv
BY SessionInitInv, SessionStep, PTL

\* A step of the client or of the server is a step of the event stream: the
\* server dispatches, the client consumes, or neither.
LEMMA StreamStep == SInv /\ [SessionNext]_sessionVars => [Stream!Next]_(Stream!vars)
<1> SUFFICES ASSUME SInv, [SessionNext]_sessionVars PROVE [Stream!Next]_(Stream!vars)
  OBVIOUS
<1>a. /\ log \in [Sessions -> Seq(EventNames)] /\ cursor \in [Sessions -> Nat]
      /\ session \in Sessions \cup {0}
  BY ClientTypes DEF SInv
<1>1. ASSUME UNCHANGED <<log, cursor, received>> PROVE [Stream!Next]_(Stream!vars)
  BY <1>1 DEF Stream!vars
<1>2. ASSUME session \in Sessions, cursor[session] < Len(log[session]), UNCHANGED log,
             cursor' = [cursor EXCEPT ![session] = cursor[session] + 1],
             received' = Append(received, <<session, cursor[session] + 1>>)
      PROVE  [Stream!Next]_(Stream!vars)
  <2>1. log[session][cursor[session] + 1] # "RESUMED"
    <3>1. log[session] \in Seq(EventNames) /\ cursor[session] \in Nat
      BY <1>a, <1>2
    <3>2. cursor[session] + 1 \in 1..Len(log[session])
      BY <1>2, <3>1
    <3> QED
      BY <3>1, <3>2 DEF EventNames
  <2>2. Stream!Consume(session)
    BY <1>2, <2>1 DEF Stream!Consume
  <2> QED
    BY <1>2, <2>2 DEF Stream!Next
<1>3. ASSUME session \in Sessions, UNCHANGED <<cursor, received>>, NEW e \in EventNames,
             log' = [log EXCEPT ![session] = Append(log[session], e)]
      PROVE  [Stream!Next]_(Stream!vars)
  <2>1. Stream!Publish(session)
    BY <1>3 DEF Stream!Publish
  <2> QED
    BY <1>3, <2>1 DEF Stream!Next
<1>4. CASE ListenBuffered
  <2>1. /\ client = "ready" /\ buffered /\ UNCHANGED log
        /\ cursor' = [cursor EXCEPT ![session] = 1] /\ received' = Append(received, <<session, 1>>)
    BY <1>4 DEF ListenBuffered, HandOut
  <2>2. session \in Sessions /\ session # 0
    BY <1>a, <2>1 DEF SInv, Greeted
  <2>3. cursor[session] = 0
    BY <2>1 DEF SInv, Consumed
  <2>4. Len(log[session]) > 0
    <3>1. PICK i \in 1..seen : wire[i].kind = "READY"
      BY <2>1 DEF SInv, ReadyOnce, Answered
    <3>2. i \in 1..Len(wire)
      BY <3>1, Numbers
    <3>3. authUser
      BY <3>1, <3>2 DEF SInv, ReadyOnce, Answered
    <3> QED
      BY <2>2, <3>3, Numbers DEF SInv, Logged
  <2> QED
    BY <1>2, <2>1, <2>2, <2>3, <2>4
<1>5. CASE ListenDispatch
  <2>1. UNCHANGED log
    BY <1>5 DEF ListenDispatch
  <2>2. /\ session \in Sessions /\ cursor[session] < Len(log[session])
        /\ cursor' = [cursor EXCEPT ![session] = cursor[session] + 1]
        /\ received' = Append(received, <<session, cursor[session] + 1>>)
    BY <1>5, NextEvent
  <2> QED
    BY <1>2, <2>1, <2>2
<1>6. CASE UNCHANGED <<cursor, received>>
  BY <1>1, <1>3, <1>6, Dispatched
<1> QED
  BY <1>4, <1>5, <1>6, Listening

\* The type invariant of the client and the server together: among others the
\* client never reads past what was written, and never needs more websockets
\* than losses and overtaken READYs account for.
THEOREM SessionTypeCorrect == FairSession => []SessionTypeOK
<1>1. SInv => SessionTypeOK
  BY DEF SInv
<1> QED
  BY <1>1, SessionAlways, PTL DEF FairSession

\* Against fakediscord's gateway too, Listen hands out what was dispatched on a
\* websocket in order, none of it twice and none skipped (gateway.go:454-462,
\* fakediscord/gateway.go:159-233), however the goroutines of the two sides,
\* losses and overtaken READYs interleave.
THEOREM ImplementsSessionStream == FairSession => EventStreamSpec
<1>1. SessionInit => Stream!Init
  BY DEF SessionInit, Stream!Init
<1> QED
  BY <1>1, SessionAlways, StreamStep, PTL DEF FairSession, EventStreamSpec, Stream!Spec
==============================================================================
