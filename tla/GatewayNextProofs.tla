-------------------------- MODULE GatewayNextProofs --------------------------
(***************************************************************************)
(* Theorems about GatewayNext, for every interval and every number of      *)
(* payloads, requests and faults. That a call returns the payload after    *)
(* those returned rests on what is on the wire: no event overtakes another *)
(* or leaves a gap behind, and as long as the connection takes payloads in *)
(* it holds all that were sent.  Once a call has failed, and with it the   *)
(* payload it may have read, there is no next call.                        *)
(***************************************************************************)
EXTENDS GatewayNext, SequenceTheorems, TLAPS

\* The payloads up to the one read: returned to the caller, or about to be.
base == IF msg = 0 THEN Len(returned) ELSE Len(returned) + 1

\* The events of q lie in b + 1 .. k, in ascending order.
Ascending(q, b, k) ==
    /\ \A i \in DOMAIN q : IsEvent(q[i]) => b < q[i].n /\ q[i].n <= k
    /\ \A i, j \in DOMAIN q : i < j /\ IsEvent(q[i]) /\ IsEvent(q[j]) => q[i].n < q[j].n

\* The event n is among the first i payloads of q.
Among(q, i, n) == \E j \in 1..i : IsEvent(q[j]) /\ q[j].n = n

\* No event of q overtakes one after b.
NoGaps(q, b) ==
    \A i \in DOMAIN q : IsEvent(q[i]) =>
        \A n \in Nat : b < n /\ n < q[i].n => Among(q, i - 1, n)

\* Every event after b, up to k, is in q.
Complete(q, b, k) == \A n \in Nat : b < n /\ n <= k => Among(q, Len(q), n)

\* TypeOK by the kind of what it says.
Flags ==
    /\ parentDone \in BOOLEAN /\ cancelled \in BOOLEAN
    /\ pendingAck \in BOOLEAN /\ tick \in BOOLEAN
    /\ deadline \in BOOLEAN /\ fresh \in BOOLEAN

Places ==
    /\ call \in {"out", "running", "failed"}
    /\ err \in {"none", "event", "no heartbeat", "write", "read"}
    /\ hb \in {"off", "select", "tick", "request", "done"}
    /\ rd \in {"off", "enter", "reading", "request", "ack", "done"}
    /\ linger \in {"none", "current", "old"} /\ link \in {"up", "mute", "down"}

Amounts ==
    /\ msg \in 0..MaxEvents /\ timer \in 1..Interval
    /\ s2c \in Seq(Payloads) /\ beats \in Nat
    /\ sent \in 0..MaxEvents /\ asked \in 0..MaxRequests
    /\ returned \in Seq(1..MaxEvents) /\ faults \in 0..MaxFaults

Calls ==
    /\ call # "running" => msg = 0 /\ hb = "off" /\ rd = "off"
    /\ msg # 0 => rd = "done" /\ msg = Len(returned) + 1
    /\ call = "running" /\ err = "event" => msg # 0

Wire ==
    /\ base <= sent
    /\ Ascending(s2c, base, sent)
    /\ call # "failed" => NoGaps(s2c, base)
    /\ call # "failed" /\ ~deadline /\ link = "up" => Complete(s2c, base, sent)

IInv == Flags /\ Places /\ Amounts /\ Calls /\ Wire

----------------------------------------------------------------------------
(* Payloads on a wire *)

\* A payload at the end of the wire that is not an event changes nothing.
LEMMA AppendControl ==
    ASSUME NEW q \in Seq(Payloads), NEW m \in Payloads, ~IsEvent(m),
           NEW b \in Nat, NEW k \in Nat
    PROVE  /\ Ascending(q, b, k) => Ascending(Append(q, m), b, k)
           /\ NoGaps(q, b) => NoGaps(Append(q, m), b)
           /\ Complete(q, b, k) => Complete(Append(q, m), b, k)
<1> DEFINE a == Append(q, m)
<1>1. /\ Len(a) = Len(q) + 1 /\ DOMAIN a = 1..(Len(q) + 1) /\ DOMAIN q = 1..Len(q)
      /\ Len(q) \in Nat
      /\ a[Len(q) + 1] = m /\ \A i \in 1..Len(q) : a[i] = q[i]
  BY AppendProperties, LenProperties
<1>2. \A i \in DOMAIN a : IsEvent(a[i]) => i \in DOMAIN q /\ a[i] = q[i]
  BY <1>1
<1>3. ASSUME NEW n, NEW i \in 0..Len(q), Among(q, i, n) PROVE Among(a, i, n)
  BY <1>1, <1>3 DEF Among
<1>4. Ascending(q, b, k) => Ascending(a, b, k)
  BY <1>2 DEF Ascending
<1>5. NoGaps(q, b) => NoGaps(a, b)
  <2> SUFFICES ASSUME NoGaps(q, b), NEW i \in DOMAIN a, IsEvent(a[i]), NEW n \in Nat, b < n, n < a[i].n
               PROVE  Among(a, i - 1, n)
    BY DEF NoGaps
  <2>1. Among(q, i - 1, n)
    BY <1>2 DEF NoGaps
  <2> QED
    BY <1>1, <1>2, <1>3, <2>1
<1>6. Complete(q, b, k) => Complete(a, b, k)
  <2> SUFFICES ASSUME Complete(q, b, k), NEW n \in Nat, b < n, n <= k
               PROVE  Among(a, Len(a), n)
    BY DEF Complete
  <2>1. Among(a, Len(q), n)
    BY <1>1, <1>3 DEF Complete
  <2> QED
    BY <1>1, <2>1 DEF Among
<1> QED
  BY <1>4, <1>5, <1>6

\* The next event joins a wire that holds all that were sent before it.
LEMMA AppendEvent ==
    ASSUME NEW q \in Seq(Payloads), NEW m \in Payloads, IsEvent(m),
           NEW b \in Nat, NEW k \in Nat, b <= k, m.n = k + 1, Ascending(q, b, k)
    PROVE  /\ Ascending(Append(q, m), b, k + 1)
           /\ Complete(q, b, k) => Complete(Append(q, m), b, k + 1)
           /\ Complete(q, b, k) /\ NoGaps(q, b) => NoGaps(Append(q, m), b)
<1> DEFINE a == Append(q, m)
<1>1. /\ Len(a) = Len(q) + 1 /\ DOMAIN a = 1..(Len(q) + 1) /\ DOMAIN q = 1..Len(q)
      /\ Len(q) \in Nat
      /\ a[Len(q) + 1] = m /\ \A i \in 1..Len(q) : a[i] = q[i] /\ q[i] \in Payloads
  BY AppendProperties, LenProperties, ElementOfSeq
<1>2. ASSUME NEW n, NEW i \in 0..Len(q), Among(q, i, n) PROVE Among(a, i, n)
  BY <1>1, <1>2 DEF Among
<1>3. \A i \in DOMAIN q : IsEvent(q[i]) => q[i].n \in Nat
  BY <1>1 DEF Payloads, IsEvent
<1>4. Ascending(a, b, k + 1)
  BY <1>1, <1>3 DEF Ascending
<1>5. Complete(q, b, k) => Complete(a, b, k + 1)
  <2> SUFFICES ASSUME Complete(q, b, k), NEW n \in Nat, b < n, n <= k + 1
               PROVE  Among(a, Len(a), n)
    BY DEF Complete
  <2>1. CASE n = k + 1
    BY <1>1, <2>1 DEF Among
  <2>2. CASE n <= k
    <3>1. Among(a, Len(q), n)
      BY <1>1, <1>2, <2>2 DEF Complete
    <3> QED
      BY <1>1, <3>1 DEF Among
  <2> QED
    BY <2>1, <2>2
<1>6. Complete(q, b, k) /\ NoGaps(q, b) => NoGaps(a, b)
  <2> SUFFICES ASSUME Complete(q, b, k), NoGaps(q, b),
                      NEW i \in DOMAIN a, IsEvent(a[i]), NEW n \in Nat, b < n, n < a[i].n
               PROVE  Among(a, i - 1, n)
    BY DEF NoGaps
  <2>1. CASE i = Len(q) + 1
    BY <1>1, <1>2, <2>1 DEF Complete
  <2>2. CASE i \in DOMAIN q
    <3>1. Among(q, i - 1, n)
      BY <1>1, <2>2 DEF NoGaps
    <3> QED
      BY <1>1, <1>2, <2>2, <3>1
  <2> QED
    BY <1>1, <2>1, <2>2
<1> QED
  BY <1>4, <1>5, <1>6

\* What is left when the last payloads do not arrive.
LEMMA CutWire ==
    ASSUME NEW q \in Seq(Payloads), NEW n \in 0..Len(q), NEW b \in Nat, NEW k \in Nat
    PROVE  /\ SubSeq(q, 1, n) \in Seq(Payloads)
           /\ Ascending(q, b, k) => Ascending(SubSeq(q, 1, n), b, k)
           /\ NoGaps(q, b) => NoGaps(SubSeq(q, 1, n), b)
<1> DEFINE a == SubSeq(q, 1, n)
<1>1. /\ a \in Seq(Payloads) /\ Len(a) = n /\ DOMAIN a = 1..n /\ DOMAIN q = 1..Len(q)
      /\ Len(q) \in Nat /\ \A i \in 1..n : a[i] = q[i]
  BY LenProperties, SubSeqProperties
<1>2. Ascending(q, b, k) => Ascending(a, b, k)
  BY <1>1 DEF Ascending
<1>3. NoGaps(q, b) => NoGaps(a, b)
  <2> SUFFICES ASSUME NoGaps(q, b), NEW i \in DOMAIN a, IsEvent(a[i]), NEW m \in Nat, b < m, m < a[i].n
               PROVE  Among(a, i - 1, m)
    BY DEF NoGaps
  <2>1. i \in DOMAIN q /\ a[i] = q[i]
    BY <1>1
  <2>2. Among(q, i - 1, m)
    BY <2>1 DEF NoGaps
  <2> QED
    BY <1>1, <2>1, <2>2 DEF Among
<1> QED
  BY <1>1, <1>2, <1>3

\* The first payload is read: another one changes nothing for those behind it,
\* and an event is the one after b.
LEMMA ReadWire ==
    ASSUME NEW q \in Seq(Payloads), q # <<>>, NEW b \in Nat, NEW k \in Nat
    PROVE  /\ Head(q) \in Payloads /\ Tail(q) \in Seq(Payloads)
           /\ LET c == IF IsEvent(Head(q)) THEN b + 1 ELSE b IN
              /\ Ascending(q, b, k) /\ NoGaps(q, b) =>
                    /\ IsEvent(Head(q)) => Head(q).n = b + 1 /\ b + 1 <= k
                    /\ Ascending(Tail(q), c, k)
                    /\ NoGaps(Tail(q), c)
                    /\ Complete(q, b, k) => Complete(Tail(q), c, k)
<1> DEFINE h == Head(q)
           t == Tail(q)
           c == IF IsEvent(h) THEN b + 1 ELSE b
<1>1. /\ t \in Seq(Payloads) /\ Len(q) \in Nat /\ Len(q) > 0 /\ Len(t) = Len(q) - 1
      /\ DOMAIN q = 1..Len(q) /\ DOMAIN t = 1..(Len(q) - 1)
      /\ h = q[1] /\ \A i \in 1..(Len(q) - 1) : t[i] = q[i + 1]
      /\ \A i \in 1..Len(q) : q[i] \in Payloads
  BY HeadTailProperties, EmptySeq, LenProperties, ElementOfSeq
<1>2. \A i \in 1..Len(q) : IsEvent(q[i]) => q[i].n \in Nat
  BY <1>1 DEF Payloads, IsEvent
<1> SUFFICES ASSUME Ascending(q, b, k), NoGaps(q, b)
             PROVE  /\ IsEvent(h) => h.n = b + 1 /\ b + 1 <= k
                    /\ Ascending(t, c, k) /\ NoGaps(t, c)
                    /\ Complete(q, b, k) => Complete(t, c, k)
  BY <1>1
<1>3. IsEvent(h) => h.n = b + 1 /\ b + 1 <= k
  <2> SUFFICES ASSUME IsEvent(h) PROVE h.n = b + 1 /\ b + 1 <= k
    OBVIOUS
  <2>1. b < h.n /\ h.n <= k /\ h.n \in Nat
    BY <1>1, <1>2 DEF Ascending
  <2>2. b + 1 < h.n => Among(q, 1 - 1, b + 1)
    BY <1>1 DEF NoGaps
  <2>3. ~Among(q, 1 - 1, b + 1)
    BY DEF Among
  <2> QED
    BY <2>1, <2>2, <2>3
\* An event after the next one is on the wire behind the first payload.
<1>4. ASSUME NEW i \in 1..Len(q), NEW n \in Nat, c < n, Among(q, i, n)
      PROVE  Among(t, i - 1, n)
  <2>1. PICK j \in 1..i : IsEvent(q[j]) /\ q[j].n = n
    BY <1>4 DEF Among
  <2>2. j # 1
    BY <1>1, <1>3, <1>4, <2>1
  <2>3. j - 1 \in 1..(i - 1) /\ t[j - 1] = q[j]
    BY <1>1, <2>2
  <2> QED
    BY <2>1, <2>3 DEF Among
<1>5. Ascending(t, c, k)
  <2>1. ASSUME NEW i \in DOMAIN t, IsEvent(t[i]) PROVE c < t[i].n /\ t[i].n <= k
    <3>1. i + 1 \in 1..Len(q) /\ t[i] = q[i + 1]
      BY <1>1
    <3>2. b < q[i + 1].n /\ q[i + 1].n <= k
      BY <1>1, <2>1, <3>1 DEF Ascending
    <3>3. IsEvent(h) => h.n < q[i + 1].n
      BY <1>1, <2>1, <3>1 DEF Ascending
    <3> QED
      BY <1>2, <1>3, <2>1, <3>1, <3>2, <3>3
  <2>2. ASSUME NEW i \in DOMAIN t, NEW j \in DOMAIN t, i < j, IsEvent(t[i]), IsEvent(t[j])
        PROVE  t[i].n < t[j].n
    BY <1>1, <2>2 DEF Ascending
  <2> QED
    BY <2>1, <2>2 DEF Ascending
<1>6. NoGaps(t, c)
  <2> SUFFICES ASSUME NEW i \in DOMAIN t, IsEvent(t[i]), NEW n \in Nat, c < n, n < t[i].n
               PROVE  Among(t, i - 1, n)
    BY DEF NoGaps
  <2>1. i + 1 \in 1..Len(q) /\ i \in 1..Len(q) /\ i \in Nat /\ t[i] = q[i + 1]
    BY <1>1
  <2>2. Among(q, (i + 1) - 1, n)
    BY <1>1, <2>1 DEF NoGaps
  <2> QED
    BY <1>4, <2>1, <2>2
<1>7. Complete(q, b, k) => Complete(t, c, k)
  <2> SUFFICES ASSUME Complete(q, b, k), NEW n \in Nat, c < n, n <= k
               PROVE  Among(t, Len(t), n)
    BY DEF Complete
  <2>1. Among(q, Len(q), n)
    BY DEF Complete
  <2> QED
    BY <1>1, <1>4, <2>1
<1> QED
  BY <1>3, <1>5, <1>6, <1>7

----------------------------------------------------------------------------
(* The invariant *)

LEMMA TypeParts == TypeOK <=> Flags /\ Places /\ Amounts
BY Zenon DEF TypeOK, Flags, Places, Amounts

\* What the wire's conditions are about.
LEMMA Numbers ==
    ASSUME Amounts
    PROVE  /\ base \in Nat /\ sent \in Nat /\ Len(returned) \in Nat /\ s2c \in Seq(Payloads)
           /\ MaxEvents \in Nat /\ MaxRequests \in Nat /\ MaxFaults \in Nat
           /\ Interval \in Nat /\ Interval >= 1
<1>1. Len(returned) \in Nat
  BY LenProperties DEF Amounts
<1> QED
  BY <1>1, NextAssumption DEF Amounts, base

LEMMA InitIInv == Init => IInv
<1> SUFFICES ASSUME Init PROVE IInv
  OBVIOUS
<1>1. s2c = <<>> /\ DOMAIN s2c = {} /\ Len(s2c) = 0 /\ s2c \in Seq(Payloads)
      /\ returned = <<>> /\ Len(returned) = 0 /\ returned \in Seq(1..MaxEvents)
  BY EmptySeq DEF Init
<1>2. Amounts
  BY <1>1, NextAssumption DEF Init, Amounts
<1>3. Flags /\ Places /\ Calls
  BY Zenon DEF Init, Flags, Places, Calls
<1>4. base = 0 /\ sent = 0
  BY <1>1 DEF Init, base
<1>5. Ascending(s2c, 0, 0) /\ NoGaps(s2c, 0)
  BY <1>1 DEF Ascending, NoGaps
<1>6. Complete(s2c, 0, 0)
  BY DEF Complete
<1> QED
  BY <1>2, <1>3, <1>4, <1>5, <1>6 DEF IInv, Wire

\* A step that touches neither what was read nor what is on its way.
wireVars == <<call, msg, returned, sent, s2c, deadline, link>>

LEMMA WireKept == Wire /\ UNCHANGED wireVars => Wire'
BY DEF Wire, base, wireVars

----------------------------------------------------------------------------
(* The caller *)

LEMMA CallerAmounts == IInv /\ (CallNext \/ Cancel \/ Return) => Amounts'
<1> SUFFICES ASSUME IInv, CallNext \/ Cancel \/ Return PROVE Amounts'
  OBVIOUS
<1> USE DEF IInv, Amounts, connVars, netVars, bookVars
<1>1. CASE CallNext
  BY <1>1, Numbers DEF CallNext
<1>2. CASE Cancel
  BY <1>2, Numbers DEF Cancel, Fault
<1>3. CASE Return
  <2>1. returned' \in Seq(1..MaxEvents)
    <3>1. err = "event" => msg \in 1..MaxEvents
      BY <1>3, Numbers DEF Return, Calls
    <3> QED
      BY <1>3, <3>1, AppendProperties DEF Return
  <2> QED
    BY <1>3, <2>1, Numbers DEF Return
<1> QED
  BY <1>1, <1>2, <1>3

LEMMA CallerCalls == IInv /\ (CallNext \/ Cancel \/ Return) => Calls'
BY DEF IInv, Calls, CallNext, Cancel, Return, connVars, netVars, bookVars

\* A call that fails takes the payload it had read with it.
LEMMA CallerWire == IInv /\ (CallNext \/ Cancel \/ Return) => Wire'
<1> SUFFICES ASSUME IInv, CallNext \/ Cancel \/ Return PROVE Wire'
  OBVIOUS
<1>1. CASE CallNext
  BY <1>1 DEF IInv, Wire, Calls, CallNext, netVars, bookVars, base
<1>2. CASE Cancel
  BY <1>2, WireKept DEF IInv, Cancel, connVars, netVars, wireVars
<1>3. CASE Return /\ err = "event"
  <2>1. returned' = Append(returned, msg) /\ msg # 0 /\ msg' = 0 /\ call' # "failed" /\ call # "failed"
        /\ UNCHANGED <<sent, s2c, deadline, link>>
    BY <1>3 DEF IInv, Calls, Return, connVars, netVars
  <2>2. Len(returned') = Len(returned) + 1
    BY <2>1, AppendProperties, Numbers DEF IInv, Amounts
  <2>3. base' = base
    BY <2>1, <2>2 DEF base
  <2> QED
    BY <2>1, <2>3 DEF IInv, Wire
<1>4. CASE Return /\ err # "event"
  <2>1. call' = "failed" /\ base' \in Nat /\ base' <= base /\ UNCHANGED <<sent, s2c>>
    BY <1>4, Numbers DEF IInv, Return, netVars, base
  <2>2. Ascending(s2c, base', sent)
    <3>1. \A i \in DOMAIN s2c : IsEvent(s2c[i]) => s2c[i].n \in Nat
      BY Numbers, ElementOfSeq, LenProperties DEF IInv, Payloads, IsEvent
    <3> QED
      BY <2>1, <3>1, Numbers DEF IInv, Wire, Ascending
  <2> QED
    BY <2>1, <2>2, Numbers DEF IInv, Wire
<1> QED
  BY <1>1, <1>2, <1>3, <1>4

----------------------------------------------------------------------------
(* The heartbeat and time *)

LEMMA HeartbeatAmounts == IInv /\ (Heartbeat \/ Time) => Amounts'
<1> SUFFICES ASSUME IInv, Heartbeat \/ Time PROVE Amounts'
  OBVIOUS
<1> USE DEF IInv, Amounts, connVars, netVars, bookVars
<1>1. CASE HeartbeatWritten
  BY <1>1, Numbers DEF HeartbeatWritten
<1>2. CASE Time
  <2>1. timer' \in 1..Interval
    BY <1>2, Numbers DEF Time
  <2> QED
    BY <1>2, <2>1 DEF Time
<1>3. CASE Heartbeat /\ ~HeartbeatWritten
  BY <1>3 DEF Heartbeat, HeartbeatTick, HeartbeatMissing, HeartbeatRequested,
              HeartbeatAcknowledged, HeartbeatStops, HeartbeatWriteFails
<1> QED
  BY <1>1, <1>2, <1>3

\* Neither touches what was read; the channels lead the reader back to reading.
LEMMA HeartbeatKeeps == IInv /\ (Heartbeat \/ Time) => Calls' /\ UNCHANGED wireVars
<1> SUFFICES ASSUME IInv, Heartbeat \/ Time PROVE Calls' /\ UNCHANGED wireVars
  OBVIOUS
<1> USE DEF IInv, Calls, callVars, connVars, netVars, bookVars, wireVars
<1>1. CASE HeartbeatTick
  BY <1>1 DEF HeartbeatTick
<1>2. CASE HeartbeatMissing
  BY <1>2 DEF HeartbeatMissing, Fails
<1>3. CASE HeartbeatRequested
  BY <1>3 DEF HeartbeatRequested
<1>4. CASE HeartbeatAcknowledged
  BY <1>4 DEF HeartbeatAcknowledged
<1>5. CASE HeartbeatStops
  BY <1>5 DEF HeartbeatStops
<1>6. CASE HeartbeatWritten
  BY <1>6 DEF HeartbeatWritten
<1>7. CASE HeartbeatWriteFails
  BY <1>7 DEF HeartbeatWriteFails, Fails
<1>8. CASE Time
  BY <1>8 DEF Time
<1> QED
  BY <1>1, <1>2, <1>3, <1>4, <1>5, <1>6, <1>7, <1>8 DEF Heartbeat

----------------------------------------------------------------------------
(* The reader *)

LEMMA ReadAmounts == IInv /\ Read => Amounts'
<1> SUFFICES ASSUME IInv, Read PROVE Amounts'
  OBVIOUS
<1> USE DEF IInv, Amounts, connVars, netVars, bookVars
<1>1. CASE ReadMessage
  <2>1. s2c' \in Seq(Payloads) /\ Head(s2c) \in Payloads
    BY <1>1, ReadWire, Numbers DEF ReadMessage
  <2>2. Head(s2c).op = "Event" => Head(s2c).n \in 1..MaxEvents
    BY <2>1 DEF Payloads
  <2> QED
    BY <1>1, <2>1, <2>2 DEF ReadMessage
<1>2. CASE ReadFails
  BY <1>2, Numbers DEF ReadFails, Fault
<1>3. CASE ReadStarts \/ ReadRefused \/ OfferCancelled
  BY <1>3 DEF ReadStarts, ReadRefused, OfferCancelled
<1> QED
  BY <1>1, <1>2, <1>3 DEF Read

\* All but ReadMessage leave what was read alone.
LEMMA ReadKeeps == IInv /\ Read /\ ~ReadMessage => Calls' /\ UNCHANGED wireVars
<1> SUFFICES ASSUME IInv, Read, ~ReadMessage PROVE Calls' /\ UNCHANGED wireVars
  OBVIOUS
<1> USE DEF IInv, Calls, callVars, connVars, netVars, bookVars, wireVars
<1>1. CASE ReadStarts
  BY <1>1 DEF ReadStarts
<1>2. CASE ReadRefused
  BY <1>2 DEF ReadRefused, Fails
<1>3. CASE ReadFails
  BY <1>3 DEF ReadFails, Fails
<1>4. CASE OfferCancelled
  BY <1>4 DEF OfferCancelled, Fails
<1> QED
  BY <1>1, <1>2, <1>3, <1>4 DEF Read

\* What ReadMessage takes from the wire: the event after those returned, or a
\* payload of the heartbeat.
LEMMA MessageRead ==
    ASSUME IInv, ReadMessage
    PROVE  /\ call = "running" /\ msg = 0 /\ rd = "reading" /\ s2c # <<>> /\ s2c' = Tail(s2c)
           /\ base = Len(returned)
           /\ UNCHANGED <<call, returned, sent, deadline, link>>
           /\ \/ IsEvent(Head(s2c)) /\ msg' = base + 1 /\ rd' = "done" /\ base + 1 <= sent
              \/ ~IsEvent(Head(s2c)) /\ msg' = 0 /\ UNCHANGED err
<1>1. msg = 0 /\ call = "running" /\ base = Len(returned)
  BY DEF IInv, Calls, ReadMessage, base
<1>2. IsEvent(Head(s2c)) => Head(s2c).n = base + 1 /\ base + 1 <= sent
  BY <1>1, ReadWire, Numbers DEF IInv, Wire, ReadMessage
<1> QED
  BY <1>1, <1>2 DEF ReadMessage, IsEvent

LEMMA MessageKeeps == IInv /\ ReadMessage => Calls' /\ Wire'
<1> SUFFICES ASSUME IInv, ReadMessage PROVE Calls' /\ Wire'
  OBVIOUS
<1>1. Calls'
  <2>1. hb' = hb
    BY DEF ReadMessage
  <2>2. call' = "running" /\ (msg' # 0 => rd' = "done" /\ msg' = Len(returned') + 1)
    BY MessageRead
  <2>3. err' = "event" => msg' # 0
    BY MessageRead, Numbers DEF IInv, Calls
  <2> QED
    BY <2>2, <2>3 DEF Calls
<1>2. base' = IF IsEvent(Head(s2c)) THEN base + 1 ELSE base
  BY MessageRead, Numbers DEF base, IInv
<1>3. Wire'
  <2>1. base' <= sent
    BY <1>2, MessageRead DEF IInv, Wire
  <2>2. /\ Ascending(s2c', base', sent) /\ NoGaps(s2c', base')
        /\ Complete(s2c, base, sent) => Complete(s2c', base', sent)
    BY <1>2, MessageRead, ReadWire, Numbers DEF IInv, Wire
  <2> QED
    BY <2>1, <2>2, MessageRead DEF IInv, Wire
<1> QED
  BY <1>1, <1>3

----------------------------------------------------------------------------
(* The watchers and the network *)

\* The read deadline, or a broken link, cuts the wire and fills it no more.
LEMMA CutKeeps ==
    ASSUME IInv, NEW n \in 0..Len(s2c), s2c' = SubSeq(s2c, 1, n),
           deadline' = TRUE \/ link' # "up",
           UNCHANGED <<call, msg, returned, sent>>
    PROVE  s2c' \in Seq(Payloads) /\ Wire'
<1>1. base' = base /\ base \in Nat /\ sent \in Nat /\ s2c \in Seq(Payloads)
  BY Numbers DEF base, IInv
<1> QED
  BY <1>1, CutWire DEF IInv, Wire

LEMMA WatcherKeeps == IInv /\ Watcher => Amounts' /\ Calls' /\ Wire'
<1> SUFFICES ASSUME IInv, Watcher PROVE Amounts' /\ Calls' /\ Wire'
  OBVIOUS
<1>1. /\ UNCHANGED <<callVars, hb, rd, msg, pendingAck, tick, timer, link, beats, sent, asked,
                     bookVars>>
      /\ linger' \in {linger, "none"}
      /\ UNCHANGED <<deadline, s2c>> \/ DeadlinePasses
  BY DEF Watcher, WatcherFires, LateWatcher
<1>2. s2c' \in Seq(Payloads) /\ Wire'
  <2>1. CASE UNCHANGED <<deadline, s2c>>
    BY <1>1, <2>1, WireKept DEF IInv, Amounts, callVars, bookVars, wireVars
  <2>2. CASE DeadlinePasses
    BY <1>1, <2>2, CutKeeps DEF DeadlinePasses, callVars, bookVars
  <2> QED
    BY <1>1, <2>1, <2>2
<1>3. Amounts'
  BY <1>1, <1>2 DEF IInv, Amounts, bookVars
<1>4. Calls'
  BY <1>1 DEF IInv, Calls, callVars, bookVars
<1> QED
  BY <1>2, <1>3, <1>4

LEMMA SendEventKeeps == IInv /\ SendEvent => Amounts' /\ Calls' /\ Wire'
<1> SUFFICES ASSUME IInv, SendEvent PROVE Amounts' /\ Calls' /\ Wire'
  OBVIOUS
<1> DEFINE e == [op |-> "Event", n |-> sent + 1]
<1>1. /\ sent' = sent + 1 /\ sent' \in 0..MaxEvents /\ link = "up" /\ Arrives(e)
      /\ UNCHANGED <<callVars, hb, rd, msg, connVars, link, beats, asked, bookVars>>
  BY Numbers DEF SendEvent, IInv, Amounts
<1>2. e \in Payloads /\ IsEvent(e) /\ e.n = sent + 1
  BY <1>1, Numbers DEF Payloads, IsEvent, IInv
<1>3. s2c' \in Seq(Payloads)
  BY <1>1, <1>2, AppendProperties, Numbers DEF Arrives, IInv
<1>4. Amounts'
  BY <1>1, <1>3 DEF IInv, Amounts, connVars, bookVars
<1>5. Calls'
  BY <1>1 DEF IInv, Calls, callVars, connVars, bookVars
<1>6. base' = base /\ base \in Nat /\ sent \in Nat /\ s2c \in Seq(Payloads)
      /\ UNCHANGED <<call, deadline, link>> /\ base <= sent /\ Ascending(s2c, base, sent)
  BY <1>1, Numbers DEF base, IInv, Wire, callVars, connVars, bookVars
<1>7. Wire'
  <2>1. CASE deadline
    <3>1. s2c' = s2c
      BY <1>1, <2>1 DEF Arrives
    <3>2. \A i \in DOMAIN s2c : IsEvent(s2c[i]) => s2c[i].n \in Nat
      BY <1>6, ElementOfSeq, LenProperties DEF Payloads, IsEvent
    <3>3. Ascending(s2c, base, sent + 1)
      BY <1>6, <3>2 DEF Ascending
    <3> QED
      BY <1>1, <1>6, <2>1, <3>1, <3>3 DEF IInv, Wire
  <2>2. CASE ~deadline
    <3>1. s2c' = Append(s2c, e)
      BY <1>1, <2>2 DEF Arrives
    <3>2. /\ Ascending(s2c', base, sent + 1)
          /\ Complete(s2c, base, sent) => Complete(s2c', base, sent + 1)
          /\ Complete(s2c, base, sent) /\ NoGaps(s2c, base) => NoGaps(s2c', base)
      BY <1>2, <1>6, <3>1, AppendEvent
    <3>3. call # "failed" => Complete(s2c, base, sent) /\ NoGaps(s2c, base)
      BY <1>1, <2>2 DEF IInv, Wire
    <3> QED
      BY <1>1, <1>6, <3>2, <3>3 DEF Wire
  <2> QED
    BY <2>1, <2>2
<1> QED
  BY <1>4, <1>5, <1>7

\* A payload of the heartbeat on its way.
LEMMA ControlKeeps == IInv /\ (AskHeartbeat \/ Acknowledge) => Amounts' /\ Calls' /\ Wire'
<1> SUFFICES ASSUME IInv, AskHeartbeat \/ Acknowledge PROVE Amounts' /\ Calls' /\ Wire'
  OBVIOUS
<1>1. PICK m \in {[op |-> "Heartbeat"], [op |-> "HeartbeatACK"]} : Arrives(m)
  BY DEF AskHeartbeat, Acknowledge
<1>a. UNCHANGED <<callVars, hb, rd, msg, connVars, link, sent, bookVars>>
  BY Zenon DEF AskHeartbeat, Acknowledge
<1>b. \/ asked < MaxRequests /\ asked' = asked + 1 /\ beats' = beats
      \/ beats > 0 /\ beats' = beats - 1 /\ asked' = asked
  BY Zenon DEF AskHeartbeat, Acknowledge
<1>c. asked \in 0..MaxRequests /\ beats \in Nat /\ MaxRequests \in Nat
  BY Numbers DEF IInv, Amounts
<1>2. /\ asked' \in 0..MaxRequests /\ beats' \in Nat
      /\ UNCHANGED <<callVars, hb, rd, msg, connVars, link, sent, bookVars>>
  BY <1>a, <1>b, <1>c
<1>3. m \in Payloads /\ ~IsEvent(m)
  BY <1>1 DEF Payloads, IsEvent
<1>4. s2c' \in Seq(Payloads)
  BY <1>1, <1>3, AppendProperties, Numbers DEF Arrives, IInv
<1>5. Amounts'
  BY <1>2, <1>4 DEF IInv, Amounts, connVars, bookVars
<1>6. Calls'
  BY <1>2 DEF IInv, Calls, callVars, connVars, bookVars
<1>7. base' = base /\ base \in Nat /\ sent \in Nat /\ s2c \in Seq(Payloads)
      /\ UNCHANGED <<call, deadline, link, sent>>
  BY <1>2, Numbers DEF base, IInv, callVars, connVars, bookVars
<1>8. /\ Ascending(s2c, base, sent) => Ascending(s2c', base, sent)
      /\ NoGaps(s2c, base) => NoGaps(s2c', base)
      /\ Complete(s2c, base, sent) => Complete(s2c', base, sent)
  BY <1>1, <1>3, <1>7, AppendControl DEF Arrives
<1>9. Wire'
  BY <1>7, <1>8 DEF IInv, Wire
<1> QED
  BY <1>5, <1>6, <1>9

LEMMA BreakKeeps == IInv /\ Break => Amounts' /\ Calls' /\ Wire'
<1> SUFFICES ASSUME IInv, Break PROVE Amounts' /\ Calls' /\ Wire'
  OBVIOUS
<1>1. PICK n \in 0..Len(s2c) : s2c' = SubSeq(s2c, 1, n)
  BY DEF Break
<1>2. /\ link' \in {"mute", "down"} /\ beats' = 0 /\ faults' \in 0..MaxFaults
      /\ UNCHANGED <<callVars, hb, rd, msg, connVars, sent, asked, returned, fresh>>
  BY Numbers DEF Break, Fault, IInv, Amounts
<1>3. s2c' \in Seq(Payloads) /\ Wire'
  BY <1>1, <1>2, CutKeeps DEF callVars
<1>4. Amounts'
  BY <1>2, <1>3 DEF IInv, Amounts, connVars
<1>5. Calls'
  BY <1>2 DEF IInv, Calls, callVars, connVars
<1> QED
  BY <1>3, <1>4, <1>5

----------------------------------------------------------------------------
(* The invariant holds *)

\* Where a flag or a place is assigned it gets one of its values.
LEMMA NextFlags == Flags /\ Places /\ [Next]_vars => Flags' /\ Places'
<1> SUFFICES ASSUME Flags, Places, [Next]_vars PROVE Flags' /\ Places'
  OBVIOUS
<1> USE DEF Flags, Places, callVars, connVars, netVars, bookVars
<1>1. CASE CallNext \/ Cancel \/ Return
  BY <1>1, Zenon DEF CallNext, Return, Cancel, Fault
<1>2. CASE Heartbeat
  BY <1>2, Zenon DEF Heartbeat, HeartbeatTick, HeartbeatMissing, HeartbeatRequested,
       HeartbeatAcknowledged, HeartbeatStops, HeartbeatWritten, HeartbeatWriteFails, Fails
<1>3. CASE Time
  <2>1. Flags'
    BY <1>3, Zenon DEF Time
  <2>2. Places'
    BY <1>3, Zenon DEF Time
  <2> QED
    BY <2>1, <2>2
<1>4. CASE Read
  BY <1>4, ZenonT(30) DEF Read, ReadStarts, ReadRefused, ReadMessage, ReadFails, OfferCancelled, Fails
<1>5. CASE Watcher
  BY <1>5, Zenon DEF Watcher, WatcherFires, LateWatcher, DeadlinePasses
<1>6. CASE Service
  BY <1>6, Zenon DEF Service, SendEvent, AskHeartbeat, Acknowledge, Break
<1>7. CASE UNCHANGED vars
  <2>1. Flags'
    BY <1>7, Zenon DEF vars
  <2>2. Places'
    BY <1>7, Zenon DEF vars
  <2> QED
    BY <2>1, <2>2
<1> QED
  BY <1>1, <1>2, <1>3, <1>4, <1>5, <1>6, <1>7 DEF Next

LEMMA NextIInv == IInv /\ [Next]_vars => IInv'
<1> SUFFICES ASSUME IInv, [Next]_vars PROVE Amounts' /\ Calls' /\ Wire'
  BY NextFlags DEF IInv
<1>1. CASE CallNext \/ Cancel \/ Return
  BY <1>1, CallerAmounts, CallerCalls, CallerWire
<1>2. CASE Heartbeat \/ Time
  BY <1>2, HeartbeatAmounts, HeartbeatKeeps, WireKept DEF IInv
<1>3. CASE Read /\ ~ReadMessage
  BY <1>3, ReadAmounts, ReadKeeps, WireKept DEF IInv
<1>4. CASE ReadMessage
  BY <1>4, ReadAmounts, MessageKeeps DEF Read
<1>5. CASE Watcher
  BY <1>5, WatcherKeeps
<1>6. CASE Service
  BY <1>6, SendEventKeeps, ControlKeeps, BreakKeeps DEF Service
<1>7. CASE UNCHANGED vars
  <2>1. Amounts' /\ Calls' /\ UNCHANGED wireVars
    BY <1>7 DEF vars, callVars, connVars, netVars, bookVars, wireVars, IInv, Amounts, Calls
  <2> QED
    BY <2>1, WireKept DEF IInv
<1> QED
  BY <1>1, <1>2, <1>3, <1>4, <1>5, <1>6, <1>7 DEF Next

LEMMA IInvAlways == Spec => []IInv
BY InitIInv, NextIInv, PTL DEF Spec

\* Type correctness of next, its goroutines and watchers (gateway.go:222-289).
THEOREM NextTypeCorrect == Spec => []TypeOK
<1>1. IInv => TypeOK
  BY TypeParts DEF IInv
<1> QED
  BY <1>1, IInvAlways, PTL

----------------------------------------------------------------------------
(* GatewayNext implements PayloadStream *)

\* The event n is in q.
Holds(q, n) == \E i \in DOMAIN q : IsEvent(q[i]) /\ q[i].n = n

LEMMA ComingHolds ==
    /\ coming = {n \in 1..sent : n = msg \/ Holds(s2c, n)}
    /\ coming' = {n \in 1..sent' : n = msg' \/ Holds(s2c', n)}
BY DEF coming, Holds

LEMMA HoldsAppend ==
    ASSUME NEW q \in Seq(Payloads), NEW m \in Payloads, NEW n
    PROVE  Holds(Append(q, m), n) <=> Holds(q, n) \/ (IsEvent(m) /\ m.n = n)
<1> DEFINE a == Append(q, m)
<1>1. /\ Len(q) \in Nat /\ DOMAIN a = 1..(Len(q) + 1) /\ DOMAIN q = 1..Len(q)
      /\ a[Len(q) + 1] = m /\ \A i \in 1..Len(q) : a[i] = q[i]
  BY AppendProperties, LenProperties
<1>2. Holds(a, n) => Holds(q, n) \/ (IsEvent(m) /\ m.n = n)
  BY <1>1 DEF Holds
<1>3. Holds(q, n) => Holds(a, n)
  BY <1>1 DEF Holds
<1>4. IsEvent(m) /\ m.n = n => Holds(a, n)
  BY <1>1 DEF Holds
<1> QED
  BY <1>2, <1>3, <1>4

LEMMA HoldsTail ==
    ASSUME NEW q \in Seq(Payloads), q # <<>>, NEW n
    PROVE  Holds(q, n) <=> Holds(Tail(q), n) \/ (IsEvent(Head(q)) /\ Head(q).n = n)
<1> DEFINE t == Tail(q)
<1>1. /\ Len(q) \in Nat /\ Len(q) > 0 /\ DOMAIN q = 1..Len(q) /\ DOMAIN t = 1..(Len(q) - 1)
      /\ Head(q) = q[1] /\ \A i \in 1..(Len(q) - 1) : t[i] = q[i + 1]
  BY HeadTailProperties, EmptySeq, LenProperties
<1>2. Holds(q, n) => Holds(t, n) \/ (IsEvent(Head(q)) /\ Head(q).n = n)
  <2> SUFFICES ASSUME NEW i \in 1..Len(q), IsEvent(q[i]), q[i].n = n, i # 1 PROVE Holds(t, n)
    BY <1>1 DEF Holds
  <2>1. i - 1 \in DOMAIN t /\ t[i - 1] = q[i]
    BY <1>1
  <2> QED
    BY <2>1 DEF Holds
<1>3. Holds(t, n) => Holds(q, n)
  <2> SUFFICES ASSUME NEW i \in DOMAIN t, IsEvent(t[i]), t[i].n = n PROVE Holds(q, n)
    BY DEF Holds
  <2>1. i + 1 \in DOMAIN q /\ t[i] = q[i + 1]
    BY <1>1
  <2> QED
    BY <2>1 DEF Holds
<1>4. IsEvent(Head(q)) /\ Head(q).n = n => Holds(q, n)
  BY <1>1 DEF Holds
<1> QED
  BY <1>2, <1>3, <1>4

LEMMA InitMaps == Init => Stream!Init
<1> SUFFICES ASSUME Init PROVE Stream!Init
  OBVIOUS
<1>1. coming = {}
  BY DEF coming, Init
<1> QED
  BY <1>1 DEF Init, Stream!Init

\* A step that reads, sends and loses nothing is a stutter.
LEMMA KeptMaps == UNCHANGED wireVars => UNCHANGED Stream!vars
BY DEF wireVars, coming, Stream!vars

LEMMA CallMaps == IInv /\ CallNext => Stream!Call
BY DEF IInv, Calls, CallNext, netVars, bookVars, coming, Stream!Call

\* The payload read is the upcoming one and no longer on the wire.
LEMMA MsgNext ==
    ASSUME IInv, msg # 0
    PROVE  /\ Stream!upcoming = msg /\ msg \in coming
           /\ \A n : Holds(s2c, n) => n # msg
<1>1. msg = Len(returned) + 1 /\ base = msg /\ msg <= sent /\ msg \in Nat /\ sent \in Nat
  BY Numbers DEF IInv, Calls, Wire, base
<1>2. ASSUME NEW i \in DOMAIN s2c, IsEvent(s2c[i]) PROVE s2c[i].n # msg
  <2>1. msg < s2c[i].n
    BY <1>1, <1>2 DEF IInv, Wire, Ascending
  <2> QED
    BY <1>1, <2>1
<1> QED
  BY <1>1, <1>2 DEF Holds, coming, Stream!upcoming

\* A call that had an error before the payload, or none, takes it away.
LEMMA ReturnMaps == IInv /\ Return => Stream!Return \/ Stream!Fail
<1> SUFFICES ASSUME IInv, Return PROVE Stream!Return \/ Stream!Fail
  OBVIOUS
<1>1. call = "running" /\ msg' = 0 /\ UNCHANGED <<sent, s2c>> /\ sent \in Nat
  BY Numbers DEF Return, netVars, IInv
<1>2. coming' = {n \in 1..sent : Holds(s2c, n)}
  BY <1>1, ComingHolds
<1>3. CASE msg # 0
  <2>1. coming' = coming \ {Stream!upcoming} /\ Stream!upcoming \in coming /\ Stream!upcoming = msg
    BY <1>2, <1>3, ComingHolds, MsgNext
  <2> QED
    BY <1>1, <2>1 DEF Return, Stream!Return, Stream!Fail
<1>4. CASE msg = 0
  <2>1. err # "event"
    BY <1>1, <1>4 DEF IInv, Calls
  <2>2. UNCHANGED coming
    BY <1>1, <1>2, <1>4, ComingHolds
  <2> QED
    BY <1>1, <2>1, <2>2 DEF Return, Stream!Fail
<1> QED
  BY <1>3, <1>4

\* The event read was on the wire and is in the reader's hands.
LEMMA MessageMaps == IInv /\ ReadMessage => UNCHANGED Stream!vars
<1> SUFFICES ASSUME IInv, ReadMessage PROVE UNCHANGED Stream!vars
  OBVIOUS
<1>1. s2c \in Seq(Payloads) /\ s2c # <<>> /\ s2c' = Tail(s2c) /\ msg = 0 /\ sent' = sent
      /\ UNCHANGED <<call, returned>> /\ sent \in Nat
  BY MessageRead, Numbers DEF IInv
<1>2. \/ IsEvent(Head(s2c)) /\ msg' = Head(s2c).n
      \/ ~IsEvent(Head(s2c)) /\ msg' = 0
  BY <1>1 DEF ReadMessage, IsEvent
<1>3. \A n : Holds(s2c, n) <=> Holds(s2c', n) \/ (IsEvent(Head(s2c)) /\ Head(s2c).n = n)
  BY <1>1, HoldsTail
<1>4. \A n \in 1..sent : (n = msg \/ Holds(s2c, n)) <=> (n = msg' \/ Holds(s2c', n))
  BY <1>1, <1>2, <1>3
<1>5. coming' = {n \in 1..sent : n = msg' \/ Holds(s2c', n)}
  BY <1>1, ComingHolds
<1>6. UNCHANGED coming
  BY <1>4, <1>5, ComingHolds
<1> QED
  BY <1>1, <1>6 DEF Stream!vars

\* What is cut off are the last events: the one read, and those before the
\* cut, have lower numbers.
LEMMA CutMaps ==
    ASSUME IInv, NEW k \in 0..Len(s2c), s2c' = SubSeq(s2c, 1, k),
           UNCHANGED <<call, msg, returned, sent>>
    PROVE  Stream!Lose
<1> DEFINE lost == coming \ coming'
<1>1. /\ Len(s2c) \in Nat /\ DOMAIN s2c = 1..Len(s2c) /\ DOMAIN s2c' = 1..k
      /\ \A i \in 1..k : s2c'[i] = s2c[i]
  BY Numbers, LenProperties, SubSeqProperties DEF IInv
<1>2. coming' \subseteq coming
  <2>1. \A n : Holds(s2c', n) => Holds(s2c, n)
    BY <1>1 DEF Holds
  <2>2. coming' = {n \in 1..sent : n = msg \/ Holds(s2c', n)}
    BY ComingHolds
  <2> QED
    BY <2>1, <2>2, ComingHolds
<1>3. ASSUME NEW m \in coming \ lost, NEW n \in lost PROVE m < n
  <2>1. m \in coming' /\ n \in coming /\ n \notin coming' /\ m \in Nat /\ n \in Nat
    BY <1>2, <1>3, ComingHolds, Numbers DEF IInv
  <2>2. n # msg /\ Holds(s2c, n) /\ ~Holds(s2c', n)
    BY <2>1 DEF coming, Holds
  <2>3. PICK i \in DOMAIN s2c : IsEvent(s2c[i]) /\ s2c[i].n = n
    BY <2>2 DEF Holds
  <2>4. i > k
    <3>1. i \notin 1..k
      BY <1>1, <2>2, <2>3 DEF Holds
    <3> QED
      BY <1>1, <3>1
  <2>5. CASE m = msg
    <3>1. base = msg /\ base < n
      BY <2>1, <2>3, <2>5, ComingHolds, Numbers DEF IInv, Calls, Wire, Ascending, base
    <3> QED
      BY <2>5, <3>1
  <2>6. CASE m # msg
    <3>1. PICK j \in 1..k : IsEvent(s2c[j]) /\ s2c[j].n = m
      BY <1>1, <2>1, <2>6 DEF coming
    <3>2. j \in DOMAIN s2c /\ j < i
      BY <1>1, <2>3, <2>4
    <3> QED
      BY <2>3, <3>1, <3>2 DEF IInv, Wire, Ascending
  <2> QED
    BY <2>5, <2>6
<1> QED
  BY <1>2, <1>3 DEF Stream!Lose

LEMMA SendMaps == IInv /\ SendEvent => Stream!Send
<1> SUFFICES ASSUME IInv, SendEvent PROVE Stream!Send
  OBVIOUS
<1> DEFINE e == [op |-> "Event", n |-> sent + 1]
<1>1. /\ sent' = sent + 1 /\ Arrives(e) /\ UNCHANGED <<call, msg, returned>>
      /\ sent \in Nat /\ s2c \in Seq(Payloads) /\ msg <= sent
  BY Numbers DEF SendEvent, IInv, Calls, Wire, base, callVars, bookVars
<1>2. e \in Payloads /\ IsEvent(e) /\ e.n = sent + 1
  <2>1. sent + 1 \in 1..MaxEvents
    BY Numbers DEF SendEvent, IInv, Amounts
  <2> QED
    BY <2>1 DEF Payloads, IsEvent
<1>3. \A n : Holds(s2c, n) => n # sent + 1
  BY <1>1, Numbers DEF Holds, IInv, Wire, Ascending
<1>4. coming' = {n \in 1..(sent + 1) : n = msg \/ Holds(s2c', n)}
  BY <1>1, ComingHolds
<1>5. CASE s2c' = s2c
  <2>1. UNCHANGED coming
    BY <1>1, <1>3, <1>4, <1>5, ComingHolds
  <2> QED
    BY <1>1, <2>1 DEF Stream!Send
<1>6. CASE s2c' = Append(s2c, e)
  <2>1. \A n : Holds(s2c', n) <=> Holds(s2c, n) \/ n = sent + 1
    BY <1>1, <1>2, <1>6, HoldsAppend
  <2>2. coming' = coming \cup {sent + 1}
    BY <1>1, <1>3, <1>4, <2>1, ComingHolds
  <2> QED
    BY <1>1, <2>2 DEF Stream!Send
<1> QED
  BY <1>1, <1>5, <1>6 DEF Arrives

LEMMA ControlMaps == IInv /\ (AskHeartbeat \/ Acknowledge) => UNCHANGED Stream!vars
<1> SUFFICES ASSUME IInv, AskHeartbeat \/ Acknowledge PROVE UNCHANGED Stream!vars
  OBVIOUS
<1>1. PICK m \in {[op |-> "Heartbeat"], [op |-> "HeartbeatACK"]} : Arrives(m)
  BY DEF AskHeartbeat, Acknowledge
<1>2. m \in Payloads /\ ~IsEvent(m)
  BY <1>1 DEF Payloads, IsEvent
<1>3. \A n : Holds(s2c', n) <=> Holds(s2c, n)
  BY <1>1, <1>2, HoldsAppend, Numbers DEF Arrives, IInv
<1>4. UNCHANGED <<call, msg, returned, sent>>
  BY DEF AskHeartbeat, Acknowledge, callVars, bookVars
<1>5. UNCHANGED coming
  BY <1>3, <1>4, ComingHolds
<1> QED
  BY <1>4, <1>5 DEF Stream!vars

LEMMA StepMaps == IInv /\ [Next]_vars => [Stream!Next]_Stream!vars
<1> SUFFICES ASSUME IInv, [Next]_vars PROVE [Stream!Next]_Stream!vars
  OBVIOUS
<1>1. CASE CallNext \/ Return
  BY <1>1, CallMaps, ReturnMaps DEF Stream!Next
<1>2. CASE Cancel
  BY <1>2, KeptMaps DEF Cancel, connVars, netVars, wireVars
<1>3. CASE Heartbeat \/ Time
  BY <1>3, HeartbeatKeeps, KeptMaps
<1>4. CASE Read /\ ~ReadMessage
  BY <1>4, ReadKeeps, KeptMaps
<1>5. CASE ReadMessage
  BY <1>5, MessageMaps
<1>6. CASE Watcher \/ Break
  <2>1. /\ UNCHANGED <<call, msg, returned, sent>>
        /\ \/ UNCHANGED s2c
           \/ \E k \in 0..Len(s2c) : s2c' = SubSeq(s2c, 1, k)
    BY <1>6 DEF Watcher, WatcherFires, LateWatcher, DeadlinePasses, Break, callVars, bookVars
  <2>2. CASE UNCHANGED s2c
    BY <2>1, <2>2 DEF coming, Stream!vars
  <2>3. CASE \E k \in 0..Len(s2c) : s2c' = SubSeq(s2c, 1, k)
    BY <2>1, <2>3, CutMaps DEF Stream!Next
  <2> QED
    BY <2>1, <2>2, <2>3
<1>7. CASE SendEvent
  BY <1>7, SendMaps DEF Stream!Next
<1>8. CASE AskHeartbeat \/ Acknowledge
  BY <1>8, ControlMaps
<1>9. CASE UNCHANGED vars
  BY <1>9, KeptMaps DEF vars, callVars, connVars, netVars, bookVars, wireVars
<1> QED
  BY <1>1, <1>2, <1>3, <1>4, <1>5, <1>6, <1>7, <1>8, <1>9 DEF Next, Service

\* GatewayNext implements PayloadStream: the calls hand over every payload, in
\* the order in which they were sent, each once, until one fails
\* (gateway.go:257-288).
THEOREM ImplementsPayloadStream == Spec => PayloadStreamSpec
BY InitMaps, IInvAlways, StepMaps, PTL DEF Spec, PayloadStreamSpec, Stream!Spec

----------------------------------------------------------------------------
(* No healthy connection is given up *)

\* HealthyKept needs to know that whatever takes an acknowledgement off the
\* wire clears the flag or ends the call, and so the connection, with an error:
\* a reader that cannot hand one over is not followed by another call.
Owed ==
    /\ call = "out" => err \in {"none", "event"}
    /\ pendingAck /\ call # "failed" /\ err \in {"none", "event"} /\ link = "up" /\ ~deadline
          => Unacknowledged

LEMMA InitOwed == Init => Owed
BY DEF Init, Owed

\* The first error of a group is kept.
LEMMA FirstError == ASSUME NEW e, Fails(e) PROVE err' = err \/ (err = "none" /\ err' = e)
BY DEF Fails

LEMMA CallerOwed == IInv /\ Owed /\ (CallNext \/ Cancel \/ Return) => Owed'
BY DEF IInv, Calls, Owed, Unacknowledged, CallNext, Cancel, Return, connVars, netVars, bookVars

LEMMA HeartbeatOwed == IInv /\ Owed /\ (Heartbeat \/ Time) => Owed'
<1> SUFFICES ASSUME IInv, Owed, Heartbeat \/ Time PROVE Owed'
  OBVIOUS
<1> USE DEF Owed, Unacknowledged, callVars, connVars, netVars, bookVars
<1>1. CASE HeartbeatTick \/ HeartbeatStops \/ HeartbeatRequested \/ HeartbeatAcknowledged \/ Time
  BY <1>1 DEF HeartbeatTick, HeartbeatStops, HeartbeatRequested, HeartbeatAcknowledged, Time
<1>2. CASE HeartbeatWritten
  BY <1>2, Numbers DEF HeartbeatWritten, IInv, Amounts
<1>3. CASE HeartbeatMissing \/ HeartbeatWriteFails
  <2>1. call = "running"
    BY <1>3 DEF HeartbeatMissing, HeartbeatWriteFails, IInv, Calls
  <2>2. err' = err \/ err' \in {"no heartbeat", "write"}
    BY <1>3, FirstError DEF HeartbeatMissing, HeartbeatWriteFails
  <2>3. UNCHANGED <<call, rd, pendingAck, link, deadline, s2c, beats>>
    BY <1>3 DEF HeartbeatMissing, HeartbeatWriteFails
  <2> QED
    BY <2>1, <2>2, <2>3
<1> QED
  BY <1>1, <1>2, <1>3 DEF Heartbeat

LEMMA ReadOwed == IInv /\ Owed /\ Read => Owed'
<1> SUFFICES ASSUME IInv, Owed, Read PROVE Owed'
  OBVIOUS
<1>1. call = "running" /\ call' = "running" /\ UNCHANGED <<pendingAck, link, deadline, beats>>
  BY DEF Read, ReadStarts, ReadRefused, ReadMessage, ReadFails, OfferCancelled, IInv, Calls,
         callVars, connVars, netVars
<1>2. CASE ReadStarts
  BY <1>1, <1>2 DEF ReadStarts, Owed, Unacknowledged, callVars, netVars
<1>3. CASE ReadRefused \/ ReadFails \/ OfferCancelled
  <2>1. rd # "done" /\ UNCHANGED s2c
    BY <1>3 DEF ReadRefused, ReadFails, OfferCancelled, netVars
  <2>2. err # "event"
    BY <1>1, <2>1 DEF IInv, Calls
  <2>3. err' = err \/ err' = "read"
    BY <1>3, FirstError DEF ReadRefused, ReadFails, OfferCancelled
  <2>4. err' # "none"
    BY <1>3 DEF ReadRefused, ReadFails, OfferCancelled, Fails
  <2> QED
    BY <1>1, <2>2, <2>3, <2>4 DEF Owed
<1>4. CASE ReadMessage
  <2>1. /\ s2c \in Seq(Payloads) /\ s2c # <<>> /\ s2c' = Tail(s2c) /\ rd = "reading"
        /\ Head(s2c).op = "HeartbeatACK" => rd' = "ack"
        /\ err' = err \/ (err = "none" /\ err' = "event")
    BY <1>4, FirstError, Numbers DEF ReadMessage, IInv
  <2>2. /\ Len(s2c) \in Nat /\ Len(s2c) > 0 /\ DOMAIN s2c = 1..Len(s2c)
        /\ DOMAIN s2c' = 1..(Len(s2c) - 1)
        /\ Head(s2c) = s2c[1] /\ \A i \in 1..(Len(s2c) - 1) : s2c'[i] = s2c[i + 1]
    BY <2>1, HeadTailProperties, EmptySeq, LenProperties
  <2>3. ASSUME NEW i \in DOMAIN s2c, s2c[i].op = "HeartbeatACK"
        PROVE  rd' = "ack" \/ \E j \in DOMAIN s2c' : s2c'[j].op = "HeartbeatACK"
    <3>1. CASE i = 1
      BY <2>1, <2>2, <2>3, <3>1
    <3>2. CASE i # 1
      <4>1. i - 1 \in DOMAIN s2c' /\ s2c'[i - 1] = s2c[i]
        BY <2>2, <3>2
      <4> QED
        BY <2>3, <4>1
    <3> QED
      BY <3>1, <3>2
  <2>4. Unacknowledged => Unacknowledged'
    BY <1>1, <2>1, <2>3 DEF Unacknowledged
  <2> QED
    BY <1>1, <2>1, <2>4 DEF Owed
<1> QED
  BY <1>2, <1>3, <1>4 DEF Read

LEMMA WatcherOwed == Owed /\ Watcher => Owed'
BY DEF Owed, Unacknowledged, Watcher, WatcherFires, LateWatcher, DeadlinePasses, callVars, bookVars

\* What arrives leaves what is on its way where it is.
LEMMA ServiceOwed == IInv /\ Owed /\ Service => Owed'
<1> SUFFICES ASSUME IInv, Owed, Service PROVE Owed'
  OBVIOUS
<1>1. CASE Break
  BY <1>1 DEF Break, Owed, callVars, connVars
<1>2. ASSUME NEW m \in Payloads, Arrives(m), ~deadline
      PROVE  /\ \A i \in DOMAIN s2c : i \in DOMAIN s2c' /\ s2c'[i] = s2c[i]
             /\ \E i \in DOMAIN s2c' : s2c'[i] = m
  <2>1. s2c' = Append(s2c, m) /\ s2c \in Seq(Payloads)
    BY <1>2, Numbers DEF Arrives, IInv
  <2>2. /\ DOMAIN s2c = 1..Len(s2c) /\ DOMAIN s2c' = 1..(Len(s2c) + 1) /\ Len(s2c) \in Nat
        /\ s2c'[Len(s2c) + 1] = m /\ \A i \in 1..Len(s2c) : s2c'[i] = s2c[i]
    BY <2>1, AppendProperties, LenProperties
  <2> QED
    BY <2>2
<1>3. CASE SendEvent \/ AskHeartbeat
  <2>1. PICK m \in Payloads : Arrives(m)
    <3>1. sent + 1 \in 1..MaxEvents \/ AskHeartbeat
      BY <1>3, Numbers DEF SendEvent, IInv, Amounts
    <3> QED
      BY <1>3, <3>1 DEF SendEvent, AskHeartbeat, Payloads
  <2>2. UNCHANGED <<call, err, rd, pendingAck, link, deadline, beats>>
    BY <1>3 DEF SendEvent, AskHeartbeat, callVars, connVars
  <2>3. ~deadline /\ Unacknowledged => Unacknowledged'
    BY <1>2, <2>1, <2>2 DEF Unacknowledged
  <2> QED
    BY <2>2, <2>3 DEF Owed
<1>4. CASE Acknowledge
  <2> DEFINE m == [op |-> "HeartbeatACK"]
  <2>1. Arrives(m) /\ m \in Payloads /\ m.op = "HeartbeatACK"
    BY <1>4 DEF Acknowledge, Payloads
  <2>2. UNCHANGED <<call, err, rd, pendingAck, link, deadline>>
    BY <1>4 DEF Acknowledge, callVars, connVars
  <2> HIDE DEF m
  <2>3. ~deadline => Unacknowledged'
    BY <1>2, <2>1 DEF Unacknowledged
  <2> QED
    BY <2>2, <2>3 DEF Owed
<1> QED
  BY <1>1, <1>3, <1>4 DEF Service

LEMMA NextOwed == IInv /\ Owed /\ [Next]_vars => Owed'
<1> SUFFICES ASSUME IInv, Owed, [Next]_vars PROVE Owed'
  OBVIOUS
<1>1. CASE UNCHANGED vars
  BY <1>1 DEF vars, callVars, connVars, netVars, Owed, Unacknowledged
<1> QED
  BY <1>1, CallerOwed, HeartbeatOwed, ReadOwed, WatcherOwed, ServiceOwed DEF Next

LEMMA OwedAlways == Spec => []Owed
BY InitOwed, NextOwed, IInvAlways, PTL DEF Spec

\* No healthy connection is given up for a heartbeat that was acknowledged,
\* over any number of calls, requests, ticks and faults (gateway.go:233-256).
THEOREM HealthyConnectionsKept == Spec => HealthyKept
<1>1. IInv /\ Owed /\ [Next]_vars
          => [HeartbeatMissing /\ err = "none" => deadline \/ link # "up" \/ Unacknowledged]_vars
  <2> SUFFICES ASSUME IInv, Owed, HeartbeatMissing, err = "none"
               PROVE  deadline \/ link # "up" \/ Unacknowledged
    OBVIOUS
  <2>1. call = "running" /\ pendingAck
    BY DEF HeartbeatMissing, IInv, Calls
  <2> QED
    BY <2>1 DEF Owed
<1> QED
  BY <1>1, IInvAlways, OwedAlways, PTL DEF Spec, HealthyKept
==============================================================================
