-------------------------- MODULE RestClientProofs --------------------------
(***************************************************************************)
(* Theorems about RestClient, for any number of concurrent calls, routes,  *)
(* buckets and any limits of the service.                                  *)
(***************************************************************************)
EXTENDS RestClient, TLAPS

(***************************************************************************)
(* What a call's place in do says of what the service did for it.  A call  *)
(* may go round the loop again only when its answer was 429, and the       *)
(* service answers 429 to what it has not acted on.                        *)
(***************************************************************************)
Before == {"idle", "loop", "gate", "sleep", "send", "flight"}

ActedOn(c) ==
    /\ executed[c] <= 1
    /\ pc[c] \in Before => executed[c] = 0
    /\ pc[c] = "answered" => executed[c] = (IF answer[c].status = "429" THEN 0 ELSE 1)
    /\ pc[c] = "done" => executed[c] = 1

Acted == \A c \in Calls : ActedOn(c)

\* An answer stays an answer, with the same status, when headers are missing.
LEMMA ReplyStatus ==
    ASSUME NEW c \in Calls, NEW a \in Answers, TypeOK, Reply(c, a)
    PROVE  /\ answer' \in [Calls -> Answers]
           /\ answer'[c].status = a.status
           /\ \A d \in Calls \ {c} : answer'[d] = answer[d]
           /\ pc' = [pc EXCEPT ![c] = "answered"]
<1>1. CASE answer' = [answer EXCEPT ![c] = a]
  BY <1>1 DEF TypeOK, Reply, Goto
<1>2. CASE \E h \in {"bucket", "remaining", "resetAfter", "retryAfter"} :
              answer' = [answer EXCEPT ![c] =
                  [a EXCEPT ![h] = IF h = "bucket" THEN NoBucket ELSE NoValue]]
  <2>1. PICK h \in {"bucket", "remaining", "resetAfter", "retryAfter"} :
              answer' = [answer EXCEPT ![c] =
                  [a EXCEPT ![h] = IF h = "bucket" THEN NoBucket ELSE NoValue]]
    BY <1>2
  <2> DEFINE b == [a EXCEPT ![h] = IF h = "bucket" THEN NoBucket ELSE NoValue]
  <2>2. b \in Answers /\ b.status = a.status
    BY DEF Answers
  <2> HIDE DEF b
  <2>3. answer' = [answer EXCEPT ![c] = b]
    BY <2>1 DEF b
  <2> QED
    BY <2>2, <2>3 DEF TypeOK, Reply, Goto
<1> QED
  BY <1>1, <1>2 DEF Reply

----------------------------------------------------------------------------
(* Types *)

LEMMA NoAnswerType == noAnswer \in Answers
BY DEF noAnswer, Answers

\* A known bucket and the call's major parameter make a key.
LEMMA KeyType ==
    ASSUME TypeOK, NEW c \in Calls, bucketKnown(c)
    PROVE  keyOf(c) \in Keys
BY RestAssumption DEF TypeOK, bucketKnown, keyOf, Keys

LEMMA ResetType ==
    ASSUME TypeOK, NEW c \in Calls
    PROVE  nextReset(c) \in Nat
<1>1. CASE bucketKnown(c)
  <2>1. rateLimits[keyOf(c)] \in Limits
    BY <1>1, KeyType DEF TypeOK
  <2> QED
    BY <1>1, <2>1 DEF TypeOK, nextReset, Limits
<1>2. CASE ~bucketKnown(c)
  BY <1>2 DEF TypeOK, nextReset
<1> QED
  BY <1>1, <1>2

\* The service has a key of its own for every call.
LEMMA ServerKeyType ==
    ASSUME NEW c \in Calls
    PROVE  serverKey(c) \in Keys /\ BucketOf[Route[c]] \in Buckets
BY RestAssumption DEF serverKey, Keys

LEMMA LimitAnswerType ==
    ASSUME NEW c \in Calls, NEW s \in {"ok", "error", "429"}, NEW n \in Nat, NEW w \in Nat
    PROVE  LimitAnswer(c, s, n, w) \in Answers /\ LimitAnswer(c, s, n, w).status = s
BY ServerKeyType DEF LimitAnswer, noAnswer, Answers

\* A global limit is answered 429, and says how long in either form.
LEMMA GlobalAnswerType ==
    ASSUME TypeOK, NEW c \in Calls, RefuseGlobally(c)
    PROVE  \E a \in Answers : a.status = "429" /\ Reply(c, a)
<1>1. [form |-> "seconds", value |-> globalUntil - clock] \in RetryAfters
      /\ [form |-> "date", value |-> globalUntil] \in RetryAfters
  BY DEF TypeOK, RefuseGlobally, RetryAfters
<1>2. PICK r \in RetryAfters :
        Reply(c, [noAnswer EXCEPT !.status = "429", !.global = TRUE, !.retryAfter = r])
  BY <1>1 DEF RefuseGlobally
<1> DEFINE a == [noAnswer EXCEPT !.status = "429", !.global = TRUE, !.retryAfter = r]
<1>3. a \in Answers /\ a.status = "429"
  BY DEF noAnswer, Answers
<1> QED
  BY <1>2, <1>3

LEMMA ReplyFaults ==
    ASSUME TypeOK, NEW c \in Calls, NEW a, Reply(c, a)
    PROVE  faults' \in 0..MaxFaults
BY RestAssumption DEF TypeOK, Reply, Fault

LEMMA InitType == Init => TypeOK
BY RestAssumption DEF Init, TypeOK, Returned, Limits, noLimit, Answers, noAnswer, Keys

LEMMA NextType == TypeOK /\ [Next]_vars => TypeOK'
<1> SUFFICES ASSUME TypeOK, [Next]_vars PROVE TypeOK'
  OBVIOUS
<1> USE RestAssumption DEF TypeOK, Returned, limitVars, callVars, srvVars, bookVars, Goto, Set
<1>1. CASE Tick
  BY <1>1 DEF Tick
<1>2. CASE GlobalLimit
  BY <1>2 DEF GlobalLimit, Fault
<1>3. ASSUME NEW c \in Calls, Call(c) PROVE TypeOK'
  BY <1>3 DEF Call
<1>4. ASSUME NEW c \in Calls, Cancel(c) PROVE TypeOK'
  BY <1>4 DEF Cancel, Fault
<1>5. ASSUME NEW c \in Calls, ReadClock(c) PROVE TypeOK'
  BY <1>5 DEF ReadClock
<1>6. ASSUME NEW c \in Calls, Pass(c) PROVE TypeOK'
  <2>1. granted' \in [Keys -> Nat]
    BY <1>6, KeyType DEF Pass
  <2> QED
    BY <1>6, <2>1 DEF Pass
<1>7. ASSUME NEW c \in Calls, Throttle(c) PROVE TypeOK'
  <2>1. wake' \in [Calls -> Nat] /\ now' \in [Calls -> Nat]
    <3>1. clock + (nextReset(c) - now[c]) \in Nat
      BY <1>7, ResetType DEF Throttle
    <3> QED
      BY <1>7, <3>1 DEF Throttle
  <2>2. rateLimits' \in [Keys -> Limits]
    <3>1. CASE bucketKnown(c) /\ rateLimits[keyOf(c)].remaining > 0
      <4>1. keyOf(c) \in Keys /\ rateLimits[keyOf(c)] \in Limits
        BY <3>1, KeyType
      <4> DEFINE l == rateLimits[keyOf(c)]
      <4>2. l.remaining - 1 \in Nat /\ l.reset \in Nat
        BY <3>1, <4>1 DEF Limits
      <4>3. [l EXCEPT !.remaining = l.remaining - 1] \in Limits
        BY <4>1, <4>2 DEF Limits
      <4>4. \/ rateLimits' = rateLimits
            \/ rateLimits' = [rateLimits EXCEPT ![keyOf(c)] = [l EXCEPT !.remaining = l.remaining - 1]]
        BY <1>7, <3>1 DEF Throttle
      <4> HIDE DEF l
      <4> QED
        BY <4>1, <4>3, <4>4
    <3>2. CASE ~(bucketKnown(c) /\ rateLimits[keyOf(c)].remaining > 0)
      BY <1>7, <3>2 DEF Throttle
    <3> QED
      BY <3>1, <3>2
  <2> QED
    BY <1>7, <2>1, <2>2 DEF Throttle
<1>8. ASSUME NEW c \in Calls, Wake(c) PROVE TypeOK'
  BY <1>8 DEF Wake
<1>9. ASSUME NEW c \in Calls, WaitCancelled(c) PROVE TypeOK'
  BY <1>9 DEF WaitCancelled
<1>10. ASSUME NEW c \in Calls, Send(c) PROVE TypeOK'
  BY <1>10 DEF Send
<1>11. ASSUME NEW c \in Calls, HTTPFails(c) PROVE TypeOK'
  BY <1>11, NoAnswerType DEF HTTPFails, Fault
<1>12. ASSUME NEW c \in Calls, Answered(c) PROVE TypeOK'
  <2> DEFINE a == answer[c]
             k == <<a.bucket, Major[c]>>
  <2>1. a \in Answers
    OBVIOUS
  <2>2. UpdateLimits(c, a)
    BY <1>12 DEF Answered
  <2>3. rateLimitBuckets' \in [Routes -> Buckets \cup {NoBucket}] /\ globalRateLimitReset' \in Nat
    <3>1. CASE a.bucket # NoBucket
      <4>1. a.bucket \in Buckets
        BY <2>1, <3>1 DEF Answers
      <4> HIDE DEF a
      <4> QED
        BY <2>2, <3>1, <4>1 DEF UpdateLimits
    <3>2. CASE a.bucket = NoBucket
      <4>1. a.retryAfter # NoValue =>
              a.retryAfter.value \in Nat /\ clock + a.retryAfter.value \in Nat
        BY <2>1 DEF Answers, RetryAfters
      <4> HIDE DEF a
      <4> QED
        BY <2>2, <3>2, <4>1 DEF UpdateLimits
    <3> QED
      BY <3>1, <3>2
  <2>4. /\ rateLimits' \in [Keys -> Limits]
        /\ granted' \in [Keys -> Nat] /\ reported' \in [Keys -> Nat \cup {NoValue}]
    <3>1. CASE a.bucket # NoBucket
      <4>1. k \in Keys
        BY <2>1, <3>1 DEF Answers, Keys
      <4> DEFINE l == [remaining |-> IF a.remaining = NoValue THEN rateLimits[k].remaining
                                     ELSE a.remaining,
                       reset     |-> IF a.resetAfter = NoValue THEN rateLimits[k].reset
                                     ELSE clock + a.resetAfter]
      <4>2. rateLimits[k] \in Limits
        BY <4>1
      <4>3. l \in Limits
        BY <2>1, <4>2 DEF Answers, Limits
      <4>5. rateLimits' = [rateLimits EXCEPT ![k] = l]
        BY <2>2, <3>1 DEF UpdateLimits
      <4>6. a.remaining = NoValue \/ a.remaining \in Nat
        BY <2>1 DEF Answers
      <4> HIDE DEF l, a, k
      <4>7. rateLimits' \in [Keys -> Limits]
        BY <4>3, <4>5
      <4>8. granted' = granted \/ granted' = [granted EXCEPT ![k] = 0]
        BY <2>2, <3>1 DEF UpdateLimits, k
      <4>9. reported' = IF a.remaining = NoValue THEN reported
                        ELSE [reported EXCEPT ![k] = a.remaining]
        BY <2>2, <3>1 DEF UpdateLimits, k
      <4>10. granted' \in [Keys -> Nat]
        BY <4>1, <4>8
      <4>11. reported' \in [Keys -> Nat \cup {NoValue}]
        BY <4>1, <4>6, <4>9
      <4> QED
        BY <4>7, <4>10, <4>11
    <3>2. CASE a.bucket = NoBucket
      BY <2>2, <3>2 DEF UpdateLimits
    <3> QED
      BY <3>1, <3>2
  <2> QED
    BY <1>12, <2>3, <2>4, NoAnswerType DEF Answered
<1>13. ASSUME NEW c \in Calls, Execute(c) PROVE TypeOK'
  <2> DEFINE k    == serverKey(c)
             W(n) == IF clock > window[k].until
                     THEN [left |-> n, until |-> clock + Window] ELSE window[k]
  <2>0. PICK n \in 1..Limit :
          /\ W(n).left > 0
          /\ window' = [window EXCEPT ![k] = [W(n) EXCEPT !.left = @ - 1]]
          /\ \E s \in {"ok", "error"} :
                Reply(c, LimitAnswer(c, s, W(n).left - 1, W(n).until - clock))
    BY <1>13 DEF Execute
  <2> DEFINE w == W(n)
  <2>1. w \in [left : Nat, until : Nat] /\ w.until - clock \in Nat
    BY ServerKeyType
  <2>2. /\ w.left > 0
        /\ window' = [window EXCEPT ![k] = [w EXCEPT !.left = @ - 1]]
        /\ executed' = [executed EXCEPT ![c] = @ + 1]
        /\ \E s \in {"ok", "error"} : Reply(c, LimitAnswer(c, s, w.left - 1, w.until - clock))
        /\ UNCHANGED <<clock, limitVars, now, wake, ctxDone, globalUntil, bookVars>>
    BY <1>13, <2>0 DEF Execute
  <2> HIDE DEF w
  <2>3. w.left - 1 \in Nat
    BY <2>1, <2>2
  <2>4. window' \in [Keys -> [left : Nat, until : Nat]]
    BY <2>1, <2>2, <2>3
  <2>5. PICK s \in {"ok", "error"} : Reply(c, LimitAnswer(c, s, w.left - 1, w.until - clock))
    BY <2>2
  <2>6. LimitAnswer(c, s, w.left - 1, w.until - clock) \in Answers
    BY <2>1, <2>3, LimitAnswerType
  <2>7. /\ answer' \in [Calls -> Answers] /\ pc' = [pc EXCEPT ![c] = "answered"]
        /\ faults' \in 0..MaxFaults
    BY <2>5, <2>6, ReplyStatus, ReplyFaults
  <2> QED
    BY <2>2, <2>4, <2>7
<1>14. ASSUME NEW c \in Calls, Refuse(c) PROVE TypeOK'
  <2>1. window[serverKey(c)].until - clock \in Nat
    BY <1>14, ServerKeyType DEF Refuse
  <2>2. LimitAnswer(c, "429", 0, window[serverKey(c)].until - clock) \in Answers
    BY <2>1, LimitAnswerType
  <2>3. Reply(c, LimitAnswer(c, "429", 0, window[serverKey(c)].until - clock))
    BY <1>14 DEF Refuse
  <2>4. /\ answer' \in [Calls -> Answers] /\ pc' = [pc EXCEPT ![c] = "answered"]
        /\ faults' \in 0..MaxFaults
    BY <2>2, <2>3, ReplyStatus, ReplyFaults
  <2> QED
    BY <1>14, <2>4 DEF Refuse
<1>15. ASSUME NEW c \in Calls, RefuseGlobally(c) PROVE TypeOK'
  <2>1. PICK a \in Answers : a.status = "429" /\ Reply(c, a)
    BY <1>15, GlobalAnswerType
  <2>2. a \in Answers /\ Reply(c, a)
    BY <2>1
  <2>3. /\ answer' \in [Calls -> Answers] /\ pc' = [pc EXCEPT ![c] = "answered"]
        /\ faults' \in 0..MaxFaults
    BY <2>2, ReplyStatus, ReplyFaults
  <2> QED
    BY <1>15, <2>3 DEF RefuseGlobally
<1>16. CASE UNCHANGED vars
  BY <1>16 DEF vars
<1> QED
  BY <1>1, <1>2, <1>3, <1>4, <1>5, <1>6, <1>7, <1>8, <1>9, <1>10, <1>11, <1>12, <1>13, <1>14, <1>15, <1>16 DEF Next, Client, Service

\* The type invariant, for any number of calls and any limits of the service.
THEOREM TypeCorrect == Spec => []TypeOK
BY InitType, NextType, PTL DEF Spec

----------------------------------------------------------------------------
(* The service acts at most once *)

LEMMA InitActed == Init => Acted
BY DEF Init, Acted, ActedOn, Before

\* A step of call c leaves the other calls' share of Acted alone.
LEMMA OthersActed ==
    ASSUME TypeOK, Acted, NEW c \in Calls, ActedOn(c)',
           \A d \in Calls \ {c} : /\ pc'[d] = pc[d] /\ executed'[d] = executed[d]
                                 /\ answer'[d] = answer[d]
    PROVE  Acted'
BY DEF Acted, ActedOn

LEMMA NextActed == TypeOK /\ Acted /\ [Next]_vars => Acted'
<1> SUFFICES ASSUME TypeOK, Acted, [Next]_vars PROVE Acted'
  OBVIOUS
<1> USE DEF limitVars, callVars, srvVars, Goto, Set
<1>1. CASE Tick \/ GlobalLimit \/ UNCHANGED vars
  BY <1>1 DEF Tick, GlobalLimit, vars, Acted, ActedOn
<1>2. ASSUME NEW c \in Calls, Call(c) \/ ReadClock(c) \/ Pass(c) \/ Throttle(c) \/ Wake(c)
                              \/ WaitCancelled(c) \/ Send(c) \/ HTTPFails(c) \/ Cancel(c)
      PROVE  Acted'
  <2>1. /\ executed' = executed /\ answer' \in {answer, [answer EXCEPT ![c] = noAnswer]}
        /\ \/ pc' = pc /\ answer' = answer
           \/ pc[c] \in Before /\ \E p \in Before \cup {"failed"} : pc' = [pc EXCEPT ![c] = p]
           \/ pc' = [pc EXCEPT ![c] = "failed"]
    BY <1>2 DEF Call, ReadClock, Pass, Throttle, Wake, WaitCancelled, Send, HTTPFails, Cancel, Before
  <2>2. ActedOn(c)'
    BY <2>1 DEF TypeOK, Acted, ActedOn, Before
  <2> QED
    BY <2>1, <2>2, OthersActed DEF TypeOK
<1>3. ASSUME NEW c \in Calls, Answered(c) PROVE Acted'
  <2>1. /\ pc[c] = "answered" /\ executed' = executed
        /\ pc' = [pc EXCEPT ![c] = IF answer[c].status = "429" THEN "loop" ELSE "done"]
        /\ answer' = [answer EXCEPT ![c] = noAnswer]
    BY <1>3 DEF Answered
  <2>2. ActedOn(c)'
    BY <2>1 DEF TypeOK, Acted, ActedOn, Before
  <2> QED
    BY <2>1, <2>2, OthersActed DEF TypeOK
<1>4. ASSUME NEW c \in Calls, Execute(c) PROVE Acted'
  <2> DEFINE k    == serverKey(c)
             W(n) == IF clock > window[k].until
                     THEN [left |-> n, until |-> clock + Window] ELSE window[k]
  <2>0. PICK n \in 1..Limit :
          /\ W(n).left > 0
          /\ \E s \in {"ok", "error"} :
                Reply(c, LimitAnswer(c, s, W(n).left - 1, W(n).until - clock))
    BY <1>4 DEF Execute
  <2> DEFINE w == W(n)
  <2>1. w \in [left : Nat, until : Nat] /\ w.until - clock \in Nat
    BY ServerKeyType, RestAssumption DEF TypeOK
  <2>2. /\ w.left > 0 /\ pc[c] = "flight"
        /\ executed' = [executed EXCEPT ![c] = @ + 1]
        /\ \E s \in {"ok", "error"} : Reply(c, LimitAnswer(c, s, w.left - 1, w.until - clock))
    BY <1>4, <2>0 DEF Execute
  <2> HIDE DEF w
  <2>3. PICK s \in {"ok", "error"} : Reply(c, LimitAnswer(c, s, w.left - 1, w.until - clock))
    BY <2>2
  <2>4. w.left - 1 \in Nat
    BY <2>1, <2>2
  <2>5. /\ LimitAnswer(c, s, w.left - 1, w.until - clock) \in Answers
        /\ LimitAnswer(c, s, w.left - 1, w.until - clock).status = s
    BY <2>1, <2>4, LimitAnswerType
  <2>6. /\ answer'[c].status = s /\ pc' = [pc EXCEPT ![c] = "answered"]
        /\ \A d \in Calls \ {c} : answer'[d] = answer[d]
    BY <2>3, <2>5, ReplyStatus
  <2>7. ActedOn(c)'
    BY <2>2, <2>6 DEF TypeOK, Acted, ActedOn, Before
  <2> QED
    BY <2>2, <2>6, <2>7, OthersActed DEF TypeOK
<1>5. ASSUME NEW c \in Calls, Refuse(c) \/ RefuseGlobally(c) PROVE Acted'
  <2>1. PICK a \in Answers : a.status = "429" /\ Reply(c, a)
    <3>1. CASE Refuse(c)
      <4>1. window[serverKey(c)].until - clock \in Nat
        BY <3>1, ServerKeyType DEF Refuse, TypeOK
      <4>2. /\ LimitAnswer(c, "429", 0, window[serverKey(c)].until - clock) \in Answers
            /\ LimitAnswer(c, "429", 0, window[serverKey(c)].until - clock).status = "429"
        BY <4>1, LimitAnswerType
      <4> QED
        BY <3>1, <4>2 DEF Refuse
    <3>2. CASE RefuseGlobally(c)
      BY <3>2, GlobalAnswerType
    <3> QED
      BY <1>5, <3>1, <3>2
  <2>2. pc[c] = "flight" /\ executed' = executed
    BY <1>5 DEF Refuse, RefuseGlobally
  <2>3. /\ answer'[c].status = "429" /\ pc' = [pc EXCEPT ![c] = "answered"]
        /\ \A d \in Calls \ {c} : answer'[d] = answer[d]
    BY <2>1, ReplyStatus
  <2>4. ActedOn(c)'
    BY <2>2, <2>3 DEF TypeOK, Acted, ActedOn, Before
  <2> QED
    BY <2>2, <2>3, <2>4, OthersActed DEF TypeOK
<1> QED
  BY <1>1, <1>2, <1>3, <1>4, <1>5 DEF Next, Client, Service

\* However many calls share the client, and whatever the service answers, do
\* repeats only requests the service has not acted on.
THEOREM ActsAtMostOnceAlways == Spec => []ActsAtMostOnce
<1>1. Acted => ActsAtMostOnce
  BY DEF Acted, ActedOn, ActsAtMostOnce
<1> QED
  BY InitType, NextType, InitActed, NextActed, <1>1, PTL DEF Spec

----------------------------------------------------------------------------
(* The gate *)

\* The time a call read is not in the future: read before the lock is taken,
\* it errs on the side of waiting.
Past == \A c \in Calls : now[c] <= clock

LEMMA InitPast == Init => Past
BY DEF Init, Past

LEMMA NextPast == TypeOK /\ Past /\ [Next]_vars => Past'
<1> SUFFICES ASSUME TypeOK, Past, [Next]_vars PROVE Past'
  OBVIOUS
<1>1. /\ clock' \in {clock, clock + 1}
      /\ now' = now \/ \E c \in Calls : now' = [now EXCEPT ![c] = 0] \/ now' = [now EXCEPT ![c] = clock]
  BY DEF Next, Client, Service, Tick, GlobalLimit, Call, Cancel, ReadClock, Pass, Throttle, Wake,
         WaitCancelled, Send, HTTPFails, Answered, Execute, Refuse, RefuseGlobally, vars, limitVars,
         callVars, Set
<1> QED
  BY <1>1 DEF TypeOK, Past

\* No interleaving of calls lets a request through against a limit the client
\* knows at that moment.
THEOREM GateHonoursLimitsAlways == Spec => GateHonoursLimits
<1> DEFINE Gate == \A c \in Calls : pc[c] = "gate" /\ pc'[c] = "send" =>
                      /\ clock > globalRateLimitReset
                      /\ bucketKnown(c) /\ rateLimits[keyOf(c)].remaining <= 0
                            => clock > rateLimits[keyOf(c)].reset
<1>1. TypeOK /\ Past /\ [Next]_vars => [Gate]_vars
  <2> SUFFICES ASSUME TypeOK, Past, Next, NEW c \in Calls, pc[c] = "gate", pc'[c] = "send"
               PROVE  /\ clock > globalRateLimitReset
                      /\ bucketKnown(c) /\ rateLimits[keyOf(c)].remaining <= 0
                            => clock > rateLimits[keyOf(c)].reset
    BY DEF vars
  <2>1. Pass(c)
    <3>1. pc' # pc
      OBVIOUS
    <3>2. PICK d \in Calls : Call(d) \/ Cancel(d) \/ Client(d) \/ Service(d)
      BY <3>1 DEF Next, Tick, GlobalLimit, callVars
    <3>3. d = c
      BY <3>1, <3>2 DEF TypeOK, Client, Service, Call, Cancel, ReadClock, Pass, Throttle, Wake,
             WaitCancelled, Send, HTTPFails, Answered, Execute, Refuse, RefuseGlobally, Reply, Goto
    <3> QED
      BY <3>2, <3>3 DEF TypeOK, Client, Service, Call, Cancel, ReadClock, Throttle, Wake,
             WaitCancelled, Send, HTTPFails, Answered, Execute, Refuse, RefuseGlobally, Reply, Goto
  <2>2. clock > nextReset(c)
    BY <2>1, ResetType DEF Pass, Past, TypeOK
  <2>3. CASE bucketKnown(c) /\ rateLimits[keyOf(c)].remaining <= 0
    <3>1. rateLimits[keyOf(c)].reset \in Nat
      BY <2>3, KeyType DEF TypeOK, Limits
    <3> QED
      BY <2>2, <2>3, <3>1 DEF nextReset, TypeOK
  <2>4. CASE ~(bucketKnown(c) /\ rateLimits[keyOf(c)].remaining <= 0)
    BY <2>2, <2>4 DEF nextReset
  <2> QED
    BY <2>3, <2>4
<1>2. Spec => [][Gate]_vars
  BY InitType, NextType, InitPast, NextPast, <1>1, PTL DEF Spec
<1> QED
  BY <1>2 DEF GateHonoursLimits
=============================================================================
