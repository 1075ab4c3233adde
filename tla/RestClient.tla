------------------------------ MODULE RestClient ------------------------------
(***************************************************************************)
(* The REST side of the client: Client.do (discord.go) and                 *)
(* waitForRateLimit (rate_limit.go), called by any number of goroutines    *)
(* that share the rate limits the client has learnt under Client.mu.       *)
(*                                                                         *)
(* The Discord API is external: per bucket and major parameter it lets     *)
(* Limit requests through in a window of Window ticks, answers 429 to the  *)
(* others, sometimes limits everybody, and reports its limits in response  *)
(* headers, any of which may be missing or may not parse.                  *)
(*                                                                         *)
(* Time is counted in ticks from 1; the zero time.Time is 0.               *)
(***************************************************************************)
EXTENDS Integers, FiniteSets

CONSTANTS
    Calls,        \* concurrent calls of Client.do
    Routes,       \* method and route templates: apiRequest.rateLimitRoute()
    Majors,       \* values of apiRequest.rateLimitMajorParam()
    Buckets,      \* the service's rate limit buckets
    Route,        \* the route of each call
    Major,        \* the major parameter of each call
    BucketOf,     \* the service's bucket of each route
    NoBucket,     \* the empty bucket name, ""
    NoValue,      \* a header that is missing or does not parse
    Limit,        \* requests the service allows per window
    Window,       \* length of a window
    GlobalWindow, \* length of a global limit
    MaxTime,      \* bound: the clock stops here
    MaxFaults     \* bound: failures, missing headers, global limits, cancellations

ASSUME RestAssumption ==
    /\ Route \in [Calls -> Routes] /\ Major \in [Calls -> Majors]
    /\ BucketOf \in [Routes -> Buckets]
    /\ NoBucket \notin Buckets /\ NoValue \notin Int
    /\ {Limit, Window, GlobalWindow, MaxTime} \subseteq Nat \ {0}
    /\ MaxFaults \in Nat

VARIABLES
    clock,                \* time.Now()
    \* fields of the Client struct, protected by Client.mu
    rateLimitBuckets,     \* per route: the bucket, once known
    rateLimits,           \* per bucket and major parameter: remaining and reset
    globalRateLimitReset,
    \* the calls
    pc,                   \* per call: where it is
    now,                  \* per call: the time it read before taking the lock
    wake,                 \* per call: when its timer fires
    ctxDone,              \* per call: its context is done
    answer,               \* per call: the response on its way or being looked at
    \* external: the service
    window,               \* per bucket and major parameter: what is left, until when
    globalUntil,          \* the end of the last global limit
    executed,             \* per call: how often the service acted on it
    \* bookkeeping
    granted,              \* per bucket and major parameter: requests let through
                          \* since the last response that said how many remain
    reported,             \* ... and how many that response said
    faults

limitVars == <<rateLimitBuckets, rateLimits, globalRateLimitReset>>
callVars  == <<pc, now, wake, ctxDone, answer>>
srvVars   == <<window, globalUntil, executed>>
bookVars  == <<granted, reported>>

vars == <<clock, limitVars, callVars, srvVars, bookVars, faults>>

Keys == Buckets \X Majors

\* A rateLimits entry that is absent behaves as the zero rateLimit: nothing
\* remains, and its reset is not after any other.
Limits  == [remaining : Nat, reset : Nat]
noLimit == [remaining |-> 0, reset |-> 0]

\* The header Retry-After, in seconds from now or, of a proxy, as a date.
RetryAfters == [form : {"seconds", "date"}, value : Nat]

\* What do looks at in a response.
Answers == [status     : {"ok", "error", "429"},
            bucket     : Buckets \cup {NoBucket},
            remaining  : Nat \cup {NoValue},
            resetAfter : Nat \cup {NoValue},
            global     : BOOLEAN,
            retryAfter : RetryAfters \cup {NoValue}]

noAnswer == [status |-> "ok", bucket |-> NoBucket, remaining |-> NoValue,
             resetAfter |-> NoValue, global |-> FALSE, retryAfter |-> NoValue]

Returned == {"done", "failed"}

TypeOK ==
    /\ clock \in Nat \ {0}
    /\ rateLimitBuckets \in [Routes -> Buckets \cup {NoBucket}]
    /\ rateLimits \in [Keys -> Limits] /\ globalRateLimitReset \in Nat
    /\ pc \in [Calls -> {"idle", "loop", "gate", "sleep", "send", "flight", "answered"} \cup Returned]
    /\ now \in [Calls -> Nat] /\ wake \in [Calls -> Nat] /\ ctxDone \in [Calls -> BOOLEAN]
    /\ answer \in [Calls -> Answers]
    /\ window \in [Keys -> [left : Nat, until : Nat]] /\ globalUntil \in Nat
    /\ executed \in [Calls -> Nat]
    /\ granted \in [Keys -> Nat] /\ reported \in [Keys -> Nat \cup {NoValue}]
    /\ faults \in 0..MaxFaults

Init ==
    /\ clock = 1
    /\ rateLimitBuckets = [t \in Routes |-> NoBucket]
    /\ rateLimits = [k \in Keys |-> noLimit] /\ globalRateLimitReset = 0
    /\ pc = [c \in Calls |-> "idle"]
    /\ now = [c \in Calls |-> 0] /\ wake = [c \in Calls |-> 0]
    /\ ctxDone = [c \in Calls |-> FALSE] /\ answer = [c \in Calls |-> noAnswer]
    /\ window = [k \in Keys |-> [left |-> 0, until |-> 0]] /\ globalUntil = 0
    /\ executed = [c \in Calls |-> 0]
    /\ granted = [k \in Keys |-> 0] /\ reported = [k \in Keys |-> NoValue]
    /\ faults = 0

Fault == faults < MaxFaults /\ faults' = faults + 1

Goto(c, p) == pc' = [pc EXCEPT ![c] = p]

\* A local variable takes a value, or goes out of scope.
Set(v, c, x) == [v EXCEPT ![c] = x]

\* Time matters while something is still to come: once the clock is past every
\* reset, timer and window, all later times compare alike and need not be told
\* apart.
Pending ==
    \/ clock <= globalRateLimitReset \/ clock <= globalUntil
    \/ \E k \in Keys : clock <= rateLimits[k].reset \/ clock <= window[k].until
    \/ \E c \in Calls : clock < wake[c]

Tick ==
    /\ Pending /\ clock < MaxTime
    /\ clock' = clock + 1
    /\ UNCHANGED <<limitVars, callVars, srvVars, bookVars, faults>>

----------------------------------------------------------------------------
(* waitForRateLimit *)

Call(c) ==
    /\ pc[c] = "idle"
    /\ Goto(c, "loop")
    /\ UNCHANGED <<clock, limitVars, now, wake, ctxDone, answer, srvVars, bookVars, faults>>

\* The context of a running call is cancelled.
Cancel(c) ==
    /\ pc[c] \notin Returned \cup {"idle"} /\ ~ctxDone[c]
    /\ Fault
    /\ ctxDone' = [ctxDone EXCEPT ![c] = TRUE]
    /\ UNCHANGED <<clock, limitVars, pc, now, wake, answer, srvVars, bookVars>>

\* The time is read before the lock is taken: others may get the lock first.
ReadClock(c) ==
    /\ pc[c] = "loop"
    /\ now' = Set(now, c, clock)
    /\ Goto(c, "gate")
    /\ UNCHANGED <<clock, limitVars, wake, ctxDone, answer, srvVars, bookVars, faults>>

bucketKnown(c) == rateLimitBuckets[Route[c]] # NoBucket
keyOf(c)       == <<rateLimitBuckets[Route[c]], Major[c]>>

\* Seeded bug: an exhausted limit counts only if it ends before the global one.
nextReset_earlier(c) ==
    IF /\ bucketKnown(c)
       /\ rateLimits[keyOf(c)].remaining <= 0
       /\ rateLimits[keyOf(c)].reset < globalRateLimitReset
    THEN rateLimits[keyOf(c)].reset
    ELSE globalRateLimitReset

\* The later of the global reset and that of the call's own exhausted limit.
nextReset(c) ==
    IF /\ bucketKnown(c)
       /\ rateLimits[keyOf(c)].remaining <= 0
       /\ rateLimits[keyOf(c)].reset > globalRateLimitReset
    THEN rateLimits[keyOf(c)].reset
    ELSE globalRateLimitReset

\* Seeded bug: an exhausted limit stays exhausted until a response says more.
Pass_untilReported(c) ==
    /\ pc[c] = "gate" /\ now[c] > nextReset(c)
    /\ bucketKnown(c) => rateLimits[keyOf(c)].remaining > 0
    /\ Goto(c, "send") /\ now' = Set(now, c, 0)
    /\ granted' = IF bucketKnown(c) THEN [granted EXCEPT ![keyOf(c)] = @ + 1] ELSE granted
    /\ UNCHANGED <<clock, limitVars, wake, ctxDone, answer, srvVars, reported, faults>>

\* now.After(nextReset): the request may go.
Pass(c) ==
    /\ pc[c] = "gate" /\ now[c] > nextReset(c)
    /\ Goto(c, "send") /\ now' = Set(now, c, 0)
    /\ granted' = IF bucketKnown(c) THEN [granted EXCEPT ![keyOf(c)] = @ + 1] ELSE granted
    /\ UNCHANGED <<clock, limitVars, wake, ctxDone, answer, srvVars, reported, faults>>

\* Seeded bug: the charge does not look at what remains.
Throttle_overcharges(c) ==
    /\ pc[c] = "gate" /\ now[c] <= nextReset(c)
    /\ rateLimits' = IF bucketKnown(c) /\ now[c] < nextReset(c)
                     THEN [rateLimits EXCEPT ![keyOf(c)].remaining = @ - 1]
                     ELSE rateLimits
    /\ wake' = Set(wake, c, clock + (nextReset(c) - now[c])) /\ now' = Set(now, c, 0)
    /\ Goto(c, "sleep")
    /\ UNCHANGED <<clock, rateLimitBuckets, globalRateLimitReset, ctxDone, answer, srvVars,
                   bookVars, faults>>

\* The call sleeps; a call that waits for the global limit only is charged to
\* its own limit, once each time round.
Throttle(c) ==
    /\ pc[c] = "gate" /\ now[c] <= nextReset(c)
    /\ rateLimits' = IF /\ bucketKnown(c)
                        /\ now[c] < nextReset(c)
                        /\ rateLimits[keyOf(c)].remaining > 0
                     THEN [rateLimits EXCEPT ![keyOf(c)].remaining = @ - 1]
                     ELSE rateLimits
    /\ wake' = Set(wake, c, clock + (nextReset(c) - now[c])) /\ now' = Set(now, c, 0)
    /\ Goto(c, "sleep")
    /\ UNCHANGED <<clock, rateLimitBuckets, globalRateLimitReset, ctxDone, answer, srvVars,
                   bookVars, faults>>

Wake(c) ==
    /\ pc[c] = "sleep" /\ clock >= wake[c]
    /\ Goto(c, "loop") /\ wake' = Set(wake, c, 0)
    /\ UNCHANGED <<clock, limitVars, now, ctxDone, answer, srvVars, bookVars, faults>>

\* Seeded bug: the call waits for its timer only.
WaitCancelled_absent(c) == FALSE /\ UNCHANGED vars

WaitCancelled(c) ==
    /\ pc[c] = "sleep" /\ ctxDone[c]
    /\ Goto(c, "failed") /\ wake' = Set(wake, c, 0)
    /\ UNCHANGED <<clock, limitVars, now, ctxDone, answer, srvVars, bookVars, faults>>

----------------------------------------------------------------------------
(* do: one HTTP exchange after another until the answer is not 429 *)

Send(c) ==
    /\ pc[c] = "send" /\ ~ctxDone[c]
    /\ Goto(c, "flight")
    /\ UNCHANGED <<clock, limitVars, now, wake, ctxDone, answer, srvVars, bookVars, faults>>

\* http.Client.Do fails: before the service sees the request, or after.
HTTPFails(c) ==
    /\ pc[c] \in {"send", "flight", "answered"}
    /\ (ctxDone[c] /\ UNCHANGED faults) \/ Fault
    /\ Goto(c, "failed") /\ answer' = Set(answer, c, noAnswer)
    /\ UNCHANGED <<clock, limitVars, now, wake, ctxDone, srvVars, bookVars>>

\* What the headers of answer a make of the client's limits: those of a bucket
\* if it names one, the global one otherwise.
UpdateLimits(c, a) ==
    LET k == <<a.bucket, Major[c]>>
        r == a.retryAfter IN
    \/ /\ a.bucket # NoBucket
       /\ rateLimitBuckets' = [rateLimitBuckets EXCEPT ![Route[c]] = a.bucket]
       /\ rateLimits' = [rateLimits EXCEPT ![k] =
              [remaining |-> IF a.remaining = NoValue THEN @.remaining ELSE a.remaining,
               reset     |-> IF a.resetAfter = NoValue THEN @.reset ELSE clock + a.resetAfter]]
       /\ granted' = IF a.remaining = NoValue THEN granted ELSE [granted EXCEPT ![k] = 0]
       /\ reported' = IF a.remaining = NoValue THEN reported
                      ELSE [reported EXCEPT ![k] = a.remaining]
       /\ UNCHANGED globalRateLimitReset
    \/ /\ a.bucket = NoBucket
       /\ globalRateLimitReset' = IF ~a.global \/ r = NoValue THEN globalRateLimitReset
                                  ELSE IF r.form = "seconds" THEN clock + r.value ELSE r.value
       /\ UNCHANGED <<rateLimitBuckets, rateLimits, bookVars>>

\* Seeded bug: a server error is retried like a 429.
Answered_retriesErrors(c) ==
    /\ pc[c] = "answered"
    /\ UpdateLimits(c, answer[c])
    /\ Goto(c, IF answer[c].status = "ok" THEN "done" ELSE "loop")
    /\ answer' = Set(answer, c, noAnswer)
    /\ UNCHANGED <<clock, now, wake, ctxDone, srvVars, faults>>

Answered(c) ==
    /\ pc[c] = "answered"
    /\ UpdateLimits(c, answer[c])
    /\ Goto(c, IF answer[c].status = "429" THEN "loop" ELSE "done")
    /\ answer' = Set(answer, c, noAnswer)
    /\ UNCHANGED <<clock, now, wake, ctxDone, srvVars, faults>>

----------------------------------------------------------------------------
(* External: the service *)

\* The service's answer is on its way, with its headers or, a fault, without
\* some of them.
Reply(c, a) ==
    /\ \/ answer' = [answer EXCEPT ![c] = a] /\ UNCHANGED faults
       \/ /\ Fault
          /\ \E h \in {"bucket", "remaining", "resetAfter", "retryAfter"} :
                answer' = [answer EXCEPT ![c] =
                    [a EXCEPT ![h] = IF h = "bucket" THEN NoBucket ELSE NoValue]]
    /\ Goto(c, "answered")

serverKey(c) == <<BucketOf[Route[c]], Major[c]>>

LimitAnswer(c, s, n, w) ==
    [noAnswer EXCEPT !.status = s, !.bucket = BucketOf[Route[c]], !.remaining = n, !.resetAfter = w]

\* The service acts on the request, and does what it was asked for or fails.  Other
\* programs of the same bot may have had their part of a new window.
Execute(c) ==
    LET k == serverKey(c) IN
    /\ pc[c] = "flight" /\ clock > globalUntil
    /\ \E n \in 1..Limit :
        LET w == IF clock > window[k].until
                 THEN [left |-> n, until |-> clock + Window] ELSE window[k] IN
        /\ w.left > 0
        /\ window' = [window EXCEPT ![k] = [w EXCEPT !.left = @ - 1]]
        /\ \E s \in {"ok", "error"} : Reply(c, LimitAnswer(c, s, w.left - 1, w.until - clock))
    /\ executed' = [executed EXCEPT ![c] = @ + 1]
    /\ UNCHANGED <<clock, limitVars, now, wake, ctxDone, globalUntil, bookVars>>

Refuse(c) ==
    LET k == serverKey(c) IN
    /\ pc[c] = "flight" /\ clock > globalUntil
    /\ clock <= window[k].until /\ window[k].left = 0
    /\ Reply(c, LimitAnswer(c, "429", 0, window[k].until - clock))
    /\ UNCHANGED <<clock, limitVars, now, wake, ctxDone, srvVars, bookVars>>

RefuseGlobally(c) ==
    /\ pc[c] = "flight" /\ clock <= globalUntil
    /\ \E r \in {[form |-> "seconds", value |-> globalUntil - clock],
                 [form |-> "date", value |-> globalUntil]} :
          Reply(c, [noAnswer EXCEPT !.status = "429", !.global = TRUE, !.retryAfter = r])
    /\ UNCHANGED <<clock, limitVars, now, wake, ctxDone, srvVars, bookVars>>

GlobalLimit ==
    /\ clock > globalUntil
    /\ Fault
    /\ globalUntil' = clock + GlobalWindow
    /\ UNCHANGED <<clock, limitVars, callVars, window, executed, bookVars>>

----------------------------------------------------------------------------

Client(c) ==
    \/ ReadClock(c) \/ Pass(c) \/ Throttle(c) \/ Wake(c) \/ WaitCancelled(c)
    \/ Send(c) \/ HTTPFails(c) \/ Answered(c)

Service(c) == Execute(c) \/ Refuse(c) \/ RefuseGlobally(c)

Next ==
    \/ Tick \/ GlobalLimit
    \/ \E c \in Calls : Call(c) \/ Cancel(c) \/ Client(c) \/ Service(c)

Spec == Init /\ [][Next]_vars

\* Goroutines run.  A call that sleeps sees that it was cancelled even if its
\* timer fires again and again: the select is ready for good.
FairSpec ==
    /\ Spec
    /\ \A c \in Calls : WF_vars(Client(c)) /\ SF_vars(WaitCancelled(c))

----------------------------------------------------------------------------
(* Properties *)

\* No request is let through while, at that moment, the client knows that the
\* service limits everybody, or that nothing remains of the request's own
\* limit: although waitForRateLimit reads the time before it takes the lock and
\* other calls may update the limits in between (rate_limit.go:76-98).
GateHonoursLimits ==
    [][\A c \in Calls : pc[c] = "gate" /\ pc'[c] = "send" =>
          /\ clock > globalRateLimitReset
          /\ bucketKnown(c) /\ rateLimits[keyOf(c)].remaining <= 0
                => clock > rateLimits[keyOf(c)].reset]_vars

\* do repeats a request only while the service has not acted on it: a message
\* is not posted twice, however often the request is throttled, retried,
\* cancelled or left without an answer; and a call that returns an answer
\* returns that of the one time the service acted (discord.go:179-233).
ActsAtMostOnce ==
    \A c \in Calls : executed[c] <= 1 /\ (pc[c] = "done" => executed[c] = 1)

\* If time passes and the service answers, every call returns: throttled calls
\* wake up when their limit is over, and no call waits for a limit that was
\* lifted, overwritten or never reported.
CallsReturn ==
    (WF_vars(Tick) /\ \A c \in Calls : WF_vars(Service(c)))
        => \A c \in Calls : pc[c] = "loop" ~> pc[c] \in Returned

\* A call whose context is done returns, whatever the limit it sleeps for and
\* even if time stands still or the service never answers (rate_limit.go:101-107,
\* discord.go:189-192).
CancelReturns == \A c \in Calls : ctxDone[c] ~> pc[c] \in Returned

\* The claim of discord.go:180: do waits for a rate limit it knows.  Once a
\* response has said how many requests remain, no more than that many are let
\* through until the limit resets or a later response says otherwise.
WaitsForKnownLimit ==
    \A k \in Keys : reported[k] # NoValue /\ clock <= rateLimits[k].reset
                        => granted[k] <= reported[k]
===============================================================================
