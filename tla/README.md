# go-discord in TLA+

Models, model checks and machine-checked proofs for go-discord, a client library
for Discord's gateway and REST API, and for fakediscord, the in-memory Discord
that its tests talk to. Paths and line numbers below are those of the repository
(`gateway.go:412` is `src/gateway.go`, line 412).

## The system

### Components

| Component | State | Operations | Modelled in |
|---|---|---|---|
| Gateway session, `gateway.go` | `conn`, `heartbeat`, `bufferedEvent`, `sessionID`, `sequenceNumber` | `Listen`, `WaitForReady`, `Close`; inside them `connect`, `ensureConn`, `closeWithCode`, `updateSession` | `Gateway` |
| One call of `Gateway.next`, `gateway.go:222-289` | `pendingAck`, the ticker, two channels, an errgroup, the watchers of `read` | receive a payload; send and await heartbeats; answer heartbeat requests | `GatewayNext` |
| Payload I/O, `gateway.go:496-579` | the connection's deadlines; a watcher goroutine per call | `read`, `write` | `GatewayIO` |
| REST calls, `discord.go:156-257`, `rate_limit.go` | `rateLimitBuckets`, `rateLimits`, `globalRateLimitReset` under `Client.mu`; a retry loop per call | `do`, `waitForRateLimit` | `RestClient` |
| REST methods, `discord.go`, `auth.go`, `OpenGateway` | the request's data, the response in hand | thirteen methods of `Client`, each on top of `do` and `readBody` | `RestMethod` |
| Reading a response, `discord.go:884-930` | a buffer that grows | `readBody` | `ReadBody` |
| fakediscord, REST handlers, `fakediscord/fakediscord.go` | users, channels, messages, reactions and gateways under `Server.mu` | `RegisterUser`, `RegisterBot`, `currentAuthInformation`, `createUserChannel`, `getChannel`, `createMessage`, `getChannelMessage`, `createReaction` | `FakeServer` |
| fakediscord, HTTP layer, `fakediscord/handler.go` | none | `ServeHTTP`, `readJSONRequest`, `writeErrorResponse`, `writeTo` | `RestMethod` |
| fakediscord, gateway websocket, `fakediscord/gateway.go` | `queue`, `queueNotify`, `authUser`; three goroutines and the channel `outbound` | `handleGatewayWebsocket` (the reader, the notifier and the writer), `lockedPush` | `FakeGateway` |
| A client's session against fakediscord | both of the above | what the repository's tests do | `Session` |
| Snowflake IDs, `snowflake/snowflake.go` | `seq` of a `Generator` | `New`, the accessors, `Generate` | `Snowflake` |

`PROJECT.json` also lists what is not modelled or only in part: diagnostics
callbacks, authorization strings, data types, tracing.

### How they interact

An application calls `Listen` in one goroutine and REST methods in any number of
goroutines. `Listen` goes through `ensureConn` and `connect`, which read with
`next`; `next` starts two goroutines that share the connection, and each `read` and
`write` starts a watcher that sets a deadline when the context is done. A REST method encodes
its argument, goes through `do`, and reads the answer with `readBody`; all of them
share the rate limits in `Client`. In tests the
peer is fakediscord: `createMessage` runs with `Server.mu` held and pushes an
event on the queue of every gateway whose user is in the channel; the websocket's
notifier takes it from there, its writer puts it on the wire, and the client's
`next` reads it.

The models follow these seams. `Gateway` and `GatewayNext` meet at `next`,
`GatewayNext` and `GatewayIO` at `read` and `write`, `FakeServer` and `FakeGateway` at
the queue. `RestMethod` extends `ReadBody`, and `RestClient` is the loop of `do` for many
calls at once. `Session` composes the client with `FakeGateway`.

### What is hard

* **The session cursor.** `connect` buffers the first event of a connection and
  `Listen` hands it out later, perhaps after `Close` or another failure threw it
  away. The cursor must move exactly when the application gets the event, and a
  resume must name the session and the cursor that belong together.
* **Clean-up.** `connect` has three deferred clean-ups and fails at a dozen places;
  tickers, sockets and struct fields have to agree afterwards. A REST method has to close
  what it was given on every path.
* **`next`.** Two goroutines, unbuffered channels, a context that each cancels for
  the other, a ticker whose channel keeps one tick, and acknowledgements that only
  count while a call is running.
* **Watchers.** Nobody waits for the goroutine that sets a deadline; it may
  be late, and its deadline may be cleared before it has an effect.
* **Rate limits.** Calls read the clock before they lock, sleep without the lock,
  and learn from responses that arrive out of order, with headers missing.
* **The fake's websocket.** A wake-up that finds nobody is lost; an event may
  overtake READY; a client that does not read holds the writer.
* **Numbers at an edge.** A buffer that is full at the maximum; a sequence number
  that wraps; an instance wider than its field.

`PROJECT.json` lists these as hazards, each at its line, with the properties that
would catch it going wrong.

## Modules

`X` is modelled in `X.tla`; `MCX.tla` and its `.cfg` files are the instances for
TLC; `XProofs.tla` holds the theorems about `X` and about the modules it builds on:
`RestMethodProofs` those about `ReadBody` too, `SessionProofs` those about `FakeGateway`. A definition has the name of the code it
stands for where there is one; an action that models a handler has its name. Some
definitions are followed by a suffix (`stopHeartbeat_leaks`): these are seeded bugs,
used to see that the properties notice them, and part of no specification.

**`Gateway`** has one program counter, because the session code runs in the
caller's goroutine. Each action is the code between two points where the outside
can interfere: a dial, a read, a write, a timer. Reading is
`next` as seen from outside: it returns the head of the stream, or fails. The
deferred functions of `connect` are part of every action that fails it. The service keeps a log per
session, replays it from a resume's sequence number, and may refuse, invalidate,
ask to reconnect or send a READY without a session ID (as the fake does) or one
that does not parse; the network loses a connection with any suffix of the bytes.

**`EventStream`** is what `Listen` promises: each session is a log, and the
application is given the log in order, each entry once, except the RESUMED entries.
`Gateway` implements it with the refinement mapping that is the identity on
`log`, `cursor` and `received`. `cursor` is a history variable: it moves where
`Listen` calls `updateSession` for an event it consumes.

**`GatewayNext`** opens `next`: the heartbeat goroutine's select, the reading
goroutine, the two rendezvous, the errgroup's first error, the watchers (also those
whose read is over and which run late), the ticker with its channel of one.
Acknowledgements may wait on the wire between two calls, which is an application that is slow.
**`PayloadStream`** is what `connect` and `Listen` rely on, and what `Gateway`
takes for `next`. It numbers the payloads and has a set of those still to come; the mapping
takes as such those on the wire and the one that the reading goroutine has and `next` has not returned.

**`GatewayIO`** opens `read` and `write`, with the phases of their callers. `connect` reads Hello and
writes Resume and Identify itself; it waits for the answers with `next`, as `Listen` does for events, and there
the heartbeat goroutine writes while the other one reads. Both work under the context of their
group, which the first to end cancels, before `connect` goes on to write on the same
connection. A call checks its context, starts
its watcher and blocks; the watcher sets the deadline of its direction, and a write
first clears whatever deadline is set, as the websocket library does. A watcher may outlive
its call; then it acts on whatever `g.conn` is at that time. The network can be
stuck: nothing moves and nothing fails. What a payload says is left open, and so is when the ticker ticks and
an acknowledgement is missing: any end of a call that is the service's doing can come at any time. `outcome` tells
them apart: an `event`; `rejected`, for a payload that does not parse or is not the one expected and for the missing
acknowledgement; `failed`, for an error of a read, a write or the context.

**`RestClient`** has any number of calls, each with its own program counter, and
the limits in `Client`. `ReadClock` is separate from `Pass` and `Throttle`
because the code takes the time before the lock (`rate_limit.go:76`). `Answered` is
everything `do` does with a response: the limits it learns, the retry after 429 (`Retry-After` in
seconds or as a date), the return. The service counts per bucket and major parameter, and other programs
of the same bot may use part of a window.

**`RestMethod`** is one call of one of the thirteen methods, told apart by whether
they send data, look at the answer, insist on its content type, and have a route in
fakediscord. It follows the attempts, the bodies that are open, and
what becomes of an answer: `HonestVerdict` gives the exact condition of every result that an answered call can have. The service is fakediscord's HTTP layer or anything between a
proxy and Discord. **`ReadBody`**, whose variables it shares, is the loop on lengths alone:
what was read is a prefix of the body, so its length says which.

**`FakeServer`** has one action per handler, since each holds `Server.mu` throughout.
`reply` is the last response. `reacted`, the reactions that were answered with 204, is kept apart from `reactions`, what the
handlers keep, so that one can be checked against the other; likewise `since` and `until`, between which a gateway is owed the
messages of its user's channels. **`FakeGateway`** has one websocket with its three
goroutines, which take `Server.mu` at single points, and a client that may leave or stop reading.

**`Session`** extends `FakeGateway` with the part of `connect` and `Listen` that it
can reach, in place of the free client: this server's READY has no session ID, so the client
never resumes. Dialling starts a new handler; the old one, which ends by itself
(`HandlerReturns`) and touches nothing of the new one, is forgotten. It implements
`EventStream` too, with a log per websocket.

**`Snowflake`** writes shifts and masks as multiplication, division and remainder,
with the widths as constants.

## Runs

Runs with a finding expect the violation it describes.

| Run | Bounds | What it shows |
|---|---|---|
| `gateway` | 2 sessions, 3 events of each, 3 faults | `Listen` refines `EventStream`; a resume on the wire names the cursor; tickers and sockets are owned; the client catches up; a cancelled call returns |
| `next` | interval 2, 2 events, 1 requested heartbeat, 1 fault | `next` refines `PayloadStream`; a call that cannot go on returns; a silent connection is noticed; a healthy one is not given up for a heartbeat that was acknowledged |
| `next_silent` | interval 3, 1 request | finding: a stale tick ends a connection at once |
| `io` | 2 connections, 2 faults | a cancelled call returns, except as in the comment at `gateway.go:568`; an error of a read, a write or the context has a cause: cancellation, the network, or the client's own doing |
| `io_close` | 1 connection, no fault | finding: a watcher uses the connection after `Close` |
| `rest` | 2 calls of one route, limit 2, partly used, 25 ticks, 1 fault | the service acts once on a call; no call passes a limit known at that moment; every call returns, and a cancelled one without time or service |
| `rest_known` | 3 calls of one route, limit 2 | finding: calls that pass are not charged |
| `rest_method` | 13 methods, 2 throttled attempts, first buffer 4, maxima around it and its doublings, bodies to 12 | the verdict matches the answer; bodies are closed; a body is accepted exactly when it fits; the call returns |
| `fake_gateway` | 2 events, 2 client payloads | events in order and once, no lost wake-up, delivery, and the handler returns, unless a client that does not read holds a write |
| `session` | 2 messages, 2 client payloads a websocket, 1 lost websocket | `Listen` refines `EventStream` against the fake; the client recovers; messages arrive |
| `fake_server` | 2 users, 2 channels, 2 messages, 2 emojis, 1 websocket | one DM per pair, members only, reactions counted exactly, events exact |
| `snowflake` | 5 milliseconds, 2 instances, 4 sequence numbers, 9 IDs | an ID repeats only in its millisecond and a whole turn later; IDs are sorted and decoded to their fields |

**Bounds.** `gateway` needs two faults because a lost event takes two: one that
abandons a buffered event and one that breaks the connection which follows; a third
cancels the call while it waits to identify again after a refused resume. Two
sessions let an old sequence number meet a new session, and three entries
give a log with RESUMED in its middle. A fault is any failure, refusal,
cancellation or `Close`. `next` needs two ticks with an event between
them, and one fault: after a second there is nothing left to fail. `HealthyKept` meets acknowledgements of a tick's and of a requested heartbeat, read by the call
that wrote it or by a later one. `io` needs a second
connection for the watcher that the first one left behind, and two faults for a network that is stuck
under a call that is then cancelled; at most one watcher of each kind is left behind at a time.
In `rest` two calls suffice for one to overwrite what the other has learnt. A window may be new or partly used, so that
a response leaves one request or none: a call that waits then finds one to charge, or nothing. The windows
are shorter than the clock, so that limits expire. The clock
is bounded, and the bound must lie beyond what every call needs, or calls
would be stuck on it; 25 ticks are. `rest_known` has three calls, one that reports and two that pass.
`rest_method` scales 512 to 4 and covers maxima
below it, at it and around 8; two throttled attempts show that the second retry is like the first.
In `fake_gateway` and `session` two events make a batch that the notifier sends one by
one while the queue is used again; of the two payloads of a websocket, one identifies. In `session` each
message may also cost a websocket, by overtaking READY.
In `fake_server` two channels and two messages make one of each the wrong one to ask for; with two users the channels are their
DM and one of a user with themselves, and a user may be outside of the other's. A second message comes after
the first one's event was handed over, or after the websocket has gone. A websocket is identified once: the code would take a second
identify and change the user, which no client here sends.
`snowflake` keeps the three fields with 3, 1 and 2 bits,
and an instance that is too wide, with any epoch up to the clock. The nine IDs may all be of one millisecond, which is
two turns of the sequence number and one more, or a millisecond may begin anywhere in a turn. `Generate` neither looks at
the millisecond nor waits, so beyond 4096 IDs in one (here: 4) an ID repeats, where its comment (`snowflake.go:84`) promises a unique ID;
`UniqueIDs` says that it happens in no other case.

**Type invariants.** Every module of code has one, and all of them are proved for all constants; the runs leave out
those of `GatewayIO`, `RestMethod`, `ReadBody` and `FakeGateway`.

**Deadlock.** Every run switches deadlock checking off, because the bounded
environments stop: a quiet service leaves `Listen` waiting, calls of `do` finish, a
handler returns, the clock stops. That nothing else is stuck is what the liveness
properties say.

**Fairness.** A goroutine that can run does run (weak fairness of the goroutines'
actions). A `select` with several ready cases chooses at random, so a case that
is ready again and again is chosen in the end (strong fairness): the context in the
retry loop of `ensureConn` and in `waitForRateLimit`, the tick in `next`, the context and the
rendezvous in the fake's goroutines (Go also serves a channel's senders in turn). Time passes, a service
that is asked answers, and the application calls `Listen` again; nothing is
assumed of faults, whose number is bounded. In `rest` time and the service are fair only where
`CallsReturn` says so: `CancelReturns` holds without either. In `io` nothing is assumed of the network,
the ticker or the application, and in `fake_gateway` nothing of the client, which may stop reading for good.

## Findings

* **A stale tick** (`gateway.go:248`, run `next_silent`). When the service asks for a
  heartbeat, the goroutine writes it, sets `pendingAck` and resets the ticker; a
  tick already in the channel survives `Reset` (before Go 1.23's timers, and the
  module asks for 1.16), and the next select reads it as a missing acknowledgement.
* **A watcher after `Close`** (`gateway.go:512`, run `io_close`). A watcher closes
  `watchDone` first of all, so its call waits for its start and not for its end. It may run after
  `Close` has set `g.conn` to nil, and panics; or on the next connection, and cuts that one's reads or writes short.
* **Requests that pass are not charged** (`rate_limit.go:89`, run `rest_known`). The
  remaining count is decremented only for calls that have to wait.

Four more things the models show:

* An event that `next` has read ends the group while the other goroutine may be writing a
  heartbeat. The heartbeat is refused or its frame is cut, its error is dropped in favour of the event, and
  what follows on the connection may fail (`selfharm` in `GatewayIO`): the next heartbeat, or, when the event is the answer to a
  resume, Identify.
* A message created between the lock taken for Identify and the sending of READY may be
  sent first (`fakediscord/gateway.go:159-180`). The client's handshake fails on it, and `Session` shows
  that it costs a connection and whatever was queued on it, and nothing else.
* A user who asks fakediscord for a DM with themselves is given one they have with
  somebody else, if there is one (`fakediscord.go:196`); `OneDMPerPair` leaves that case out.
* A generator asked for more than 4096 IDs in a millisecond repeats them (`UniqueIDs`).

## Proofs

All theorems hold for every value of the constants that the modules' assumptions
(`GatewayAssumption`, `RestAssumption`, `ReadBodyAssumption`, `IOAssumption` and so on) allow: any set of
sessions, calls or users, any number of faults.

* **`GatewayProofs`.** `ResourcesOwnedAlways`: `Spec => []ResourcesOwned`. The
  property is not inductive, because in the middle of `connect` there may be a
  socket without a ticker. `ResInv` adds `Held`, which says what exists at each program
  counter, and `Counted`, which ties the counts to the fields. `Released` is the lemma
  that matters: `closeWithCode` and `connect`'s deferred functions release both,
  whatever was there. `TypeCorrect` proves the type invariant from `DataOK`, which is
  kept apart from the counts; `Replay` and `SubSeq` get a typing lemma each.
  `ImplementsEventStream`, `Spec => EventStreamSpec`, and
  `ResumesFromCursor` are not inductive either: that the event `Listen` reads is the next one of its
  session is due to what is on the wire, and that to the resume that was sent. `SInv` has three parts.
  `Cursors`: the cursor is a position of the log, and `sequenceNumber` is the cursor of the session whose ID
  the client holds. `OnWire(cs)`, for some session: up to the first payload that is not an
  event, the wire holds the entries after the last one consumed or buffered (`Follows`),
  and while the service writes to it, all of them (`Complete`). `Phases`: what may be on its way in each phase of
  the handshake, a resume among it only with the session and the cursor. The operators on the wire have
  lemmas of their own (`FollowsTail`, `FollowsPrefix`, `FollowsGrowth`, `FollowsReplay`), cited by one lemma for
  each group of actions. It needs `NilAssumption`: the value that stands for no event is none.
* **`GatewayNextProofs`.** `ImplementsPayloadStream`: `Spec => PayloadStreamSpec`. That the payload a call returns is
  the one after those returned is not a matter of the goroutines, which only ever hold one (`Calls`), but of the
  wire. `Wire` says that its events come after the one in hand, in order and without a gap as long as no call has
  failed, and that they are all that were sent as long as the connection takes payloads in. Acknowledgements and requests lie
  between them at will. What sending, reading and a break do to such a sequence is
  stated in lemmas of their own (`AppendEvent`, `AppendControl`, `ReadWire`, `CutWire`).
  `NextTypeCorrect` has its own parts, since the prover wants flags, numbers and sequences apart. `HealthyConnectionsKept` is an
  action property; its invariant, `Owed`, says that on a connection that is up and that no failure has ended yet, `pendingAck` comes
  with a heartbeat or acknowledgement that is somewhere: on its way to the service, on the wire, or in
  the hands of the reading goroutine; and that a reading goroutine which cannot hand one over ends the call with an error, so that no
  later call misses it.
* **`GatewayIOProofs`.** `FailuresHaveReasons` is an action property. Its
  invariant, `IOInv`, adds to the types where the goroutines can be in each phase and when the group is cancelled (`Calls`), and that a
  deadline, a broken direction or a watcher that has acted comes with a
  cause (`Sound`): a call that is lost or has been cancelled, or `selfharm`. The group is cancelled exactly when it has an
  outcome, so the error that is kept, the first one, is never an effect of the other goroutine's end.
* **`RestClientProofs`.** `ActsAtMostOnceAlways` needs to know what the service has
  done with a call that is still on its way: `Acted` relates `executed` to the
  program counter and to the answer in flight (an answer other than 429
  means that the service has acted, a 429 that it has not, and only a 429 leads back
  to the loop). `GateHonoursLimitsAlways` is an action property:
  with the clock never going back, a time read before the lock (`Past`) is not
  after the time at which the call passes, so comparing against it is conservative.
  `TypeCorrect` is the base of both.
* **`RestMethodProofs`.** For `ReadBody`, `IInv` says that the buffer's length is within its capacity,
  the capacity at least 1 and at most `maxSize + 1`, and that a body still being read fits
  so far; from it follow `ExactVerdictAlways`, `BoundedAlways` and `TypeCorrect`. `RestMethod` takes over that
  invariant (`Reading`, with a body given up on only
  when the connection has failed) and adds `Books`, which gives the number of open bodies and of the service's acts at each program
  counter. From it follows `NoBodyLeaks`. `VerdictTrusted` is an equivalence for each result, and inductive once it is
  known what has been read when `BodyRead` decides.
* **`SessionProofs`.** First the fake's websocket: `WakeupsKept` and `OrderKept`. The first is nearly inductive;
  the second needs `BatchOK`, that the notifier has events in hand exactly while it sends them, and
  lemmas on taking an element from one sequence and appending it to the one before.
  Then the client against it: `ImplementsSessionStream`. The client holds no sequence number to check, so
  everything has to come from the order of what is written. `SInv` adds to `EventsInOrder`: `Alive` and `Greeted`, that this
  client gives the handler no reason to stop and starts with Hello; `ReadyOnce`, that Identify and READY exist once, in one
  place, and that a client that is ready has read it; `OnWire` and `Beginning`, that the wire's events are what was written, a
  beginning of what was queued; `Consumed`, that the cursor counts READY and exactly the
  events read, so that one that overtakes READY ends the websocket before anything is handed out; `Logged`, that the log is READY and what was queued;
  and `Counted`, that a websocket is given up only for a loss or for a message of its own, so that the
  numbers of the websockets suffice. `SessionAssumption` asks that the client may send one request: Identify is one.
* **`FakeServerProofs`.** `OneChannelPerPair` and `OutsidersSeeNothing`. `Placed`
  adds that every channel has two recipients, and that a reaction or a reply is about a message that exists.
  `EventsExactAlways` needs `Registration`: a websocket without a user has an empty queue, got its user when there
  were no more messages than now and is gone since no more than now, so that a new message comes after all that were due, and is due exactly where
  `Told` puts it. `ReactionsCountedAlways` needs that what is shown is what the
  handlers keep (`SeenNow`), and that this is what was accepted (`AllKept`): then the counts are equal because the sets are. `ServerTypeCorrect` is
  the base of it, and gets from `SeenNow` that no reaction is shown that nobody made.
* **`SnowflakeProofs`.** `GenInv` says that the *n*-th ID is `New` of the millisecond it was made in and of *n* - 1 modulo
  the number of sequence numbers (`MadeBy`), and that these milliseconds lie between the epoch and now (`Ages`). The rest is arithmetic of division and remainder:
  `FieldsOf` unpacks a packed number, and equal remainders are a whole number of turns apart, so that equal IDs are of equal milliseconds and at
  least a turn apart. `TypeCorrect` holds
  as it stands. The others have a hypothesis, which is what the code relies on without checking it:
  `ClockFits`, the milliseconds since the epoch fit their bits (41 of them, so until 2084 with Discord's epoch). Nothing is assumed of the rate, nor of the instance,
  which `New` masks.

**Only model-checked:** liveness under fairness, since the prover does not reason about `ENABLED`, and with it the absence of
stuck calls: `CatchesUp`, `CallEnds`, `SilenceNoticed`, `CallsReturn`, the three `CancelReturns`, `MethodReturns`, `HandlerReturns`,
`EventsDelivered`, `Recovers` and `MessagesArrive`. Every other property of the runs that pass is proved.

## Not modelled

* A Hello without an interval, which makes `time.NewTicker` panic.
* The connection pool of `net/http`: `BodiesClosed` counts the 429 bodies that stay
  open, and not what they cost. Likewise the size of `rateLimits`, which only grows.
* Data types and their accessors, `Authorization` and OAuth URLs, the diagnostics callbacks, tracing, the
  user agent: no state, or no behaviour over time.
* Contents: JSON, names, URLs, embeds, formatting.

## Plan

Done: the session, `next` and the client against the fake, each with its abstract stream and the proof that it implements
it; reads and writes that block; REST calls and methods; `readBody`; the fake's handlers, HTTP layer and
websocket; Snowflake IDs; thirty-two theorems.

Next, in this order:

1. **`Gateway` on top of `PayloadStream`**: its `Receives` and `ReadFails` as steps of that specification, which would close the
   seam between the two refinements.
2. **`FakeServer` with two websockets**, for which the state space has
   to be cut down first. The theorems cover any number.
3. **A second identify on one websocket** (`fakediscord/gateway.go:152`), which hands the events queued for one user to another.
