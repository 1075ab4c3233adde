------------------------------ MODULE FakeServer -----------------------------
(***************************************************************************)
(* The REST side of fakediscord.Server (fakediscord/fakediscord.go): users,*)
(* DM channels, messages and reactions, and the events createMessage queues*)
(* for the gateways. Every handler holds Server.mu from the look at the    *)
(* token to the response, so that it is one action; reply is what the last *)
(* one answered.                                                           *)
(*                                                                         *)
(* A *discord.User is its name; channels and messages are numbered in the  *)
(* order of their creation (their Snowflake IDs differ, see Snowflake). The*)
(* goroutines of a gateway are FakeGateway's: here the queue is emptied in *)
(* one step. Requests whose body does not parse answer before the lock and *)
(* change nothing; they are left out. nobody is a token, or a recipient's  *)
(* ID, that the server does not know.                                      *)
(***************************************************************************)
EXTENDS Naturals, Sequences, SequencesExt

CONSTANTS
    Users,         \* who may be registered
    Gateways,      \* websockets of clients
    Emojis,
    nobody,        \* nil
    MaxChannels,   \* bound: DM channels
    MaxMessages    \* bound: messages

ASSUME FakeServerAssumption ==
    /\ nobody \notin Users
    /\ {MaxChannels, MaxMessages} \subseteq Nat

VARIABLES
    users,         \* Server.users and, by their tokens, Server.auths
    channels,      \* Server.channels: the Recipients of each
    messages,      \* Server.messages: the channel of each (ChannelID)
    reactions,     \* Server.reactions: the users by message and emoji
    gateways,      \* Server.gateways
    authUser,      \* gateway.authUser
    queue,         \* gateway.queue: the messages of its events
    reply,         \* the last request and its response
    \* bookkeeping
    reacted,       \* the reactions the server has accepted (204)
    since,         \* the number of messages when the gateway got its user
    until,         \* and when its websocket was gone
    handedOver     \* the messages of the events taken from the queue

apiVars == <<users, channels, messages, reactions, reacted>>
gwVars  == <<gateways, authUser, queue, since, until, handedOver>>
vars    == <<apiVars, gwVars, reply>>

Channels == 1..MaxChannels
Messages == 1..MaxMessages
Callers  == Users \cup {nobody}

\* A response: the handler, the caller, the recipient asked for, the status,
\* the channel or message in the body (0 if none), the message's reactions.
Answer(op, who, to, status, ch, msg, seen) ==
    [op |-> op, who |-> who, to |-> to, status |-> status, ch |-> ch, msg |-> msg, seen |-> seen]
Refusal(status) == Answer("refused", nobody, nobody, status, 0, 0, {})
noReply == Answer("none", nobody, nobody, 0, 0, 0, {})

Reaction == [emoji : Emojis, count : Nat \ {0}, me : BOOLEAN]

TypeOK ==
    /\ users \subseteq Users
    /\ channels \in Seq(Seq(Users)) /\ Len(channels) <= MaxChannels
    /\ messages \in Seq(Channels) /\ Len(messages) <= MaxMessages
    /\ reactions \in [Messages -> [Emojis -> SUBSET Users]]
    /\ reacted \subseteq Messages \X Emojis \X Users
    /\ gateways \subseteq Gateways
    /\ authUser \in [Gateways -> Callers]
    /\ queue \in [Gateways -> Seq(Messages)]
    /\ since \in [Gateways -> 0..MaxMessages]
    /\ until \in [Gateways -> 0..MaxMessages]
    /\ handedOver \in [Gateways -> Seq(Messages)]
    /\ reply.who \in Callers /\ reply.to \in Callers
    /\ reply.status \in {0, 200, 201, 204, 400, 401, 404}
    /\ reply.ch \in 0..MaxChannels /\ reply.msg \in 0..MaxMessages
    /\ reply.seen \subseteq Reaction

Init ==
    /\ users = {} /\ channels = <<>> /\ messages = <<>>
    /\ reactions = [m \in Messages |-> [e \in Emojis |-> {}]] /\ reacted = {}
    /\ gateways = {} /\ authUser = [g \in Gateways |-> nobody]
    /\ queue = [g \in Gateways |-> <<>>]
    /\ since = [g \in Gateways |-> 0] /\ until = [g \in Gateways |-> 0]
    /\ handedOver = [g \in Gateways |-> <<>>]
    /\ reply = noReply

----------------------------------------------------------------------------
(* Users *)

\* RegisterUser and RegisterBot.
RegisterUser(u) ==
    /\ u \notin users
    /\ users' = users \cup {u}
    /\ UNCHANGED <<channels, messages, reactions, reacted, gwVars, reply>>

\* lockedRequestUser finds the user of the token.
Known(u) == u \in users

\* hasRecipient, of a channel that exists.
hasRecipient(c, u) == u \in ToSet(channels[c])

\* A channel of the server that the caller is in.
Member(c, u) == c \in DOMAIN channels /\ hasRecipient(c, u)

Unauthorized(who) ==
    /\ ~Known(who)
    /\ reply' = Refusal(401)
    /\ UNCHANGED <<apiVars, gwVars>>

currentAuthInformation(u) ==
    \/ Unauthorized(u)
    \/ /\ Known(u)
       /\ reply' = Answer("currentAuthInformation", u, u, 200, 0, 0, {})
       /\ UNCHANGED <<apiVars, gwVars>>

----------------------------------------------------------------------------
(* DM channels *)

\* Seeded bug: the caller has to be the one who created the channel.
DMs_ofCreator(u, to) ==
    {c \in DOMAIN channels : Len(channels[c]) = 2 /\ channels[c] = <<u, to>>}

\* The channels that createUserChannel takes for the DM of two users.
DMs(u, to) ==
    {c \in DOMAIN channels : Len(channels[c]) = 2 /\ hasRecipient(c, u) /\ hasRecipient(c, to)}

\* Ranging over a map picks any of them.
ExistingDM(u, to) ==
    /\ \E c \in DMs(u, to) : reply' = Answer("createUserChannel", u, to, 201, c, 0, {})
    /\ UNCHANGED channels

NewDM(u, to) ==
    /\ DMs(u, to) = {} /\ Len(channels) < MaxChannels
    /\ channels' = Append(channels, <<u, to>>)
    /\ reply' = Answer("createUserChannel", u, to, 201, Len(channels'), 0, {})

createUserChannel(u, to) ==
    \/ Unauthorized(u)
    \/ /\ Known(u)
       /\ \/ ~Known(to) /\ reply' = Refusal(400) /\ UNCHANGED channels
          \/ Known(to) /\ (ExistingDM(u, to) \/ NewDM(u, to))
       /\ UNCHANGED <<users, messages, reactions, reacted, gwVars>>

getChannel(u, c) ==
    \/ Unauthorized(u)
    \/ /\ Known(u)
       /\ reply' = IF Member(c, u) THEN Answer("getChannel", u, nobody, 200, c, 0, {})
                   ELSE Refusal(404)
       /\ UNCHANGED <<apiVars, gwVars>>

----------------------------------------------------------------------------
(* Messages and reactions *)

\* Seeded bug: the message is looked up by its ID alone.
InChannel_anywhere(m, c) == m \in DOMAIN messages

\* The message exists, and in the channel of the path.
InChannel(m, c) == m \in DOMAIN messages /\ messages[m] = c

\* Seeded bug: the gateways whose websockets are gone are told too.
Told_gone(g, c) == authUser[g] # nobody /\ hasRecipient(c, authUser[g])

\* The gateways that createMessage pushes an event to.
Told(g, c) ==
    /\ g \in gateways /\ authUser[g] # nobody
    /\ hasRecipient(c, authUser[g])

createMessage(u, c) ==
    \/ Unauthorized(u)
    \/ /\ Known(u) /\ ~Member(c, u)
       /\ reply' = Refusal(400)
       /\ UNCHANGED <<apiVars, gwVars>>
    \/ /\ Known(u) /\ Member(c, u) /\ Len(messages) < MaxMessages
       /\ messages' = Append(messages, c)
       /\ queue' = [g \in Gateways |->
                       IF Told(g, c) THEN Append(queue[g], Len(messages')) ELSE queue[g]]
       /\ reply' = Answer("createMessage", u, nobody, 201, c, Len(messages'), {})
       /\ UNCHANGED <<users, channels, reactions, reacted, gateways, authUser, since, until, handedOver>>

\* Seeded bug: emojis that nobody reacted with are listed too.
ReactionsSeenBy_empty(u, m) ==
    {[emoji |-> e, count |-> Cardinality(reactions[m][e]), me |-> u \in reactions[m][e]] :
        e \in Emojis}

\* lockedFormatMessageForUser: the reactions as the user sees them.  The map of
\* an emoji is made when its first user is put into it: an empty one is none.
ReactionsSeenBy(u, m) ==
    {[emoji |-> e, count |-> Cardinality(reactions[m][e]), me |-> u \in reactions[m][e]] :
        e \in {f \in Emojis : reactions[m][f] # {}}}

getChannelMessage(u, c, m) ==
    \/ Unauthorized(u)
    \/ /\ Known(u)
       /\ reply' = IF Member(c, u) /\ InChannel(m, c)
                   THEN Answer("getChannelMessage", u, nobody, 200, c, m, ReactionsSeenBy(u, m))
                   ELSE Refusal(404)
       /\ UNCHANGED <<apiVars, gwVars>>

\* Seeded bug: the map of the emoji is made anew for every reaction.
WithReaction_fresh(m, e, u) == [reactions EXCEPT ![m][e] = {u}]

WithReaction(m, e, u) == [reactions EXCEPT ![m][e] = @ \cup {u}]

createReaction(u, c, m, e) ==
    \/ Unauthorized(u)
    \/ /\ Known(u) /\ Member(c, u) /\ InChannel(m, c)
       /\ reactions' = WithReaction(m, e, u)
       /\ reacted' = reacted \cup {<<m, e, u>>}
       /\ reply' = Answer("createReaction", u, nobody, 204, c, m, {})
       /\ UNCHANGED <<users, channels, messages, gwVars>>
    \/ /\ Known(u) /\ ~(Member(c, u) /\ InChannel(m, c))
       /\ reply' = Refusal(404)
       /\ UNCHANGED <<apiVars, gwVars>>

----------------------------------------------------------------------------
(* The gateways (see FakeGateway for the steps in between) *)

Connect(g) ==
    /\ g \notin gateways /\ authUser[g] = nobody
    /\ gateways' = gateways \cup {g}
    /\ UNCHANGED <<apiVars, authUser, queue, since, until, handedOver, reply>>

\* identify with the token of a user; the client sends it once per websocket.
Identify(g, u) ==
    /\ g \in gateways /\ authUser[g] = nobody /\ Known(u)
    /\ authUser' = [authUser EXCEPT ![g] = u]
    /\ since' = [since EXCEPT ![g] = Len(messages)]
    /\ UNCHANGED <<apiVars, gateways, queue, until, handedOver, reply>>

HandOver(g) ==
    /\ g \in gateways /\ queue[g] # <<>>
    /\ handedOver' = [handedOver EXCEPT ![g] = @ \o queue[g]]
    /\ queue' = [queue EXCEPT ![g] = <<>>]
    /\ UNCHANGED <<apiVars, gateways, authUser, since, until, reply>>

\* The handler returns and its gateway is deleted; nothing is kept for resume.
Disconnect(g) ==
    /\ g \in gateways
    /\ gateways' = gateways \ {g}
    /\ until' = [until EXCEPT ![g] = Len(messages)]
    /\ UNCHANGED <<apiVars, authUser, queue, since, handedOver, reply>>

----------------------------------------------------------------------------

Next ==
    \/ \E u \in Users : RegisterUser(u)
    \/ \E u \in Callers : currentAuthInformation(u)
    \/ \E u \in Callers, to \in Callers : createUserChannel(u, to)
    \/ \E u \in Callers, c \in Channels : getChannel(u, c) \/ createMessage(u, c)
    \/ \E u \in Callers, c \in Channels, m \in Messages : getChannelMessage(u, c, m)
    \/ \E u \in Callers, c \in Channels, m \in Messages, e \in Emojis : createReaction(u, c, m, e)
    \/ \E g \in Gateways : Connect(g) \/ HandOver(g) \/ Disconnect(g)
    \/ \E g \in Gateways, u \in Users : Identify(g, u)

Spec == Init /\ [][Next]_vars

----------------------------------------------------------------------------
(* Properties *)

\* However often and by whichever of the two a DM is created, a pair of users
\* has one DM channel, and that is the one both are given.  (A user who asks
\* for a DM with themselves may be given one they have with somebody else:
\* fakediscord.go:196-206.)
OneDMPerPair ==
    /\ \A c, d \in DOMAIN channels : ToSet(channels[c]) = ToSet(channels[d]) => c = d
    /\ reply.op = "createUserChannel" /\ reply.ch # 0 =>
          reply.who = reply.to \/ ToSet(channels[reply.ch]) = {reply.who, reply.to}

\* A response shows a channel or message, and a reaction is kept, only for a
\* member of the channel, and a message only under the channel it is in
\* (fakediscord.go:219, 238, 247, 281, 321, 330).
MembersOnly ==
    /\ reply.ch # 0 => Member(reply.ch, reply.who)
    /\ reply.msg # 0 => messages[reply.msg] = reply.ch
    /\ \A m \in Messages, e \in Emojis : \A u \in reactions[m][e] :
          m \in DOMAIN messages /\ Member(messages[m], u)

\* The users whose reaction to a message with an emoji was accepted.
Reactors(m, e) == {u \in Users : <<m, e, u>> \in reacted}

\* A message shows each emoji somebody reacted with, and no other, with as many
\* users as reacted, each counted once however often the request was made, and
\* as one's own to those who did and to nobody else (fakediscord.go:337-364).
ReactionsCounted ==
    reply.op = "getChannelMessage" =>
        /\ \A e \in Emojis : Reactors(reply.msg, e) # {} => \E r \in reply.seen : r.emoji = e
        /\ \A r \in reply.seen :
              /\ Reactors(reply.msg, r.emoji) # {}
              /\ r.count = Cardinality(Reactors(reply.msg, r.emoji))
              /\ r.me <=> reply.who \in Reactors(reply.msg, r.emoji)

\* The last message created while the gateway is registered.
LastSeen(g) == IF g \in gateways THEN Len(messages) ELSE until[g]

\* The messages of its user's channels that were created while it had the user.
Due(g) == {m \in since[g]+1..LastSeen(g) : hasRecipient(messages[m], authUser[g])}

\* A gateway's queue gets an event for every message that is created in a
\* channel of its user while it is registered, and for no other, once and in
\* the order of creation; none is queued once the websocket is gone
\* (fakediscord.go:298-308, gateway.go:52, 98-103).
EventsExact ==
    \A g \in Gateways : authUser[g] # nobody =>
        LET events == handedOver[g] \o queue[g]
        IN  /\ ToSet(events) = Due(g)
            /\ \A i, j \in DOMAIN events : i < j => events[i] < events[j]
==============================================================================
