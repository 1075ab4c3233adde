-------------------------- MODULE FakeServerProofs ---------------------------
(***************************************************************************)
(* Theorems about FakeServer, for every set of users, gateways and emojis  *)
(* and every number of channels and messages.                              *)
(***************************************************************************)
EXTENDS FakeServer, SequenceTheorems, FiniteSetTheorems, TLAPS

\* What the two properties rest on: every channel is the DM of two users (or of
\* one with themselves), and what refers to a message refers to one there is.
Placed ==
    /\ users \subseteq Users
    /\ channels \in Seq(Seq(Users))
    /\ \A c \in DOMAIN channels : Len(channels[c]) = 2
    /\ messages \in Seq(Channels)
    /\ reactions \in [Messages -> [Emojis -> SUBSET Users]]
    /\ reply.msg # 0 => reply.msg \in DOMAIN messages

Inv == Placed /\ OneDMPerPair /\ MembersOnly

----------------------------------------------------------------------------
(* Sequences *)

LEMMA Appended ==
    ASSUME NEW S, NEW s \in Seq(S), NEW e \in S
    PROVE  /\ DOMAIN Append(s, e) = DOMAIN s \cup {Len(s) + 1}
           /\ \A i \in DOMAIN s : Append(s, e)[i] = s[i]
           /\ Append(s, e)[Len(s) + 1] = e
           /\ Append(s, e) \in Seq(S) /\ Len(s) + 1 \notin DOMAIN s
OBVIOUS

\* The members of a DM.
LEMMA ToSetOfPair ==
    ASSUME NEW u, NEW to
    PROVE  ToSet(<<u, to>>) = {u, to} /\ Len(<<u, to>>) = 2
BY DEF ToSet

----------------------------------------------------------------------------

LEMMA InitInv == Init => Inv
BY DEF Init, Inv, Placed, OneDMPerPair, MembersOnly, noReply, Refusal, Answer

\* A refusal shows nothing.
LEMMA Refused ==
    ASSUME Inv, NEW status, reply' = Refusal(status), UNCHANGED apiVars
    PROVE  Inv'
<1>1. reply'.ch = 0 /\ reply'.msg = 0 /\ reply'.op = "refused"
  BY DEF Refusal, Answer
<1> QED
  BY <1>1 DEF Inv, Placed, OneDMPerPair, MembersOnly, Member, hasRecipient, apiVars

\* The DM found is that of the two users; one that is not found is new.
LEMMA FoundDM ==
    ASSUME Inv, NEW u, NEW to, NEW c \in DMs(u, to)
    PROVE  c \in DOMAIN channels /\ hasRecipient(c, u)
           /\ (u = to \/ ToSet(channels[c]) = {u, to})
<1>1. c \in DOMAIN channels /\ Len(channels[c]) = 2 /\ channels[c] \in Seq(Users)
      /\ u \in ToSet(channels[c]) /\ to \in ToSet(channels[c])
  BY DEF DMs, hasRecipient, Inv, Placed
<1>2. DOMAIN channels[c] = {1, 2}
  BY <1>1
<1>3. ToSet(channels[c]) = {channels[c][1], channels[c][2]}
  BY <1>2 DEF ToSet
<1> QED
  BY <1>1, <1>3 DEF hasRecipient

\* An answer about a channel of the caller, with no message in it.
LEMMA Shown ==
    ASSUME Inv, UNCHANGED apiVars, NEW op, op # "createUserChannel",
           NEW u, NEW c, NEW m, NEW status, NEW seen,
           Member(c, u), m # 0 => m \in DOMAIN messages /\ messages[m] = c,
           reply' = Answer(op, u, nobody, status, c, m, seen)
    PROVE  Inv'
<1>1. reply'.ch = c /\ reply'.msg = m /\ reply'.who = u /\ reply'.op = op
  BY DEF Answer
<1> QED
  BY <1>1 DEF Inv, Placed, OneDMPerPair, MembersOnly, Member, hasRecipient, apiVars

LEMMA StepCreateUserChannel ==
    ASSUME Inv, NEW u \in Callers, NEW to \in Callers, createUserChannel(u, to)
    PROVE  Inv'
<1>1. CASE Unauthorized(u)
             \/ (reply' = Refusal(400) /\ UNCHANGED apiVars)
  BY <1>1, Refused DEF Unauthorized
<1>2. CASE ExistingDM(u, to) /\ UNCHANGED <<users, messages, reactions>>
  <2>1. PICK c \in DMs(u, to) : reply' = Answer("createUserChannel", u, to, 201, c, 0, {})
    BY <1>2 DEF ExistingDM
  <2>2. reply'.ch = c /\ reply'.msg = 0 /\ reply'.who = u /\ reply'.to = to
    BY <2>1 DEF Answer
  <2>3. c \in DOMAIN channels /\ hasRecipient(c, u) /\ (u = to \/ ToSet(channels[c]) = {u, to})
    BY FoundDM
  <2>4. UNCHANGED <<users, channels, messages, reactions>>
    BY <1>2 DEF ExistingDM
  <2>5. Placed'
    BY <2>2, <2>4 DEF Inv, Placed
  <2>6. OneDMPerPair'
    BY <2>2, <2>3, <2>4 DEF Inv, OneDMPerPair
  <2>7. MembersOnly'
    BY <2>2, <2>3, <2>4 DEF Inv, MembersOnly, Member, hasRecipient
  <2> QED
    BY <2>5, <2>6, <2>7 DEF Inv
<1>3. CASE Known(u) /\ Known(to) /\ NewDM(u, to) /\ UNCHANGED <<users, messages, reactions>>
  <2> DEFINE n == Len(channels) + 1
  <2>1. u \in Users /\ to \in Users /\ <<u, to>> \in Seq(Users)
    BY <1>3 DEF Known, Inv, Placed
  <2>2. channels' = Append(channels, <<u, to>>) /\ DMs(u, to) = {}
    BY <1>3 DEF NewDM
  <2>3. /\ DOMAIN channels' = DOMAIN channels \cup {n} /\ n \notin DOMAIN channels
        /\ \A c \in DOMAIN channels : channels'[c] = channels[c]
        /\ channels'[n] = <<u, to>> /\ channels' \in Seq(Seq(Users)) /\ Len(channels') = n
    <3>1. channels \in Seq(Seq(Users))
      BY DEF Inv, Placed
    <3>2. Len(channels') = n
      BY <2>1, <2>2, <3>1, AppendProperties
    <3> QED
      BY <2>1, <2>2, <3>1, <3>2, Appended
  <2>4. ToSet(channels'[n]) = {u, to} /\ Len(channels'[n]) = 2
    BY <2>3, ToSetOfPair
  <2>5. reply' = Answer("createUserChannel", u, to, 201, n, 0, {})
    BY <1>3, <2>3 DEF NewDM
  <2>6. reply'.ch = n /\ reply'.msg = 0 /\ reply'.who = u /\ reply'.to = to
    BY <2>5 DEF Answer
  <2>7. \A c \in DOMAIN channels : ToSet(channels[c]) # {u, to}
    BY <2>2 DEF DMs, hasRecipient, Inv, Placed
  <2> HIDE DEF n
  <2>8. Placed'
    BY <1>3, <2>3, <2>4, <2>6 DEF Inv, Placed
  <2>9. OneDMPerPair'
    BY <2>3, <2>4, <2>6, <2>7 DEF Inv, OneDMPerPair
  <2>10. MembersOnly'
    BY <1>3, <2>3, <2>4, <2>6 DEF Inv, MembersOnly, Member, hasRecipient
  <2> QED
    BY <2>8, <2>9, <2>10 DEF Inv
<1> QED
  BY <1>1, <1>2, <1>3 DEF createUserChannel, apiVars

LEMMA StepCreateMessage ==
    ASSUME Inv, NEW u \in Callers, NEW c \in Channels, createMessage(u, c)
    PROVE  Inv'
<1>1. CASE Unauthorized(u) \/ (reply' = Refusal(400) /\ UNCHANGED apiVars)
  BY <1>1, Refused DEF Unauthorized
<1>2. CASE /\ Known(u) /\ Member(c, u)
           /\ messages' = Append(messages, c)
           /\ reply' = Answer("createMessage", u, nobody, 201, c, Len(messages'), {})
           /\ UNCHANGED <<users, channels, reactions>>
  <2> DEFINE n == Len(messages) + 1
  <2>1. messages \in Seq(Channels)
    BY DEF Inv, Placed
  <2>2. Len(messages') = n
    BY <1>2, <2>1, AppendProperties
  <2>3. /\ DOMAIN messages' = DOMAIN messages \cup {n}
        /\ \A m \in DOMAIN messages : messages'[m] = messages[m]
        /\ messages'[n] = c /\ Len(messages') = n /\ messages' \in Seq(Channels)
    BY <1>2, <2>1, <2>2, Appended
  <2>4. reply'.ch = c /\ reply'.msg = n /\ reply'.who = u /\ reply'.op = "createMessage"
    BY <1>2, <2>3 DEF Answer
  <2> HIDE DEF n
  <2>5. Placed'
    BY <1>2, <2>3, <2>4 DEF Inv, Placed
  <2>6. OneDMPerPair'
    BY <1>2, <2>4 DEF Inv, OneDMPerPair
  <2>7. MembersOnly'
    BY <1>2, <2>3, <2>4 DEF Inv, Placed, MembersOnly, Member, hasRecipient
  <2> QED
    BY <2>5, <2>6, <2>7 DEF Inv
<1> QED
  BY <1>1, <1>2 DEF createMessage, apiVars

\* A reaction adds its user to those of the message and emoji.
LEMMA ReactionAdded ==
    \A rs \in [Messages -> [Emojis -> SUBSET Users]], m \in Messages, e \in Emojis, u \in Users :
        LET added == [rs EXCEPT ![m][e] = @ \cup {u}] IN
        /\ added \in [Messages -> [Emojis -> SUBSET Users]]
        /\ \A n \in Messages, f \in Emojis :
              added[n][f] = IF n = m /\ f = e THEN rs[m][e] \cup {u} ELSE rs[n][f]
<1> SUFFICES ASSUME NEW rs \in [Messages -> [Emojis -> SUBSET Users]],
                    NEW m \in Messages, NEW e \in Emojis, NEW u \in Users
             PROVE  LET added == [rs EXCEPT ![m][e] = @ \cup {u}] IN
                    /\ added \in [Messages -> [Emojis -> SUBSET Users]]
                    /\ \A n \in Messages, f \in Emojis :
                          added[n][f] = IF n = m /\ f = e THEN rs[m][e] \cup {u} ELSE rs[n][f]
  OBVIOUS
<1>1. rs[m][e] \cup {u} \in SUBSET Users
  OBVIOUS
<1>2. [rs[m] EXCEPT ![e] = @ \cup {u}] \in [Emojis -> SUBSET Users]
  BY <1>1
<1> QED
  BY <1>1, <1>2

LEMMA StepCreateReaction ==
    ASSUME Inv, NEW u \in Callers, NEW c \in Channels, NEW m \in Messages, NEW e \in Emojis,
           createReaction(u, c, m, e)
    PROVE  Inv'
<1>1. CASE Unauthorized(u) \/ (reply' = Refusal(404) /\ UNCHANGED apiVars)
  BY <1>1, Refused DEF Unauthorized
<1>2. CASE /\ Known(u) /\ Member(c, u) /\ InChannel(m, c)
           /\ reactions' = WithReaction(m, e, u)
           /\ reply' = Answer("createReaction", u, nobody, 204, c, m, {})
           /\ UNCHANGED <<users, channels, messages>>
  <2>1. reply'.ch = c /\ reply'.msg = m /\ reply'.who = u /\ reply'.op = "createReaction"
    BY <1>2 DEF Answer
  <2>a. u \in Users /\ reactions \in [Messages -> [Emojis -> SUBSET Users]]
    BY <1>2 DEF Known, Inv, Placed
  <2>b. /\ WithReaction(m, e, u) \in [Messages -> [Emojis -> SUBSET Users]]
        /\ \A n \in Messages, f \in Emojis :
              WithReaction(m, e, u)[n][f] =
                  IF n = m /\ f = e THEN reactions[m][e] \cup {u} ELSE reactions[n][f]
    BY <2>a, ReactionAdded DEF WithReaction
  <2>2. /\ reactions' \in [Messages -> [Emojis -> SUBSET Users]]
        /\ \A n \in Messages, f \in Emojis :
              reactions'[n][f] = IF n = m /\ f = e THEN reactions[m][e] \cup {u} ELSE reactions[n][f]
    BY <1>2, <2>b, Zenon
  <2>3. Placed'
    BY <1>2, <2>1, <2>2 DEF Inv, Placed, InChannel
  <2>4. OneDMPerPair'
    BY <1>2, <2>1 DEF Inv, OneDMPerPair
  <2>5. MembersOnly'
    BY <1>2, <2>1, <2>2 DEF Inv, MembersOnly, Member, hasRecipient, InChannel
  <2> QED
    BY <2>3, <2>4, <2>5 DEF Inv
<1> QED
  BY <1>1, <1>2 DEF createReaction, apiVars

\* Every request, and every step of a gateway, keeps the invariant.
LEMMA NextInv == Inv /\ [Next]_vars => Inv'
<1> SUFFICES ASSUME Inv, [Next]_vars PROVE Inv'
  OBVIOUS
<1>1. ASSUME UNCHANGED <<channels, messages, reactions, reply>>, users' \subseteq Users PROVE Inv'
  BY <1>1 DEF Inv, Placed, OneDMPerPair, MembersOnly, Member, hasRecipient
<1>2. users \subseteq Users
  BY DEF Inv, Placed
<1>3. ASSUME NEW u \in Users, RegisterUser(u) PROVE Inv'
  BY <1>1, <1>2, <1>3 DEF RegisterUser
<1>4. ASSUME NEW u \in Callers, currentAuthInformation(u) PROVE Inv'
  <2>1. CASE Unauthorized(u)
    BY <2>1, Refused DEF Unauthorized
  <2>2. CASE reply' = Answer("currentAuthInformation", u, u, 200, 0, 0, {}) /\ UNCHANGED apiVars
    <3>1. reply'.ch = 0 /\ reply'.msg = 0
      BY <2>2 DEF Answer
    <3> QED
      BY <2>2, <3>1 DEF Inv, Placed, OneDMPerPair, MembersOnly, Member, hasRecipient, apiVars
  <2> QED
    BY <1>4, <2>1, <2>2 DEF currentAuthInformation
<1>5. ASSUME NEW u \in Callers, NEW c \in Channels, getChannel(u, c) PROVE Inv'
  BY <1>5, Refused, Shown DEF getChannel, Unauthorized
<1>6. ASSUME NEW u \in Callers, NEW c \in Channels, NEW m \in Messages, getChannelMessage(u, c, m)
      PROVE  Inv'
  <2>1. CASE Unauthorized(u) \/ (reply' = Refusal(404) /\ UNCHANGED apiVars)
    BY <2>1, Refused DEF Unauthorized
  <2>2. CASE /\ Member(c, u) /\ InChannel(m, c) /\ UNCHANGED apiVars
             /\ reply' = Answer("getChannelMessage", u, nobody, 200, c, m, ReactionsSeenBy(u, m))
    BY <2>2, Shown DEF InChannel
  <2> QED
    BY <1>6, <2>1, <2>2 DEF getChannelMessage
<1>7. ASSUME NEW g \in Gateways, Connect(g) \/ HandOver(g) \/ Disconnect(g) PROVE Inv'
  BY <1>1, <1>2, <1>7 DEF Connect, HandOver, Disconnect, apiVars
<1>8. ASSUME NEW g \in Gateways, NEW u \in Users, Identify(g, u) PROVE Inv'
  BY <1>1, <1>2, <1>8 DEF Identify, apiVars
<1>9. CASE UNCHANGED vars
  BY <1>1, <1>2, <1>9 DEF vars, apiVars
<1> QED
  BY <1>3, <1>4, <1>5, <1>6, <1>7, <1>8, <1>9, StepCreateUserChannel, StepCreateMessage,
     StepCreateReaction
  DEF Next

LEMMA InvAlways == Spec => []Inv
BY InitInv, NextInv, PTL DEF Spec

\* Two users share one DM channel for good, however their requests interleave.
THEOREM OneChannelPerPair == Spec => []OneDMPerPair
<1>1. Inv => OneDMPerPair
  BY DEF Inv
<1> QED
  BY InvAlways, <1>1, PTL

\* Nobody is shown a channel they are not in, or a message under another
\* channel, and no reaction of an outsider is kept.
THEOREM OutsidersSeeNothing == Spec => []MembersOnly
<1>1. Inv => MembersOnly
  BY DEF Inv
<1> QED
  BY InvAlways, <1>1, PTL

----------------------------------------------------------------------------
(* Types, and the reactions a message is shown with *)

Statuses == {0, 200, 201, 204, 400, 401, 404}

\* TypeOK by the kind of what it says.
ApiTypes ==
    /\ users \subseteq Users
    /\ channels \in Seq(Seq(Users)) /\ Len(channels) <= MaxChannels
    /\ messages \in Seq(Channels) /\ Len(messages) <= MaxMessages
    /\ reactions \in [Messages -> [Emojis -> SUBSET Users]]
    /\ reacted \subseteq Messages \X Emojis \X Users

GatewayTypes ==
    /\ gateways \subseteq Gateways
    /\ authUser \in [Gateways -> Callers]
    /\ queue \in [Gateways -> Seq(Messages)]
    /\ since \in [Gateways -> 0..MaxMessages]
    /\ until \in [Gateways -> 0..MaxMessages]
    /\ handedOver \in [Gateways -> Seq(Messages)]

ReplyTypes ==
    /\ reply.who \in Callers /\ reply.to \in Callers
    /\ reply.status \in Statuses
    /\ reply.ch \in 0..MaxChannels /\ reply.msg \in 0..MaxMessages
    /\ reply.seen \subseteq Reaction

\* ReactionsSeenBy, as a function of the reactions there are.
SeenIn(rs, u, m) ==
    {[emoji |-> e, count |-> Cardinality(rs[m][e]), me |-> u \in rs[m][e]] :
        e \in {f \in Emojis : rs[m][f] # {}}}

\* A message that is shown is shown with the reactions there are.
Shows == reply.op = "getChannelMessage"
SeenNow == Shows => reply.ch # 0 /\ reply.msg # 0 /\ reply.seen = SeenIn(reactions, reply.who, reply.msg)

\* The maps hold the reactions that were accepted.
AllKept == \A m \in Messages, e \in Emojis : reactions[m][e] = Reactors(m, e)

TInv == ApiTypes /\ GatewayTypes /\ ReplyTypes /\ SeenNow

LEMMA TypeParts == TypeOK <=> ApiTypes /\ GatewayTypes /\ ReplyTypes
BY DEF TypeOK, ApiTypes, GatewayTypes, ReplyTypes, Statuses

LEMMA SeenInReactions == ASSUME NEW u, NEW m PROVE ReactionsSeenBy(u, m) = SeenIn(reactions, u, m)
BY DEF ReactionsSeenBy, SeenIn

LEMMA Bounds == MaxChannels \in Nat /\ MaxMessages \in Nat /\ nobody \notin Users
BY FakeServerAssumption

\* Only members react, so that the reactions are counted in a finite set.
LEMMA ReactorsFinite ==
    ASSUME Inv, NEW m \in Messages, NEW e \in Emojis, reactions[m][e] # {}
    PROVE  IsFiniteSet(reactions[m][e]) /\ Cardinality(reactions[m][e]) \in Nat \ {0}
<1> DEFINE R == reactions[m][e]
           c == messages[m]
           members == ToSet(channels[c])
<1>1. \A u \in R : c \in DOMAIN channels /\ u \in members
  BY DEF Inv, MembersOnly, Member, hasRecipient
<1>2. c \in DOMAIN channels
  BY <1>1
<1>3. channels[c] \in Seq(Users) /\ Len(channels[c]) = 2
  BY <1>2, ElementOfSeq, LenProperties DEF Inv, Placed
<1>4. members = {channels[c][1], channels[c][2]}
  <2>1. DOMAIN channels[c] = {1, 2}
    BY <1>3, LenProperties
  <2> QED
    BY <2>1 DEF ToSet
<1>5. IsFiniteSet({channels[c][1]} \cup {channels[c][2]})
  <2>1. IsFiniteSet({channels[c][1]})
    BY FS_Singleton
  <2> QED
    BY <2>1, FS_AddElement
<1>6. IsFiniteSet(members)
  BY <1>4, <1>5
<1>7. IsFiniteSet(R)
  BY <1>1, <1>6, FS_Subset
<1>8. Cardinality(R) \in Nat \ {0}
  BY <1>7, FS_CardinalityType, FS_EmptySet
<1> QED
  BY <1>7, <1>8

LEMMA SeenType ==
    ASSUME Inv, NEW u, NEW m \in Messages PROVE ReactionsSeenBy(u, m) \subseteq Reaction
<1> SUFFICES ASSUME NEW e \in Emojis, reactions[m][e] # {}
             PROVE  [emoji |-> e, count |-> Cardinality(reactions[m][e]), me |-> u \in reactions[m][e]]
                        \in Reaction
  BY DEF ReactionsSeenBy
<1>1. (u \in reactions[m][e]) \in BOOLEAN
  OBVIOUS
<1>2. Cardinality(reactions[m][e]) \in Nat \ {0}
  BY ReactorsFinite
<1> QED
  BY <1>1, <1>2, Zenon DEF Reaction

LEMMA InitTInv == Init => TInv
<1> SUFFICES ASSUME Init PROVE TInv
  OBVIOUS
<1>1. ApiTypes
  BY Bounds DEF Init, ApiTypes
<1>2. GatewayTypes
  BY Bounds DEF Init, GatewayTypes, Callers
<1>3. ReplyTypes /\ SeenNow
  BY Bounds DEF Init, ReplyTypes, SeenNow, Shows, noReply, Answer, Callers, Statuses
<1> QED
  BY <1>1, <1>2, <1>3 DEF TInv

\* An answer that shows no message's reactions.
LEMMA Answered ==
    ASSUME NEW op, NEW who \in Callers, NEW to \in Callers, NEW status \in Statuses,
           op # "getChannelMessage",
           NEW ch \in 0..MaxChannels, NEW msg \in 0..MaxMessages,
           reply' = Answer(op, who, to, status, ch, msg, {})
    PROVE  ReplyTypes' /\ SeenNow'
BY DEF Answer, ReplyTypes, SeenNow, Shows

LEMMA AllStatuses == \A s \in {0, 200, 201, 204, 400, 401, 404} : s \in Statuses
BY DEF Statuses

\* 0 stands for no channel or message.
LEMMA Zeroes == 0 \in 0..MaxChannels /\ 0 \in 0..MaxMessages /\ nobody \in Callers
BY Bounds DEF Callers

LEMMA RefusedTyped ==
    ASSUME NEW status \in {400, 401, 404}, reply' = Refusal(status)
    PROVE  ReplyTypes' /\ SeenNow'
<1>1. status \in Statuses /\ "refused" # "getChannelMessage"
  BY AllStatuses
<1>2. reply' = Answer("refused", nobody, nobody, status, 0, 0, {})
  BY DEF Refusal
<1> QED
  BY <1>1, <1>2, Zeroes, Answered

LEMMA UnauthorizedTyped ==
    ASSUME NEW who \in Callers, Unauthorized(who)
    PROVE  ReplyTypes' /\ SeenNow' /\ UNCHANGED <<apiVars, gwVars>>
BY RefusedTyped DEF Unauthorized

\* A request that changes no data.
LEMMA ApiKept == ApiTypes /\ UNCHANGED apiVars => ApiTypes'
BY DEF ApiTypes, apiVars

LEMMA GatewaysKept == GatewayTypes /\ UNCHANGED gwVars => GatewayTypes'
BY DEF GatewayTypes, gwVars

LEMMA ReplyKept ==
    ReplyTypes /\ SeenNow /\ UNCHANGED <<reply, reactions>> => ReplyTypes' /\ SeenNow'
BY DEF ReplyTypes, SeenNow, Shows

LEMMA TypesCreateUserChannel ==
    ASSUME Inv, TInv, NEW u \in Callers, NEW to \in Callers, createUserChannel(u, to)
    PROVE  TInv'
<1>1. CASE Unauthorized(u)
  BY <1>1, UnauthorizedTyped, ApiKept, GatewaysKept DEF TInv
<1>2. CASE reply' = Refusal(400) /\ UNCHANGED <<apiVars, gwVars>>
  BY <1>2, RefusedTyped, ApiKept, GatewaysKept DEF TInv
<1>3. CASE ExistingDM(u, to) /\ UNCHANGED <<users, messages, reactions, reacted, gwVars>>
  <2>1. PICK c \in DMs(u, to) : reply' = Answer("createUserChannel", u, to, 201, c, 0, {})
    BY <1>3 DEF ExistingDM
  <2>2. c \in 0..MaxChannels /\ 0 \in 0..MaxMessages
    BY Bounds, LenProperties DEF DMs, TInv, ApiTypes
  <2>3. ReplyTypes' /\ SeenNow'
    BY <2>1, <2>2, Zeroes, AllStatuses, Answered
  <2> QED
    BY <1>3, <2>3, ApiKept, GatewaysKept DEF TInv, ExistingDM, apiVars
<1>4. CASE Known(u) /\ Known(to) /\ NewDM(u, to) /\ UNCHANGED <<users, messages, reactions, reacted, gwVars>>
  <2>1. <<u, to>> \in Seq(Users) /\ channels \in Seq(Seq(Users)) /\ Len(channels) \in Nat
    BY <1>4, LenProperties DEF Known, TInv, ApiTypes
  <2>2. channels' \in Seq(Seq(Users)) /\ Len(channels') = Len(channels) + 1
    BY <1>4, <2>1, AppendProperties DEF NewDM
  <2>3. Len(channels') \in 0..MaxChannels /\ 0 \in 0..MaxMessages
    BY <1>4, <2>1, <2>2, Bounds DEF NewDM
  <2>4. ReplyTypes' /\ SeenNow'
    BY <1>4, <2>3, Zeroes, AllStatuses, Answered DEF NewDM
  <2>5. ApiTypes'
    BY <1>4, <2>2, <2>3 DEF TInv, ApiTypes
  <2> QED
    BY <1>4, <2>4, <2>5, GatewaysKept DEF TInv
<1> QED
  BY <1>1, <1>2, <1>3, <1>4 DEF createUserChannel, apiVars

LEMMA TypesCreateMessage ==
    ASSUME Inv, TInv, NEW u \in Callers, NEW c \in Channels, createMessage(u, c)
    PROVE  TInv'
<1>1. CASE Unauthorized(u)
  BY <1>1, UnauthorizedTyped, ApiKept, GatewaysKept DEF TInv
<1>2. CASE reply' = Refusal(400) /\ UNCHANGED <<apiVars, gwVars>>
  BY <1>2, RefusedTyped, ApiKept, GatewaysKept DEF TInv
<1>3. CASE /\ Known(u) /\ Member(c, u) /\ Len(messages) < MaxMessages
           /\ messages' = Append(messages, c)
           /\ queue' = [g \in Gateways |->
                           IF Told(g, c) THEN Append(queue[g], Len(messages')) ELSE queue[g]]
           /\ reply' = Answer("createMessage", u, nobody, 201, c, Len(messages'), {})
           /\ UNCHANGED <<users, channels, reactions, reacted, gateways, authUser, since, until, handedOver>>
  <2>1. messages \in Seq(Channels) /\ Len(messages) \in Nat
    BY <1>3, LenProperties DEF TInv, ApiTypes
  <2>2. messages' \in Seq(Channels) /\ Len(messages') = Len(messages) + 1
    BY <1>3, <2>1, AppendProperties
  <2>3. Len(messages') \in Messages /\ Len(messages') \in 0..MaxMessages /\ c \in 0..MaxChannels
        /\ nobody \in Callers
    BY <1>3, <2>1, <2>2, Bounds DEF Messages, Channels, Callers
  <2>4. ReplyTypes' /\ SeenNow'
    BY <1>3, <2>3, AllStatuses, Answered
  <2>5. ApiTypes'
    BY <1>3, <2>2, <2>3 DEF TInv, ApiTypes
  <2>6. \A g \in Gateways : Append(queue[g], Len(messages')) \in Seq(Messages) /\ queue[g] \in Seq(Messages)
    BY <2>3, AppendProperties DEF TInv, GatewayTypes
  <2>7. GatewayTypes'
    BY <1>3, <2>6 DEF TInv, GatewayTypes
  <2> QED
    BY <2>4, <2>5, <2>7 DEF TInv
<1> QED
  BY <1>1, <1>2, <1>3 DEF createMessage

LEMMA TypesGetChannelMessage ==
    ASSUME Inv, TInv, NEW u \in Callers, NEW c \in Channels, NEW m \in Messages,
           getChannelMessage(u, c, m)
    PROVE  TInv'
<1>1. CASE Unauthorized(u)
  BY <1>1, UnauthorizedTyped, ApiKept, GatewaysKept DEF TInv
<1>2. CASE reply' = Refusal(404) /\ UNCHANGED <<apiVars, gwVars>>
  BY <1>2, RefusedTyped, ApiKept, GatewaysKept DEF TInv
<1>3. CASE /\ reply' = Answer("getChannelMessage", u, nobody, 200, c, m, ReactionsSeenBy(u, m))
           /\ UNCHANGED <<apiVars, gwVars>>
  <2>1. /\ reply'.op = "getChannelMessage" /\ reply'.who = u /\ reply'.to = nobody
        /\ reply'.status = 200 /\ reply'.ch = c /\ reply'.msg = m
        /\ reply'.seen = ReactionsSeenBy(u, m)
    BY <1>3 DEF Answer
  <2>2. c \in 0..MaxChannels /\ c # 0 /\ m \in 0..MaxMessages /\ m # 0 /\ nobody \in Callers
    BY Bounds DEF Channels, Messages, Callers
  <2>3. ReplyTypes'
    BY <2>1, <2>2, SeenType DEF ReplyTypes, Statuses
  <2>4. reply'.seen = SeenIn(reactions', u, m)
    BY <1>3, <2>1, SeenInReactions DEF apiVars
  <2>5. SeenNow'
    BY <2>1, <2>2, <2>4 DEF SeenNow
  <2> QED
    BY <1>3, <2>3, <2>5, ApiKept, GatewaysKept DEF TInv
<1> QED
  BY <1>1, <1>2, <1>3 DEF getChannelMessage

LEMMA TypesCreateReaction ==
    ASSUME Inv, TInv, NEW u \in Callers, NEW c \in Channels, NEW m \in Messages, NEW e \in Emojis,
           createReaction(u, c, m, e)
    PROVE  TInv'
<1>1. CASE Unauthorized(u)
  BY <1>1, UnauthorizedTyped, ApiKept, GatewaysKept DEF TInv
<1>2. CASE reply' = Refusal(404) /\ UNCHANGED <<apiVars, gwVars>>
  BY <1>2, RefusedTyped, ApiKept, GatewaysKept DEF TInv
<1>3. CASE /\ Known(u) /\ reactions' = WithReaction(m, e, u) /\ reacted' = reacted \cup {<<m, e, u>>}
           /\ reply' = Answer("createReaction", u, nobody, 204, c, m, {})
           /\ UNCHANGED <<users, channels, messages, gwVars>>
  <2>1. c \in 0..MaxChannels /\ m \in 0..MaxMessages /\ nobody \in Callers
    BY Bounds DEF Channels, Messages, Callers
  <2>2. ReplyTypes' /\ SeenNow'
    BY <1>3, <2>1, AllStatuses, Answered
  <2>3. /\ <<m, e, u>> \in Messages \X Emojis \X Users
        /\ reactions' \in [Messages -> [Emojis -> SUBSET Users]]
    BY <1>3, ReactionAdded DEF WithReaction, Known, TInv, ApiTypes
  <2>4. ApiTypes'
    BY <1>3, <2>3 DEF TInv, ApiTypes
  <2> QED
    BY <1>3, <2>2, <2>4, GatewaysKept DEF TInv
<1> QED
  BY <1>1, <1>2, <1>3 DEF createReaction

\* The steps of a gateway.
LEMMA TypesGateway ==
    ASSUME TInv, NEW g \in Gateways,
           Connect(g) \/ HandOver(g) \/ Disconnect(g) \/ \E u \in Users : Identify(g, u)
    PROVE  TInv'
<1>1. UNCHANGED <<apiVars, reply>>
  BY DEF Connect, HandOver, Disconnect, Identify
<1>2. ASSUME Connect(g) \/ Disconnect(g) PROVE GatewayTypes'
  <2>1. gateways' \subseteq Gateways
    BY <1>2 DEF Connect, Disconnect, TInv, GatewayTypes
  <2>2. UNCHANGED <<authUser, queue, since, handedOver>>
    BY <1>2 DEF Connect, Disconnect
  <2>3. until' \in [Gateways -> 0..MaxMessages]
    <3>1. Len(messages) \in 0..MaxMessages /\ until \in [Gateways -> 0..MaxMessages]
      BY LenProperties, Bounds DEF TInv, ApiTypes, GatewayTypes
    <3> QED
      BY <1>2, <3>1 DEF Connect, Disconnect, gwVars
  <2> QED
    BY <2>1, <2>2, <2>3 DEF TInv, GatewayTypes
<1>3. ASSUME HandOver(g) PROVE GatewayTypes'
  <2>1. handedOver[g] \o queue[g] \in Seq(Messages) /\ <<>> \in Seq(Messages)
    BY ConcatProperties DEF TInv, GatewayTypes
  <2>2. handedOver' \in [Gateways -> Seq(Messages)] /\ queue' \in [Gateways -> Seq(Messages)]
    BY <1>3, <2>1 DEF HandOver, TInv, GatewayTypes
  <2>3. UNCHANGED <<gateways, authUser, since, until>>
    BY <1>3 DEF HandOver
  <2> QED
    BY <2>2, <2>3 DEF TInv, GatewayTypes
<1>4. ASSUME NEW u \in Users, Identify(g, u) PROVE GatewayTypes'
  <2>1. Len(messages) \in 0..MaxMessages /\ u \in Callers
    BY LenProperties, Bounds DEF TInv, ApiTypes, Callers
  <2> QED
    BY <1>4, <2>1 DEF Identify, TInv, GatewayTypes
<1>5. GatewayTypes'
  BY <1>2, <1>3, <1>4
<1> QED
  BY <1>1, <1>5, ApiKept, ReplyKept DEF TInv, apiVars

LEMMA NextTInv == Inv /\ TInv /\ [Next]_vars => TInv'
<1> SUFFICES ASSUME Inv, TInv, [Next]_vars PROVE TInv'
  OBVIOUS
<1>1. ASSUME NEW u \in Users, RegisterUser(u) PROVE TInv'
  <2>1. ApiTypes'
    BY <1>1 DEF RegisterUser, TInv, ApiTypes
  <2> QED
    BY <1>1, <2>1, GatewaysKept, ReplyKept DEF RegisterUser, TInv
<1>2. ASSUME NEW u \in Callers, currentAuthInformation(u) PROVE TInv'
  <2>1. CASE Unauthorized(u)
    BY <2>1, UnauthorizedTyped, ApiKept, GatewaysKept DEF TInv
  <2>2. CASE /\ reply' = Answer("currentAuthInformation", u, u, 200, 0, 0, {})
             /\ UNCHANGED <<apiVars, gwVars>>
    <3>1. ReplyTypes' /\ SeenNow'
      BY <2>2, Zeroes, AllStatuses, Answered
    <3> QED
      BY <2>2, <3>1, ApiKept, GatewaysKept DEF TInv
  <2> QED
    BY <1>2, <2>1, <2>2 DEF currentAuthInformation
<1>3. ASSUME NEW u \in Callers, NEW c \in Channels, getChannel(u, c) PROVE TInv'
  <2>1. CASE Unauthorized(u)
    BY <2>1, UnauthorizedTyped, ApiKept, GatewaysKept DEF TInv
  <2>2. CASE reply' = Refusal(404) /\ UNCHANGED <<apiVars, gwVars>>
    BY <2>2, RefusedTyped, ApiKept, GatewaysKept DEF TInv
  <2>3. CASE reply' = Answer("getChannel", u, nobody, 200, c, 0, {}) /\ UNCHANGED <<apiVars, gwVars>>
    <3>1. c \in 0..MaxChannels /\ 0 \in 0..MaxMessages /\ nobody \in Callers
      BY Bounds DEF Channels, Callers
    <3>2. ReplyTypes' /\ SeenNow'
      BY <2>3, <3>1, AllStatuses, Answered
    <3> QED
      BY <2>3, <3>2, ApiKept, GatewaysKept DEF TInv
  <2> QED
    BY <1>3, <2>1, <2>2, <2>3 DEF getChannel
<1>4. ASSUME NEW g \in Gateways,
             Connect(g) \/ HandOver(g) \/ Disconnect(g) \/ \E u \in Users : Identify(g, u)
      PROVE  TInv'
  BY <1>4, TypesGateway
<1>5. CASE UNCHANGED vars
  BY <1>5, ApiKept, GatewaysKept, ReplyKept DEF TInv, vars, apiVars
<1> QED
  BY <1>1, <1>2, <1>3, <1>4, <1>5, TypesCreateUserChannel, TypesCreateMessage,
     TypesGetChannelMessage, TypesCreateReaction
  DEF Next

LEMMA TInvAlways == Spec => []TInv
BY InitTInv, NextTInv, InvAlways, PTL DEF Spec

\* Type correctness of the server: among others, a message shows no reaction
\* that nobody made.
THEOREM ServerTypeCorrect == Spec => []TypeOK
<1>1. TInv => TypeOK
  BY TypeParts DEF TInv
<1> QED
  BY TInvAlways, <1>1, PTL

LEMMA InitAllKept == Init => AllKept
BY DEF Init, AllKept, Reactors

\* Only createReaction puts users into the maps, and it puts one.
LEMMA NextAllKept == TInv /\ AllKept /\ [Next]_vars => AllKept'
<1> SUFFICES ASSUME TInv, AllKept, [Next]_vars PROVE AllKept'
  OBVIOUS
<1>1. CASE UNCHANGED <<reactions, reacted>>
  BY <1>1 DEF AllKept, Reactors
<1>2. ASSUME NEW u \in Callers, NEW c \in Channels, NEW m \in Messages, NEW e \in Emojis,
             createReaction(u, c, m, e)
      PROVE  AllKept'
  <2>1. CASE UNCHANGED apiVars
    BY <1>1, <2>1 DEF apiVars
  <2>2. CASE Known(u) /\ reactions' = WithReaction(m, e, u) /\ reacted' = reacted \cup {<<m, e, u>>}
    <3>1. u \in Users
      BY <2>2 DEF Known, TInv, ApiTypes
    <3>a. reactions \in [Messages -> [Emojis -> SUBSET Users]]
      BY DEF TInv, ApiTypes
    <3>b. \A n \in Messages, f \in Emojis :
             WithReaction(m, e, u)[n][f] =
                 IF n = m /\ f = e THEN reactions[m][e] \cup {u} ELSE reactions[n][f]
      BY <3>1, <3>a, ReactionAdded DEF WithReaction
    <3>2. \A n \in Messages, f \in Emojis :
             reactions'[n][f] = IF n = m /\ f = e THEN reactions[m][e] \cup {u} ELSE reactions[n][f]
      BY <2>2, <3>b, Zenon
    <3>3. \A n \in Messages, f \in Emojis :
             Reactors(n, f)' = IF n = m /\ f = e THEN Reactors(m, e) \cup {u} ELSE Reactors(n, f)
      BY <2>2, <3>1 DEF Reactors
    <3> QED
      BY <3>2, <3>3 DEF AllKept
  <2> QED
    BY <1>2, <2>1, <2>2 DEF createReaction, Unauthorized
<1>3. \/ UNCHANGED <<reactions, reacted>>
      \/ \E u \in Callers, c \in Channels, m \in Messages, e \in Emojis : createReaction(u, c, m, e)
  BY DEF Next, vars, apiVars, RegisterUser, currentAuthInformation, createUserChannel, getChannel,
         createMessage, getChannelMessage, Connect, HandOver, Disconnect, Identify, Unauthorized
<1> QED
  BY <1>1, <1>2, <1>3

LEMMA AllKeptAlways == Spec => []AllKept
BY InitAllKept, NextAllKept, TInvAlways, PTL DEF Spec

\* A message shows each emoji that was reacted with, once, with the number of
\* users whose reactions were accepted, and as theirs to those users and to no
\* other, however the requests interleave and repeat (fakediscord.go:337-364).
THEOREM ReactionsCountedAlways == Spec => []ReactionsCounted
<1>1. TInv /\ AllKept => ReactionsCounted
  <2> SUFFICES ASSUME TInv, AllKept, Shows PROVE ReactionsCounted
    BY DEF ReactionsCounted, Shows
  <2> DEFINE u == reply.who
             m == reply.msg
             shown(e) == [emoji |-> e, count |-> Cardinality(Reactors(m, e)), me |-> u \in Reactors(m, e)]
  <2>1. m \in Messages /\ reply.seen = SeenIn(reactions, u, m)
    BY Bounds DEF TInv, SeenNow, ReplyTypes, Messages
  <2>2. reply.seen = {shown(e) : e \in {f \in Emojis : Reactors(m, f) # {}}}
    BY <2>1 DEF SeenIn, AllKept
  <2>3. ASSUME NEW e \in Emojis, Reactors(m, e) # {} PROVE \E r \in reply.seen : r.emoji = e
    <3>1. shown(e) \in reply.seen /\ shown(e).emoji = e
      BY <2>2, <2>3
    <3> QED
      BY <3>1
  <2>4. ASSUME NEW r \in reply.seen
        PROVE  /\ Reactors(m, r.emoji) # {} /\ r.count = Cardinality(Reactors(m, r.emoji))
               /\ r.me <=> u \in Reactors(m, r.emoji)
    <3>1. PICK e \in Emojis : Reactors(m, e) # {} /\ r = shown(e)
      BY <2>2
    <3>2. r.emoji = e /\ r.count = Cardinality(Reactors(m, e)) /\ r.me = (u \in Reactors(m, e))
      BY <3>1
    <3> QED
      BY <3>1, <3>2
  <2> QED
    BY <2>3, <2>4 DEF ReactionsCounted
<1> QED
  BY TInvAlways, AllKeptAlways, <1>1, PTL

----------------------------------------------------------------------------
(* The events of a gateway *)

\* EventsExact is not inductive: a new message belongs after those that were
\* due because they were due when there were fewer messages, and a gateway
\* gets its user when its queue is empty.
Registration ==
    /\ \A m \in DOMAIN messages : messages[m] \in DOMAIN channels
    /\ \A g \in Gateways :
          /\ since[g] <= Len(messages) /\ until[g] <= Len(messages)
          /\ authUser[g] = nobody => handedOver[g] = <<>> /\ queue[g] = <<>>

\* The events q tell of the messages that are due, in order.
Exact(q, due) ==
    /\ ToSet(q) = due
    /\ \A i, j \in DOMAIN q : i < j => q[i] < q[j]

told(g) == handedOver[g] \o queue[g]

ExactAt(g) == authUser[g] # nobody => Exact(told(g), Due(g))

EInv == Registration /\ \A g \in Gateways : ExactAt(g)

LEMMA EventsExactParts == (\A g \in Gateways : ExactAt(g)) => EventsExact
BY Zenon DEF EventsExact, ExactAt, Exact, told

\* What is due is among the messages there are.
LEMMA DueNumbers ==
    ASSUME TInv, Registration, NEW g \in Gateways
    PROVE  /\ Len(messages) \in Nat /\ DOMAIN messages = 1..Len(messages)
           /\ since[g] \in Nat /\ LastSeen(g) \in 0..Len(messages)
           /\ \A m \in since[g]+1..LastSeen(g) :
                 m \in 1..Len(messages) /\ messages[m] \in DOMAIN channels
           /\ Due(g) \subseteq 1..Len(messages)
<1>1. Len(messages) \in Nat /\ DOMAIN messages = 1..Len(messages)
  BY LenProperties DEF TInv, ApiTypes
<1>2. since[g] \in Nat /\ until[g] \in Nat
  BY Bounds DEF TInv, GatewayTypes
<1>3. LastSeen(g) \in 0..Len(messages)
  BY <1>1, <1>2 DEF LastSeen, Registration
<1>4. \A m \in since[g]+1..LastSeen(g) : m \in 1..Len(messages) /\ messages[m] \in DOMAIN channels
  BY <1>1, <1>2, <1>3 DEF Registration
<1> QED
  BY <1>1, <1>2, <1>3, <1>4 DEF Due

\* A new message is the last.
LEMMA TellLast ==
    ASSUME NEW q \in Seq(Messages), NEW due, NEW n \in Messages, due \subseteq 1..(n - 1),
           Exact(q, due)
    PROVE  Exact(Append(q, n), due \cup {n})
<1> DEFINE a == Append(q, n)
<1>1. /\ DOMAIN a = DOMAIN q \cup {Len(q) + 1} /\ DOMAIN q = 1..Len(q) /\ Len(q) \in Nat
      /\ \A i \in DOMAIN q : a[i] = q[i]
      /\ a[Len(q) + 1] = n /\ Len(q) + 1 \notin DOMAIN q
  BY Appended, LenProperties
<1>2. ToSet(a) = ToSet(q) \cup {n}
  BY <1>1 DEF ToSet
<1>3. n \in Nat
  BY DEF Messages
<1>4. \A i \in DOMAIN q : q[i] \in due
  BY DEF ToSet, Exact
<1>5. \A i \in DOMAIN q : q[i] < n
  <2> SUFFICES ASSUME NEW i \in DOMAIN q PROVE q[i] < n
    OBVIOUS
  <2>1. q[i] \in 1..(n - 1)
    BY <1>4
  <2> QED
    BY <1>3, <2>1
<1>6. ASSUME NEW i \in DOMAIN a, NEW j \in DOMAIN a, i < j PROVE a[i] < a[j]
  BY <1>1, <1>5, <1>6 DEF Exact
<1>7. ToSet(a) = due \cup {n}
  BY <1>2 DEF Exact
<1> QED
  BY <1>6, <1>7 DEF Exact

LEMMA AppendToTold ==
    ASSUME NEW S, NEW s \in Seq(S), NEW t \in Seq(S), NEW e \in S
    PROVE  s \o Append(t, e) = Append(s \o t, e)
<1>1. Append(t, e) = t \o <<e>> /\ Append(s \o t, e) = (s \o t) \o <<e>>
  BY AppendIsConcat, ConcatProperties
<1>2. <<e>> \in Seq(S)
  OBVIOUS
<1> QED
  BY <1>1, <1>2, ConcatAssociative

LEMMA InitEInv == Init => EInv
BY LenProperties DEF Init, EInv, Registration, ExactAt

\* Channels are added and never change, so that what is due stays due.
LEMMA EventsKept ==
    ASSUME TInv, EInv, UNCHANGED <<messages, gwVars>>,
           \A c \in DOMAIN channels : c \in DOMAIN channels' /\ channels'[c] = channels[c]
    PROVE  EInv'
<1>1. Registration'
  BY DEF EInv, Registration, gwVars
<1>2. ASSUME NEW g \in Gateways PROVE Due(g)' = Due(g)
  <2>1. LastSeen(g)' = LastSeen(g) /\ since'[g] = since[g] /\ authUser'[g] = authUser[g]
    BY DEF LastSeen, gwVars
  <2>2. \A m \in since[g]+1..LastSeen(g) : messages[m] \in DOMAIN channels
    BY DueNumbers DEF EInv
  <2> QED
    BY <2>1, <2>2 DEF Due, hasRecipient
<1>3. \A g \in Gateways : told(g)' = told(g)
  BY DEF told, gwVars
<1>4. ASSUME NEW g \in Gateways PROVE ExactAt(g)'
  <2>1. ExactAt(g) /\ authUser' = authUser
    BY DEF EInv, gwVars
  <2> QED
    BY <1>2, <1>3, <2>1 DEF ExactAt
<1> QED
  BY <1>1, <1>4 DEF EInv

LEMMA EventsCreateMessage ==
    ASSUME Inv, TInv, EInv, NEW u \in Callers, NEW c \in Channels, createMessage(u, c)
    PROVE  EInv'
<1>1. CASE UNCHANGED <<apiVars, gwVars>>
  BY <1>1, EventsKept DEF apiVars
<1>2. CASE /\ Member(c, u) /\ messages' = Append(messages, c) /\ Len(messages) < MaxMessages
           /\ queue' = [g \in Gateways |->
                           IF Told(g, c) THEN Append(queue[g], Len(messages')) ELSE queue[g]]
           /\ UNCHANGED <<users, channels, reactions, reacted, gateways, authUser, since, until, handedOver>>
  <2> DEFINE n == Len(messages) + 1
  <2>1. messages \in Seq(Channels)
    BY DEF TInv, ApiTypes
  <2>2. /\ DOMAIN messages' = DOMAIN messages \cup {n} /\ Len(messages') = n
        /\ \A m \in DOMAIN messages : messages'[m] = messages[m]
        /\ messages'[n] = c /\ n \notin DOMAIN messages /\ Len(messages) \in Nat
    BY <1>2, <2>1, Appended, AppendProperties, LenProperties
  <2>3. n \in Messages /\ n \in Nat
    BY <1>2, <2>2, Bounds DEF Messages
  <2> HIDE DEF n
  <2>4. Registration'
    <3>1. ASSUME NEW m \in DOMAIN messages' PROVE messages'[m] \in DOMAIN channels'
      BY <1>2, <2>2 DEF EInv, Registration, Member
    <3>2. ASSUME NEW g \in Gateways
          PROVE  /\ since'[g] <= Len(messages') /\ until'[g] <= Len(messages')
                 /\ authUser'[g] = nobody => handedOver'[g] = <<>> /\ queue'[g] = <<>>
      <4>1. /\ since[g] \in Nat /\ since[g] <= Len(messages)
            /\ until[g] \in Nat /\ until[g] <= Len(messages)
        BY Bounds DEF EInv, Registration, TInv, GatewayTypes
      <4>2. since'[g] <= Len(messages') /\ until'[g] <= Len(messages')
        BY <1>2, <2>2, <4>1 DEF n
      <4>3. authUser[g] = nobody => ~Told(g, c)
        BY DEF Told
      <4> QED
        BY <1>2, <4>2, <4>3 DEF EInv, Registration
    <3> QED
      BY <3>1, <3>2 DEF Registration
  <2>5. ASSUME NEW g \in Gateways PROVE ExactAt(g)'
    <3> SUFFICES ASSUME authUser[g] # nobody PROVE Exact(told(g)', Due(g)')
      BY <1>2 DEF ExactAt
    <3>1. Exact(told(g), Due(g))
      BY DEF EInv, ExactAt
    <3>2. /\ Due(g) \subseteq 1..Len(messages) /\ LastSeen(g) \in 0..Len(messages) /\ since[g] \in Nat
          /\ DOMAIN messages = 1..Len(messages)
          /\ \A m \in since[g]+1..LastSeen(g) : m \in 1..Len(messages)
          /\ since[g] <= Len(messages)
      BY DueNumbers DEF EInv, Registration
    <3>3. \A m \in 1..Len(messages) :
             authUser'[g] \in ToSet(channels'[messages'[m]]) <=> authUser[g] \in ToSet(channels[messages[m]])
      BY <1>2, <2>2, <3>2
    <3>4. CASE Told(g, c)
      <4>1. queue'[g] = Append(queue[g], n) /\ g \in gateways /\ hasRecipient(c, authUser[g])
        BY <1>2, <2>2, <3>4 DEF Told
      <4>2. Due(g)' = Due(g) \cup {n}
        <5>1. LastSeen(g) = Len(messages) /\ LastSeen(g)' = n /\ since'[g] = since[g]
              /\ authUser'[g] = authUser[g]
          BY <1>2, <2>2, <4>1 DEF LastSeen
        <5>2. authUser'[g] \in ToSet(channels'[messages'[n]])
          BY <1>2, <2>2, <4>1 DEF hasRecipient
        <5>3. since[g]+1..n = (since[g]+1..Len(messages)) \cup {n}
          BY <2>2, <3>2 DEF n
        <5> QED
          BY <3>2, <3>3, <5>1, <5>2, <5>3 DEF Due, hasRecipient
      <4>3. handedOver[g] \in Seq(Messages) /\ queue[g] \in Seq(Messages) /\ told(g) \in Seq(Messages)
        BY ConcatProperties DEF TInv, GatewayTypes, told
      <4>4. handedOver[g] \o Append(queue[g], n) = Append(handedOver[g] \o queue[g], n)
        <5> DEFINE h == handedOver[g]
                   q == queue[g]
        <5>1. h \in Seq(Messages) /\ q \in Seq(Messages)
          BY <4>3
        <5> HIDE DEF h, q
        <5>2. h \o Append(q, n) = Append(h \o q, n)
          BY <2>3, <5>1, AppendToTold
        <5> QED
          BY <5>2 DEF h, q
      <4>5. told(g)' = Append(told(g), n)
        BY <1>2, <4>1, <4>4 DEF told
      <4>6. Exact(Append(told(g), n), Due(g) \cup {n})
        <5>1. Due(g) \subseteq 1..(n - 1)
          BY <2>2, <3>2 DEF n
        <5> QED
          BY <2>3, <3>1, <4>3, <5>1, TellLast
      <4> QED
        BY <4>2, <4>5, <4>6
    <3>5. CASE ~Told(g, c)
      <4>1. told(g)' = told(g)
        BY <1>2, <3>5 DEF told
      <4>2. CASE g \notin gateways
        <5>1. LastSeen(g)' = LastSeen(g) /\ since'[g] = since[g] /\ authUser'[g] = authUser[g]
          BY <1>2, <4>2 DEF LastSeen
        <5>2. Due(g)' = Due(g)
          BY <3>2, <3>3, <5>1 DEF Due, hasRecipient
        <5> QED
          BY <3>1, <4>1, <5>2
      <4>3. CASE g \in gateways /\ ~hasRecipient(c, authUser[g])
        <5>1. LastSeen(g) = Len(messages) /\ LastSeen(g)' = n /\ since'[g] = since[g]
              /\ authUser'[g] = authUser[g]
          BY <1>2, <2>2, <4>3 DEF LastSeen
        <5>2. authUser'[g] \notin ToSet(channels'[messages'[n]])
          BY <1>2, <2>2, <4>3 DEF hasRecipient
        <5>3. since[g]+1..n = (since[g]+1..Len(messages)) \cup {n}
          BY <2>2, <3>2 DEF n
        <5>4. Due(g)' = Due(g)
          BY <3>2, <3>3, <5>1, <5>2, <5>3 DEF Due, hasRecipient
        <5> QED
          BY <3>1, <4>1, <5>4
      <4> QED
        BY <3>5, <4>2, <4>3 DEF Told
    <3> QED
      BY <3>4, <3>5
  <2> QED
    BY <2>4, <2>5 DEF EInv
<1> QED
  BY <1>1, <1>2 DEF createMessage, Unauthorized

LEMMA EventsIdentify ==
    ASSUME TInv, EInv, NEW g \in Gateways, NEW u \in Users, Identify(g, u)
    PROVE  EInv'
<1>1. /\ authUser[g] = nobody /\ authUser' = [authUser EXCEPT ![g] = u] /\ g \in gateways
      /\ since' = [since EXCEPT ![g] = Len(messages)] /\ Len(messages) \in Nat
      /\ UNCHANGED <<channels, messages, gateways, queue, until, handedOver>>
  BY DueNumbers DEF Identify, apiVars, EInv
<1>2. authUser \in [Gateways -> Callers] /\ since \in [Gateways -> 0..MaxMessages]
  BY DEF TInv, GatewayTypes
<1>3. handedOver[g] = <<>> /\ queue[g] = <<>> /\ u # nobody
  BY <1>1, Bounds DEF EInv, Registration
<1>4. Registration'
  BY <1>1, <1>2, <1>3 DEF EInv, Registration
<1>5. ASSUME NEW h \in Gateways PROVE ExactAt(h)'
  <2>1. CASE h # g
    <3>1. authUser'[h] = authUser[h] /\ since'[h] = since[h] /\ LastSeen(h)' = LastSeen(h)
      BY <1>1, <1>2, <2>1 DEF LastSeen
    <3>2. Due(h)' = Due(h) /\ told(h)' = told(h)
      BY <1>1, <3>1 DEF Due, told, hasRecipient
    <3> QED
      BY <3>1, <3>2 DEF EInv, ExactAt
  <2>2. CASE h = g
    <3>1. since'[g] = Len(messages) /\ LastSeen(g)' = Len(messages)
      BY <1>1, <1>2 DEF LastSeen
    <3>2. Due(g)' = {}
      <4>1. Len(messages)+1..Len(messages) = {}
        BY <1>1
      <4> QED
        BY <3>1, <4>1 DEF Due
    <3>3. told(g)' = <<>> /\ ToSet(<<>>) = {} /\ DOMAIN <<>> = {}
      BY <1>1, <1>3 DEF told, ToSet
    <3>4. Exact(<<>>, {})
      BY <3>3 DEF Exact
    <3> QED
      BY <2>2, <3>2, <3>3, <3>4 DEF ExactAt
  <2> QED
    BY <2>1, <2>2
<1> QED
  BY <1>4, <1>5 DEF EInv

\* Nothing that was told is told again, or forgotten.
LEMMA EventsGateway ==
    ASSUME TInv, EInv, NEW g \in Gateways, Connect(g) \/ HandOver(g) \/ Disconnect(g)
    PROVE  EInv'
<1>1. UNCHANGED <<channels, messages, authUser, since>> /\ Len(messages) \in Nat
  BY DueNumbers DEF Connect, HandOver, Disconnect, apiVars, EInv
<1>2. until \in [Gateways -> 0..MaxMessages]
  BY DEF TInv, GatewayTypes
<1>3. ASSUME NEW h \in Gateways
      PROVE  /\ told(h)' = told(h)
             /\ handedOver[h] = <<>> /\ queue[h] = <<>> => handedOver'[h] = <<>> /\ queue'[h] = <<>>
  <2>1. CASE UNCHANGED <<queue, handedOver>>
    BY <2>1 DEF told
  <2>2. CASE HandOver(g) /\ h # g
    <3>1. queue'[h] = queue[h] /\ handedOver'[h] = handedOver[h]
      BY <2>2 DEF HandOver, TInv, GatewayTypes
    <3> QED
      BY <3>1 DEF told
  <2>3. CASE HandOver(g) /\ h = g
    <3>1. queue[g] \in Seq(Messages) /\ handedOver[g] \in Seq(Messages) /\ queue[g] # <<>>
      BY <2>3 DEF HandOver, TInv, GatewayTypes
    <3>2. queue'[g] = <<>> /\ handedOver'[g] = handedOver[g] \o queue[g]
      BY <2>3 DEF HandOver, TInv, GatewayTypes
    <3>3. (handedOver[g] \o queue[g]) \o <<>> = handedOver[g] \o queue[g]
      BY <3>1, ConcatProperties, ConcatEmptySeq
    <3> QED
      BY <2>3, <3>1, <3>2, <3>3 DEF told
  <2> QED
    BY <2>1, <2>2, <2>3 DEF Connect, Disconnect
<1>4. ASSUME NEW h \in Gateways PROVE until'[h] <= Len(messages)
  <2>1. until[h] <= Len(messages)
    BY DEF EInv, Registration
  <2>2. CASE Disconnect(g)
    BY <1>1, <1>2, <2>1, <2>2 DEF Disconnect
  <2>3. CASE UNCHANGED until
    BY <2>1, <2>3
  <2> QED
    BY <2>2, <2>3 DEF Connect, HandOver
<1>5. Registration'
  BY <1>1, <1>3, <1>4 DEF EInv, Registration
<1>6. ASSUME NEW h \in Gateways, authUser[h] # nobody PROVE LastSeen(h)' = LastSeen(h)
  <2>1. CASE Connect(g)
    BY <1>6, <2>1 DEF Connect, apiVars, LastSeen
  <2>2. CASE HandOver(g)
    BY <2>2 DEF HandOver, apiVars, LastSeen
  <2>3. CASE Disconnect(g) /\ h = g
    BY <1>2, <2>3 DEF Disconnect, apiVars, LastSeen
  <2>4. CASE Disconnect(g) /\ h # g
    BY <1>2, <2>4 DEF Disconnect, apiVars, LastSeen
  <2> QED
    BY <2>1, <2>2, <2>3, <2>4
<1>7. ASSUME NEW h \in Gateways PROVE ExactAt(h)'
  <2> SUFFICES ASSUME authUser[h] # nobody PROVE Exact(told(h)', Due(h)')
    BY <1>1 DEF ExactAt
  <2>1. Due(h)' = Due(h)
    BY <1>1, <1>6 DEF Due, hasRecipient
  <2> QED
    BY <1>3, <2>1 DEF EInv, ExactAt
<1> QED
  BY <1>5, <1>7 DEF EInv

LEMMA NextEInv == Inv /\ TInv /\ EInv /\ [Next]_vars => EInv'
<1> SUFFICES ASSUME Inv, TInv, EInv, [Next]_vars PROVE EInv'
  OBVIOUS
<1>1. CASE UNCHANGED <<channels, messages, gwVars>>
  BY <1>1, EventsKept
<1>2. ASSUME NEW u \in Callers, NEW to \in Callers, createUserChannel(u, to) PROVE EInv'
  <2>1. UNCHANGED <<messages, gwVars>>
    BY <1>2 DEF createUserChannel, Unauthorized, apiVars
  <2>2. CASE UNCHANGED channels
    BY <2>1, <2>2, EventsKept
  <2>3. CASE Known(u) /\ Known(to) /\ NewDM(u, to)
    <3>1. <<u, to>> \in Seq(Users) /\ channels \in Seq(Seq(Users))
      BY <2>3 DEF Known, TInv, ApiTypes
    <3>2. \A c \in DOMAIN channels : c \in DOMAIN channels' /\ channels'[c] = channels[c]
      BY <2>3, <3>1, Appended DEF NewDM
    <3> QED
      BY <2>1, <3>2, EventsKept
  <2> QED
    BY <1>2, <2>2, <2>3 DEF createUserChannel, Unauthorized, ExistingDM, apiVars
<1>3. ASSUME NEW g \in Gateways, NEW u \in Users, Identify(g, u) PROVE EInv'
  BY <1>3, EventsIdentify
<1>4. ASSUME NEW g \in Gateways, Connect(g) \/ HandOver(g) \/ Disconnect(g) PROVE EInv'
  BY <1>4, EventsGateway
<1>5. ASSUME NEW u \in Callers, NEW c \in Channels, createMessage(u, c) PROVE EInv'
  BY <1>5, EventsCreateMessage
<1>6. ASSUME NEW u \in Users, RegisterUser(u) PROVE EInv'
  BY <1>1, <1>6 DEF RegisterUser
<1>7. ASSUME NEW u \in Callers, NEW c \in Channels, getChannel(u, c) PROVE EInv'
  BY <1>1, <1>7 DEF getChannel, Unauthorized, apiVars
<1>8. ASSUME NEW u \in Callers, currentAuthInformation(u) PROVE EInv'
  BY <1>1, <1>8 DEF currentAuthInformation, Unauthorized, apiVars
<1>9. ASSUME NEW u \in Callers, NEW c \in Channels, NEW m \in Messages, getChannelMessage(u, c, m)
      PROVE  EInv'
  BY <1>1, <1>9 DEF getChannelMessage, Unauthorized, apiVars
<1>10. ASSUME NEW u \in Callers, NEW c \in Channels, NEW m \in Messages, NEW e \in Emojis,
              createReaction(u, c, m, e)
       PROVE  EInv'
  BY <1>1, <1>10 DEF createReaction, Unauthorized, apiVars
<1>11. CASE UNCHANGED vars
  BY <1>1, <1>11 DEF vars, apiVars
<1> QED
  BY <1>2, <1>3, <1>4, <1>5, <1>6, <1>7, <1>8, <1>9, <1>10, <1>11 DEF Next

\* However websockets come and go between the messages, each user's websocket
\* gets an event for every message of the user's channels while it is
\* registered, once, in order, and no other (fakediscord.go:298-308).
THEOREM EventsExactAlways == Spec => []EventsExact
<1>1. EInv => EventsExact
  BY EventsExactParts DEF EInv
<1> QED
  BY InitEInv, NextEInv, InvAlways, TInvAlways, <1>1, PTL DEF Spec
==============================================================================
