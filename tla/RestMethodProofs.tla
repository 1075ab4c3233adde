-------------------------- MODULE RestMethodProofs ---------------------------
(***************************************************************************)
(* Theorems about RestMethod, for every maximum size, every body and every *)
(* number of throttled attempts. That what a method returns can be trusted *)
(* rests on the invariant of ReadBody, which the exchanges do not disturb, *)
(* and on books: who holds a body, and how often the service has acted.    *)
(***************************************************************************)
EXTENDS RestMethod, TLAPS

(***************************************************************************)
(* Proofs about ReadBody, for every first buffer, every maximum size and   *)
(* every body. IInv adds to the type what the loop keeps between its turns:*)
(* while the call reads, the buffer holds no more than the maximum, and    *)
(* whatever was read is part of the body.                                  *)
(***************************************************************************)
IInv ==
    /\ maxSize \in Nat /\ body \in Nat /\ contentLength \in Int
    /\ contentLength \in {-1, body}
    /\ len \in Nat /\ cap \in Nat
    /\ len <= cap /\ 1 <= cap /\ cap <= maxSize + 1
    /\ len <= body
    /\ result = "none" => len <= maxSize
    /\ ExactVerdict

USE ReadBodyAssumption

LEMMA InitIInv == Init => IInv
  BY DEF Init, IInv, ExactVerdict, firstCap

\* A turn of the loop keeps IInv: the new capacity lies above a full buffer
\* that holds at most the maximum.
LEMMA ReadIInv == IInv /\ Read => IInv'
  <1> SUFFICES ASSUME IInv, Read PROVE IInv'
    OBVIOUS
  <1>1. cap' \in Nat /\ len <= cap' /\ 1 <= cap' /\ cap' <= maxSize + 1
    BY DEF IInv, Read, newCap, Min2
  <1>2. PICK n \in 0..body :
          /\ len + n <= body /\ len + n <= cap' /\ len' = len + n
          /\ \/ overflows(len') /\ result' = "tooLarge"
             \/ ~overflows(len') /\ intact /\ len' = body /\ result' = "ok"
             \/ ~overflows(len') /\ ~intact /\ result' = "failed"
             \/ ~overflows(len') /\ n > 0 /\ result' = "none"
    BY DEF Read
  <1>3. len' \in Nat /\ len' <= cap' /\ len' <= body
    BY <1>1, <1>2 DEF IInv
  <1>4. UNCHANGED <<maxSize, contentLength, body>>
    BY DEF Read
  <1>5. result' = "none" => len' <= maxSize
    BY <1>2, <1>3 DEF IInv, overflows
  <1>6. ExactVerdict'
    BY <1>2, <1>3, <1>4 DEF IInv, ExactVerdict, overflows
  <1> QED
    BY <1>1, <1>3, <1>4, <1>5, <1>6 DEF IInv

LEMMA StepIInv == IInv /\ [Next]_vars => IInv'
  <1> SUFFICES ASSUME IInv, [Next]_vars PROVE IInv'
    OBVIOUS
  <1>1. CASE Refuse
    BY <1>1 DEF IInv, Refuse, ExactVerdict
  <1>2. CASE Read
    BY <1>2, ReadIInv
  <1>3. CASE ConnectionFails
    BY <1>3 DEF IInv, ConnectionFails, ExactVerdict
  <1>4. CASE UNCHANGED vars
    BY <1>4 DEF IInv, vars, ExactVerdict
  <1> QED
    BY <1>1, <1>2, <1>3, <1>4 DEF Next

\* The part of the type that does not depend on the loop.
Fixed ==
    /\ maxSize \in MaxSizes /\ contentLength \in -1..MaxBody /\ body \in 0..MaxBody
    /\ result \in {"none", "ok", "tooLarge", "failed"} /\ intact \in BOOLEAN

\* Type correctness: the buffer is never longer than the maximum and one byte
\* (discord.go:887-920).
THEOREM TypeCorrect == Spec => []TypeOK
  <1>1. Init => Fixed
    BY DEF Init, Fixed
  <1>2. Fixed /\ [Next]_vars => Fixed'
    BY DEF Fixed, Next, Refuse, Read, ConnectionFails, vars
  <1>3. IInv => len \in 0..(maxSize + 1) /\ cap \in 0..(maxSize + 1)
    BY DEF IInv
  <1>4. IInv /\ Fixed => TypeOK
    BY <1>3 DEF Fixed, TypeOK
  <1> QED
    BY InitIInv, StepIInv, <1>1, <1>2, <1>4, PTL DEF Spec

\* A successful call has read the whole body, which fits, and a body called too
\* large is (discord.go:887-920), for all sizes.
THEOREM ExactVerdictAlways == Spec => []ExactVerdict
  <1>1. IInv => ExactVerdict
    BY DEF IInv
  <1> QED
    BY InitIInv, StepIInv, <1>1, PTL DEF Spec

\* The buffer keeps to the maximum and one byte, and no Read is called without
\* room (discord.go:897-909), for all sizes.
THEOREM BoundedAlways == Spec => []Bounded
  <1>1. IInv => Bounded
    BY DEF IInv, Bounded, newCap, Min2
  <1> QED
    BY InitIInv, StepIInv, <1>1, PTL DEF Spec

----------------------------------------------------------------------------
(* A method call *)

\* Of the reading: a body is given up on only when the connection has failed, and
\* whole only when it has not.
Reading ==
    /\ IInv /\ Fixed
    /\ result = "failed" => intact = FALSE
    /\ result = "ok" => intact = TRUE

Before == {"encode", "send", "flight"}

Books ==
    /\ throttled \in 0..MaxThrottled /\ acted \in Nat /\ open \in Nat
    /\ pc \in {"received", "read"} => open = throttled + 1
    /\ pc \notin {"received", "read"} => open = throttled
    /\ pc \in Before => acted = 0
    /\ pc \in {"answered", "received", "read"} /\ answer.status = "ok" => acted = 1
    /\ pc \in {"answered", "received", "read"} /\ answer.status # "ok" => acted = 0
    /\ pc \in {"answered", "received"} /\ answer.status = "429" => throttled < MaxThrottled
    /\ pc = "read" => \/ /\ answer.status = "ok" /\ method.reads
                         /\ method.checks => answer.json
                      \/ answer.status = "error" /\ answer.json

Types ==
    /\ method \in Methods /\ answer \in Answers
    /\ pc \in {"encode", "send", "flight", "answered", "received", "read", "returned"}
    /\ verdict \in {"none", "unanswered", "value", "nothing", "error", "http", "discord"}
    /\ (pc = "returned") = (verdict # "none")

MInv == Reading /\ Books /\ Types /\ HonestVerdict

----------------------------------------------------------------------------
(* The reading *)

LEMMA InitReading == MethodInit => Reading
<1>1. MethodInit => Init
  BY DEF MethodInit
<1>2. Init => Fixed /\ result = "none"
  BY ReadBodyAssumption DEF Init, Fixed
<1> QED
  BY <1>1, <1>2, InitIInv DEF Reading

LEMMA NextReading == Reading /\ [MethodNext]_allVars => Reading'
<1> SUFFICES ASSUME Reading, [MethodNext]_allVars PROVE Reading'
  OBVIOUS
<1>1. CASE ReadBodyStep
  <2>1. IInv'
    BY <1>1, StepIInv DEF ReadBodyStep, Reading
  <2>2. /\ Fixed'
        /\ result' = "failed" => intact' = FALSE
        /\ result' = "ok" => intact' = TRUE
    BY <1>1 DEF ReadBodyStep, Next, Refuse, Read, ConnectionFails, Fixed, Reading
  <2> QED
    BY <2>1, <2>2 DEF Reading
<1>2. ASSUME UNCHANGED readVars PROVE Reading'
  BY <1>2 DEF readVars, Reading, IInv, Fixed, ExactVerdict
<1>3. CASE Client
  BY <1>2, <1>3 DEF Client, Encode, Send, Receive, Retry, Unread, ReadsBody, BodyRead
<1>4. CASE ExchangeFails
  BY <1>2, <1>4 DEF ExchangeFails
<1>5. CASE Service
  BY <1>2, <1>5 DEF Service, ServeHTTP, DiscordAnswers, DiscordThrottles, writeErrorResponse,
                    writeTo, Answer
<1>6. CASE UNCHANGED allVars
  BY <1>2, <1>6 DEF allVars
<1> QED
  BY <1>1, <1>3, <1>4, <1>5, <1>6 DEF MethodNext

----------------------------------------------------------------------------
(* Books, types and what is returned *)

LEMMA InitMethod == MethodInit => Books /\ Types /\ HonestVerdict
BY MethodAssumption
DEF MethodInit, Books, Types, HonestVerdict, Before, Answers

LEMMA MethodFlags ==
    \A m \in Methods : m.reads \in BOOLEAN /\ (m.checks => m.reads = TRUE)
<1>1. ASSUME NEW m \in Methods
      PROVE  \E s, r, c, f \in BOOLEAN : (c = FALSE \/ r = TRUE) /\ m = Method(s, r, c, f)
  <2> USE DEF Methods
  <2>1. m \in {ListGlobalApplicationCommands, GetUser, GetChannel, GetMessage, CurrentAuthorization}
        => \E f \in BOOLEAN : m = Method(FALSE, TRUE, FALSE, f)
    BY DEF ListGlobalApplicationCommands, GetUser, GetChannel, GetMessage, CurrentAuthorization
  <2>2. m \in {CreateGlobalApplicationCommand, EditWebhookMessage, CreateDM, CreateMessage, EditMessage}
        => \E f \in BOOLEAN : m = Method(TRUE, TRUE, FALSE, f)
    BY DEF CreateGlobalApplicationCommand, EditWebhookMessage, CreateDM, CreateMessage, EditMessage
  <2>3. m = CreateInteractionResponse => m = Method(TRUE, FALSE, FALSE, FALSE)
    BY DEF CreateInteractionResponse
  <2>4. m = CreateReaction => m = Method(FALSE, FALSE, FALSE, TRUE)
    BY DEF CreateReaction
  <2>5. m = OpenGateway => m = Method(FALSE, TRUE, TRUE, TRUE)
    BY DEF OpenGateway
  <2>6. /\ \/ m \in {ListGlobalApplicationCommands, GetUser, GetChannel, GetMessage, CurrentAuthorization}
           \/ m \in {CreateGlobalApplicationCommand, EditWebhookMessage, CreateDM, CreateMessage,
                    EditMessage}
           \/ m = CreateInteractionResponse \/ m = CreateReaction \/ m = OpenGateway
        /\ TRUE \in BOOLEAN /\ FALSE \in BOOLEAN
    OBVIOUS
  <2> HIDE DEF Methods
  <2> QED
    BY <2>1, <2>2, <2>3, <2>4, <2>5, <2>6, Zenon
<1>2. ASSUME NEW s, NEW r \in BOOLEAN, NEW c, NEW f, c = FALSE \/ r = TRUE
      PROVE  LET m == Method(s, r, c, f) IN m.reads \in BOOLEAN /\ (m.checks => m.reads = TRUE)
  BY <1>2 DEF Method
<1>3. ASSUME NEW m \in Methods
      PROVE  m.reads \in BOOLEAN /\ (m.checks => m.reads = TRUE)
  <2>1. PICK s, r, c, f \in BOOLEAN : (c = FALSE \/ r = TRUE) /\ m = Method(s, r, c, f)
    BY <1>1
  <2> QED
    BY <1>2, <2>1
<1> QED
  BY <1>3

\* The answers of the services are answers, and count as acts if they are 2xx.
LEMMA ServiceAnswers ==
    ASSUME Service, method \in Methods
    PROVE  /\ pc = "flight" /\ pc' = "answered" /\ answer' \in Answers
           /\ UNCHANGED <<readVars, method, throttled, open, verdict>>
           /\ answer'.status = "ok" => acted' = acted + 1
           /\ answer'.status # "ok" => acted' = acted
           /\ answer'.status = "429" => throttled < MaxThrottled
<1>1. ASSUME NEW s \in {"ok", "429", "error"}, NEW j \in BOOLEAN, NEW p \in BOOLEAN, Answer(s, j, p)
      PROVE  /\ pc' = "answered" /\ answer' \in Answers /\ answer'.status = s
             /\ UNCHANGED <<readVars, method, throttled, open, verdict>>
  BY <1>1 DEF Answer, Answers
<1>2. CASE ServeHTTP
  <2>1. CASE Answer("error", FALSE, FALSE) /\ acted' = acted
    BY <1>1, <1>2, <2>1 DEF ServeHTTP
  <2>2. CASE writeErrorResponse
    BY <1>1, <1>2, <2>2 DEF ServeHTTP, writeErrorResponse
  <2>3. CASE writeTo
    <3>1. method.reads \in BOOLEAN
      BY MethodFlags
    <3>2. Answer("ok", TRUE, method.reads) /\ acted' = acted + 1
      BY <2>3 DEF writeTo
    <3> QED
      BY <1>1, <1>2, <3>1, <3>2 DEF ServeHTTP
  <2> QED
    BY <1>2, <2>1, <2>2, <2>3 DEF ServeHTTP
<1>3. CASE DiscordAnswers
  BY <1>1, <1>3 DEF DiscordAnswers
<1>4. CASE DiscordThrottles
  BY <1>1, <1>4 DEF DiscordThrottles
<1> QED
  BY <1>2, <1>3, <1>4 DEF Service

LEMMA NextMethod ==
    ASSUME MInv, [MethodNext]_allVars
    PROVE  Books' /\ Types' /\ HonestVerdict'
<1> USE MethodAssumption DEF MInv, Books, Types, Before
<1>1. pc # "returned" => verdict = "none"
  OBVIOUS
<1>a. method.reads \in BOOLEAN /\ answer.json \in BOOLEAN /\ answer.parses \in BOOLEAN
  BY MethodFlags DEF Answers
<1>2. ASSUME pc' # "returned", verdict' = verdict, pc # "returned" PROVE HonestVerdict'
  BY <1>1, <1>2 DEF HonestVerdict
<1>3. CASE Encode
  <2>1. Books' /\ Types'
    BY <1>1, <1>3 DEF Encode, ReturnsWith
  <2>2. HonestVerdict'
    BY <1>1, <1>2, <1>3 DEF Encode, ReturnsWith, HonestVerdict
  <2> QED
    BY <2>1, <2>2
<1>4. CASE Send
  <2>1. Books' /\ Types'
    BY <1>1, <1>4 DEF Send
  <2>2. HonestVerdict'
    BY <1>2, <1>4 DEF Send
  <2> QED
    BY <2>1, <2>2
<1>5. CASE ExchangeFails
  <2>1. Books' /\ Types'
    BY <1>1, <1>5 DEF ExchangeFails, ReturnsWith
  <2>2. HonestVerdict'
    BY <1>5 DEF ExchangeFails, ReturnsWith, HonestVerdict
  <2> QED
    BY <2>1, <2>2
<1>6. CASE Service
  <2>1. /\ pc = "flight" /\ pc' = "answered" /\ answer' \in Answers
        /\ UNCHANGED <<readVars, method, throttled, open, verdict>>
        /\ answer'.status = "ok" => acted' = acted + 1
        /\ answer'.status # "ok" => acted' = acted
        /\ answer'.status = "429" => throttled < MaxThrottled
    BY <1>6, ServiceAnswers
  <2>2. Books' /\ Types'
    BY <1>1, <2>1
  <2>3. HonestVerdict'
    BY <1>2, <2>1
  <2> QED
    BY <2>2, <2>3
<1>7. CASE Receive
  <2>1. Books' /\ Types'
    BY <1>1, <1>7 DEF Receive
  <2>2. HonestVerdict'
    BY <1>2, <1>7 DEF Receive
  <2> QED
    BY <2>1, <2>2
<1>8. CASE Retry
  <2>1. Books' /\ Types'
    BY <1>1, <1>8 DEF Retry
  <2>2. HonestVerdict'
    BY <1>2, <1>8 DEF Retry
  <2> QED
    BY <2>1, <2>2
<1>9. CASE Unread
  <2>1. Books' /\ Types'
    BY <1>1, <1>9 DEF Unread, ReturnsWith
  <2>2. HonestVerdict'
    <3>1. UNCHANGED <<readVars, method, answer, acted>> /\ answer.status \in {"ok", "error"}
      BY <1>9 DEF Unread
    <3>2. CASE answer.status = "ok" /\ method.reads = FALSE
      <4>1. verdict' = "nothing"
        BY <1>9, <3>2, MethodFlags DEF Unread, ReturnsWith
      <4>2. acted = 1
        BY <1>9, <3>2 DEF Unread
      <4> HIDE DEF MInv, Types, Books
      <4> QED
        BY <3>1, <3>2, <4>1, <4>2 DEF HonestVerdict, readVars
    <3>3. CASE answer.status = "ok" /\ method.reads = TRUE
      <4>1. verdict' = "error" /\ ~(method.checks => answer.json = TRUE)
        BY <1>9, <1>a, <3>3 DEF Unread, ReturnsWith
      <4> HIDE DEF MInv, Types, Books
      <4> QED
        BY <3>1, <3>3, <4>1 DEF HonestVerdict, readVars
    <3>4. CASE answer.status = "error"
      <4>1. verdict' = "http" /\ answer.json = FALSE
        BY <1>9, <1>a, <3>4 DEF Unread, ReturnsWith
      <4> HIDE DEF MInv, Types, Books
      <4> QED
        BY <3>1, <3>4, <4>1 DEF HonestVerdict, readVars
    <3> QED
      BY <1>a, <3>1, <3>2, <3>3, <3>4
  <2> QED
    BY <2>1, <2>2
<1>10. CASE ReadsBody
  <2>1. Books' /\ Types'
    BY <1>1, <1>10 DEF ReadsBody
  <2>2. HonestVerdict'
    BY <1>2, <1>10 DEF ReadsBody
  <2> QED
    BY <2>1, <2>2
<1>11. CASE BodyRead
  <2>1. Books' /\ Types'
    BY <1>1, <1>11 DEF BodyRead, ReturnsWith
  <2>2. result = "ok" => len = body
    BY DEF Reading, IInv, ExactVerdict
  <2>3. (result = "ok") <=> (intact = TRUE /\ body <= maxSize)
    BY <1>11 DEF BodyRead, Reading, IInv, Fixed, ExactVerdict
  <2>4. ASSUME answer.status = "ok" PROVE HonestVerdict'
    <3>1. method.reads = TRUE /\ (method.checks => answer.json = TRUE)
      BY <1>11, <2>4, MethodFlags DEF BodyRead
    <3>2. verdict' = IF result = "ok" /\ answer.parses = TRUE THEN "value" ELSE "error"
      BY <1>11, <2>4, <1>a DEF BodyRead, ReturnsWith
    <3>3. UNCHANGED <<readVars, method, answer, acted>> /\ acted = 1
      BY <1>11, <2>4 DEF BodyRead
    <3> HIDE DEF MInv, Types, Books
    <3>4. CASE result = "ok" /\ answer.parses = TRUE
      <4>1. verdict' = "value" /\ intact = TRUE /\ body <= maxSize /\ len = body
        BY <2>2, <2>3, <3>2, <3>4
      <4> QED
        BY <2>4, <3>1, <3>3, <3>4, <4>1 DEF HonestVerdict, readVars
    <3>5. CASE ~(result = "ok" /\ answer.parses = TRUE)
      <4>1. verdict' = "error" /\ ~(intact = TRUE /\ body <= maxSize /\ answer.parses = TRUE)
        BY <2>2, <2>3, <3>2, <3>5
      <4> QED
        BY <2>4, <3>1, <3>3, <4>1 DEF HonestVerdict, readVars
    <3> QED
      BY <3>4, <3>5
  <2>5. ASSUME answer.status = "error" PROVE HonestVerdict'
    <3>1. answer.json = TRUE
      BY <1>11, <2>5 DEF BodyRead, Answers
    <3>2. verdict' = IF result = "ok" /\ answer.parses = TRUE THEN "discord" ELSE "http"
      BY <1>11, <2>5, <1>a DEF BodyRead, ReturnsWith
    <3>3. UNCHANGED <<readVars, method, answer, acted>>
      BY <1>11, <2>5 DEF BodyRead
    <3> HIDE DEF MInv, Types, Books
    <3>4. CASE result = "ok" /\ answer.parses = TRUE
      <4>1. verdict' = "discord" /\ intact = TRUE /\ body <= maxSize /\ len = body
        BY <2>2, <2>3, <3>2, <3>4
      <4> QED
        BY <2>5, <3>1, <3>3, <3>4, <4>1 DEF HonestVerdict, readVars
    <3>5. CASE ~(result = "ok" /\ answer.parses = TRUE)
      <4>1. verdict' = "http" /\ ~(intact = TRUE /\ body <= maxSize /\ answer.parses = TRUE)
        BY <2>2, <2>3, <3>2, <3>5
      <4> QED
        BY <2>5, <3>1, <3>3, <4>1 DEF HonestVerdict, readVars
    <3> QED
      BY <3>4, <3>5
  <2>6. HonestVerdict'
    BY <1>11, <2>4, <2>5 DEF BodyRead
  <2> QED
    BY <2>1, <2>6
<1>12. CASE ReadBodyStep
  <2>1. Books' /\ Types'
    BY <1>1, <1>12 DEF ReadBodyStep, methodVars
  <2>2. HonestVerdict'
    BY <1>2, <1>12 DEF ReadBodyStep, methodVars
  <2> QED
    BY <2>1, <2>2
<1>13. CASE UNCHANGED allVars
  <2>1. Books' /\ Types'
    BY <1>13 DEF allVars, methodVars
  <2>2. HonestVerdict'
    BY <1>13 DEF allVars, methodVars, readVars, HonestVerdict
  <2> QED
    BY <2>1, <2>2
<1> QED
  BY <1>3, <1>4, <1>5, <1>6, <1>7, <1>8, <1>9, <1>10, <1>11, <1>12, <1>13 DEF MethodNext, Client

LEMMA InitMInv == MethodInit => MInv
BY InitReading, InitMethod DEF MInv

LEMMA NextMInv == MInv /\ [MethodNext]_allVars => MInv'
BY NextReading, NextMethod DEF MInv

\* The type invariant, for all sizes and every number of throttled attempts.
THEOREM MethodTypeCorrect == MethodSpec => []MethodTypeOK
<1>1. MInv => MethodTypeOK
  BY MethodAssumption DEF MInv, Books, Types, MethodTypeOK
<1> QED
  BY InitMInv, NextMInv, <1>1, PTL DEF MethodSpec

\* A method that has returned holds no body but those of the answers it
\* retried.
THEOREM NoBodyLeaks == MethodSpec => []BodiesClosed
<1>1. MInv => BodiesClosed
  BY DEF MInv, Books, BodiesClosed
<1> QED
  BY InitMInv, NextMInv, <1>1, PTL DEF MethodSpec

\* What a method makes of an answer is what the answer says, whatever its size and
\* however reading it went: a value exactly for a 2xx answer that is as it should
\* be, whole and short enough, Discord's error exactly for an error stated so.
THEOREM VerdictTrusted == MethodSpec => []HonestVerdict
<1>1. MInv => HonestVerdict
  BY DEF MInv
<1> QED
  BY InitMInv, NextMInv, <1>1, PTL DEF MethodSpec
==============================================================================
