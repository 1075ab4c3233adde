----------------------------- MODULE RestMethod ------------------------------
(***************************************************************************)
(* One call of a REST method of Client, from encoding its argument to the  *)
(* value or error it returns: the exchanges of do, what do and the method  *)
(* make of the answer, and the service, be it the fake server's HTTP layer *)
(* (fakediscord/handler.go) or, external, Discord and what lies between.   *)
(*                                                                         *)
(* The answer is read by ReadBody, whose variables this module shares: a   *)
(* call reads at most one body, and the parameters of that reading are     *)
(* chosen at the start. Waiting for rate limits is left to RestClient.     *)
(***************************************************************************)
EXTENDS ReadBody

CONSTANT MaxThrottled    \* bound: times the service throttles a call

ASSUME MethodAssumption == MaxThrottled \in Nat

\* What tells one method from another: whether it sends data, looks at the
\* answer, insists on the answer's content type, and whether the fake server
\* has a route for it.
Method(sends, reads, checks, routed) ==
    [sends |-> sends, reads |-> reads, checks |-> checks, routed |-> routed]

ListGlobalApplicationCommands  == Method(FALSE, TRUE,  FALSE, FALSE)
CreateGlobalApplicationCommand == Method(TRUE,  TRUE,  FALSE, FALSE)
GetUser                        == Method(FALSE, TRUE,  FALSE, FALSE)
CreateInteractionResponse      == Method(TRUE,  FALSE, FALSE, FALSE)
EditWebhookMessage             == Method(TRUE,  TRUE,  FALSE, FALSE)
GetChannel                     == Method(FALSE, TRUE,  FALSE, TRUE)
CreateDM                       == Method(TRUE,  TRUE,  FALSE, TRUE)
GetMessage                     == Method(FALSE, TRUE,  FALSE, TRUE)
CreateMessage                  == Method(TRUE,  TRUE,  FALSE, TRUE)
EditMessage                    == Method(TRUE,  TRUE,  FALSE, FALSE)
CreateReaction                 == Method(FALSE, FALSE, FALSE, TRUE)
CurrentAuthorization           == Method(FALSE, TRUE,  FALSE, TRUE)
OpenGateway                    == Method(FALSE, TRUE,  TRUE,  TRUE)

Methods == {ListGlobalApplicationCommands, CreateGlobalApplicationCommand, GetUser,
            CreateInteractionResponse, EditWebhookMessage, GetChannel, CreateDM, GetMessage,
            CreateMessage, EditMessage, CreateReaction, CurrentAuthorization, OpenGateway}

VARIABLES
    method,
    pc,          \* where the call is
    answer,      \* what do and the method look at in the last answer
    acted,       \* how often the service did what it was asked for
    throttled,   \* answers 429
    open,        \* response bodies received and not closed
    verdict      \* what the call returns: "none" yet; that it stayed "unanswered"; or, of
                 \* an answer, a "value", "nothing" (and no error), an "error", its
                 \* "http" status, or the "discord" error it states

readVars   == <<maxSize, contentLength, len, cap, result, body, intact>>
methodVars == <<method, pc, answer, acted, throttled, open, verdict>>
allVars    == <<readVars, methodVars>>

\* Status 2xx, 429 or another; declared as JSON; decodes to what is expected.
Answers == [status : {"ok", "429", "error"}, json : BOOLEAN, parses : BOOLEAN]

MethodTypeOK ==
    /\ method \in Methods /\ answer \in Answers
    /\ pc \in {"encode", "send", "flight", "answered", "received", "read", "returned"}
    /\ acted \in Nat /\ throttled \in 0..MaxThrottled /\ open \in 0..(MaxThrottled + 1)
    /\ verdict \in {"none", "unanswered", "value", "nothing", "error", "http", "discord"}
    /\ (pc = "returned") = (verdict # "none")

MethodInit ==
    /\ Init
    /\ method \in Methods /\ pc = "encode"
    /\ answer = [status |-> "ok", json |-> TRUE, parses |-> TRUE]
    /\ acted = 0 /\ throttled = 0 /\ open = 0 /\ verdict = "none"

ReturnsWith(v) == pc' = "returned" /\ verdict' = v

----------------------------------------------------------------------------
(* The method and do, up to the exchange *)

Encode ==
    /\ pc = "encode"
    /\ \/ pc' = "send" /\ UNCHANGED verdict
       \/ method.sends /\ ReturnsWith("unanswered")
    /\ UNCHANGED <<readVars, method, answer, acted, throttled, open>>

\* Every attempt has a request of its own, with the whole data.
Send ==
    /\ pc = "send"
    /\ pc' = "flight"
    /\ UNCHANGED <<readVars, method, answer, acted, throttled, open, verdict>>

\* The wait for a rate limit is cancelled, the exchange fails, or its answer is
\* lost.
ExchangeFails ==
    /\ pc \in {"send", "flight", "answered"}
    /\ ReturnsWith("unanswered")
    /\ UNCHANGED <<readVars, method, answer, acted, throttled, open>>

----------------------------------------------------------------------------
(* The service *)

Answer(status, json, parses) ==
    /\ pc' = "answered"
    /\ answer' = [status |-> status, json |-> json, parses |-> parses]
    /\ UNCHANGED <<readVars, method, throttled, open, verdict>>

\* A JSON document takes at least a byte.
writeErrorResponse == body > 0 /\ Answer("error", TRUE, TRUE) /\ UNCHANGED acted

\* A reaction is answered 204 and without a body.
writeTo == (body > 0) = method.reads /\ Answer("ok", TRUE, method.reads) /\ acted' = acted + 1

\* The fake server: an unknown route, a request that cannot be read or is not
\* JSON, the handler's refusal, or its response.
ServeHTTP ==
    /\ pc = "flight"
    /\ \/ ~method.routed /\ Answer("error", FALSE, FALSE) /\ UNCHANGED acted
       \/ method.routed /\ writeErrorResponse
       \/ method.routed /\ writeTo

\* External: Discord, or a proxy in between, answers anything at all.
DiscordAnswers ==
    /\ pc = "flight"
    /\ \E s \in {"ok", "error"}, j \in BOOLEAN, p \in BOOLEAN :
          (p => body > 0) /\ Answer(s, j, p)
    /\ acted' = IF answer'.status = "ok" THEN acted + 1 ELSE acted

DiscordThrottles ==
    /\ pc = "flight" /\ throttled < MaxThrottled
    /\ Answer("429", TRUE, TRUE)
    /\ UNCHANGED acted

----------------------------------------------------------------------------
(* do and the method, on the answer *)

\* http.Client.Do returns: the body of the response is open.
Receive ==
    /\ pc = "answered"
    /\ pc' = "received" /\ open' = open + 1
    /\ UNCHANGED <<readVars, method, answer, acted, throttled, verdict>>

\* do goes round again, and leaves the body to itself.
Retry ==
    /\ pc = "received" /\ answer.status = "429"
    /\ pc' = "send" /\ throttled' = throttled + 1
    /\ UNCHANGED <<readVars, method, answer, acted, open, verdict>>

\* Nothing of the answer is read: it is not JSON but an error or the gateway's
\* URL, or the method does not care for it.
Unread ==
    /\ pc = "received"
    /\ \/ answer.status = "error" /\ ~answer.json /\ ReturnsWith("http")
       \/ answer.status = "ok" /\ method.checks /\ ~answer.json /\ ReturnsWith("error")
       \/ answer.status = "ok" /\ ~method.reads /\ ReturnsWith("nothing")
    /\ open' = open - 1
    /\ UNCHANGED <<readVars, method, answer, acted, throttled>>

ReadsBody ==
    /\ pc = "received"
    /\ \/ answer.status = "error" /\ answer.json
       \/ answer.status = "ok" /\ method.reads /\ (method.checks => answer.json)
    /\ pc' = "read"
    /\ UNCHANGED <<readVars, method, answer, acted, throttled, open, verdict>>

ReadBodyStep == pc = "read" /\ Next /\ UNCHANGED methodVars

\* Seeded bug: an error answer that cannot be read returns at once.
BodyRead_leaks ==
    /\ pc = "read" /\ result # "none"
    /\ open' = IF answer.status = "error" /\ result # "ok" THEN open ELSE open - 1
    /\ \/ answer.status = "ok" /\ ReturnsWith(IF result = "ok" /\ answer.parses THEN "value" ELSE "error")
       \/ answer.status = "error"
          /\ ReturnsWith(IF result = "ok" /\ answer.parses THEN "discord" ELSE "http")
    /\ UNCHANGED <<readVars, method, answer, acted, throttled>>

\* Seeded bug: what was read is decoded although reading failed.
BodyRead_unchecked ==
    /\ pc = "read" /\ result # "none" /\ open' = open - 1
    /\ \/ answer.status = "ok" /\ ReturnsWith(IF answer.parses THEN "value" ELSE "error")
       \/ answer.status = "error" /\ ReturnsWith(IF answer.parses THEN "discord" ELSE "http")
    /\ UNCHANGED <<readVars, method, answer, acted, throttled>>

\* The body is closed, and what was read is decoded.
BodyRead ==
    /\ pc = "read" /\ result # "none" /\ open' = open - 1
    /\ \/ answer.status = "ok" /\ ReturnsWith(IF result = "ok" /\ answer.parses THEN "value" ELSE "error")
       \/ answer.status = "error"
          /\ ReturnsWith(IF result = "ok" /\ answer.parses THEN "discord" ELSE "http")
    /\ UNCHANGED <<readVars, method, answer, acted, throttled>>

----------------------------------------------------------------------------

Client == Encode \/ Send \/ Receive \/ Retry \/ Unread \/ ReadsBody \/ BodyRead

Service == ServeHTTP \/ DiscordAnswers \/ DiscordThrottles

MethodNext == Client \/ ExchangeFails \/ Service \/ ReadBodyStep

MethodSpec == MethodInit /\ [][MethodNext]_allVars

\* The client runs, the service answers and reading makes progress or fails.
FairMethodSpec ==
    /\ MethodSpec
    /\ WF_allVars(Client) /\ WF_allVars(Service)
    /\ WF_allVars(ReadBodyStep /\ ~ConnectionFails)

----------------------------------------------------------------------------
(* Properties *)

\* Whatever a call returns and wherever it failed, it has closed every response
\* it was given, except those it threw away to try again: each 429 leaves one
\* open (discord.go:228-236).
BodiesClosed == pc = "returned" => open = throttled

\* Of an answer, a call returns no error exactly when it is 2xx and, if the method
\* looks at it, of the content type the method insists on (OpenGateway's, checked
\* before the gateway's URL is believed), whole, of at most maxSize bytes and what
\* was expected; it returns Discord's own error exactly when the answer is an error
\* that states one as whole and as short, and never calls an error of the service
\* one of its own or the other way round.  What it decodes is the whole body, and
\* when there is no error the service has acted, once.  (A call that stays
\* unanswered says nothing of that.)
HonestVerdict ==
    LET ok      == answer.status = "ok"
        decodes == intact /\ body <= maxSize /\ answer.parses
    IN  pc = "returned" /\ verdict # "unanswered" =>
            /\ ok <=> verdict \in {"nothing", "value", "error"}
            /\ verdict = "nothing" <=> ok /\ ~method.reads
            /\ verdict = "value" <=>
                  ok /\ method.reads /\ (method.checks => answer.json) /\ decodes
            /\ verdict = "discord" <=> answer.status = "error" /\ answer.json /\ decodes
            /\ verdict \in {"value", "discord"} => len = body
            /\ verdict \in {"value", "nothing"} => acted = 1

\* The call returns.
MethodReturns == <>(pc = "returned")
==============================================================================
