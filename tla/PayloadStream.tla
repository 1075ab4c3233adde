---------------------------- MODULE PayloadStream ----------------------------
(***************************************************************************)
(* What connect and Listen are promised by Gateway.next, and what Gateway  *)
(* assumes of it: on one connection, next hands over the payloads other    *)
(* than heartbeats in the order they were sent, each once and none left    *)
(* out, until one call fails; after that the connection is not used again. *)
(* The payloads are numbered in the order in which they are sent.          *)
(***************************************************************************)
EXTENDS Naturals, Sequences

VARIABLES call,      \* "out", "running" or, for good, "failed"
          sent,      \* how many payloads were sent
          coming,    \* those on their way
          returned   \* what the calls of next returned

vars == <<call, sent, coming, returned>>

Init == call = "out" /\ sent = 0 /\ coming = {} /\ returned = <<>>

\* A connection that takes no more in loses what is sent.
Send ==
    /\ sent' = sent + 1
    /\ coming' = coming \cup {sent'} \/ UNCHANGED coming
    /\ UNCHANGED <<call, returned>>

\* The connection breaks: the last payloads do not arrive.
Lose ==
    /\ \E lost \in SUBSET coming :
          /\ \A m \in coming \ lost, n \in lost : m < n
          /\ coming' = coming \ lost
    /\ UNCHANGED <<call, sent, returned>>

Call == call = "out" /\ call' = "running" /\ UNCHANGED <<sent, coming, returned>>

\* The payload after those that were returned.
upcoming == Len(returned) + 1

Return ==
    /\ call = "running" /\ upcoming \in coming
    /\ call' = "out"
    /\ returned' = Append(returned, upcoming) /\ coming' = coming \ {upcoming}
    /\ UNCHANGED sent

\* A failing call may take the payload it had read with it.
Fail ==
    /\ call = "running" /\ call' = "failed"
    /\ coming' = coming \ {upcoming} \/ UNCHANGED coming
    /\ UNCHANGED <<sent, returned>>

Next == Send \/ Lose \/ Call \/ Return \/ Fail

Spec == Init /\ [][Next]_vars
==============================================================================
