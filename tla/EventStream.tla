----------------------------- MODULE EventStream -----------------------------
(***************************************************************************)
(* What a caller of Gateway.Listen is promised, without connections,       *)
(* reconnects or buffers: every Discord session is a log of events, and    *)
(* the application is handed the log of a session in order, each entry     *)
(* once, except the RESUMED entries, which Listen keeps to itself.         *)
(***************************************************************************)
EXTENDS Naturals, Sequences

CONSTANTS Sessions,     \* session identifiers
          EventNames    \* names of dispatched events, "RESUMED" among them

VARIABLES log,        \* per session: the names of the events dispatched so far
          cursor,     \* per session: how many entries the client has consumed
          received    \* what Listen returned, as pairs <<session, position>>

vars == <<log, cursor, received>>

Init ==
    /\ log = [s \in Sessions |-> <<>>]
    /\ cursor = [s \in Sessions |-> 0]
    /\ received = <<>>

\* The service dispatches one more event of session s.
Publish(s) ==
    /\ \E e \in EventNames : log' = [log EXCEPT ![s] = Append(@, e)]
    /\ UNCHANGED <<cursor, received>>

\* The client consumes the next entry of session s.
Consume(s) ==
    /\ cursor[s] < Len(log[s])
    /\ cursor' = [cursor EXCEPT ![s] = @ + 1]
    /\ received' = IF log[s][cursor[s] + 1] = "RESUMED"
                   THEN received
                   ELSE Append(received, <<s, cursor[s] + 1>>)
    /\ UNCHANGED log

Next == \E s \in Sessions : Publish(s) \/ Consume(s)

Spec == Init /\ [][Next]_vars
==============================================================================
