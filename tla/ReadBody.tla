------------------------------ MODULE ReadBody -------------------------------
(***************************************************************************)
(* readBody (discord.go): reads a response of unknown length into a buffer *)
(* that doubles, keeps to a maximum size, and tells a body that fits from  *)
(* one that does not by leaving room for one byte more than the maximum.   *)
(* Every REST method of Client reads its answer with it.                   *)
(*                                                                         *)
(* The bytes themselves are left out: what was read is a prefix of the     *)
(* body, so its length says which.                                         *)
(***************************************************************************)
EXTENDS Integers

CONSTANTS
    FirstCap,     \* 512: the first buffer, unless the maximum is smaller
    MaxSizes,     \* the maximum sizes of the calls
    MaxBody       \* bound: the longest body a service sends

ASSUME ReadBodyAssumption ==
    /\ FirstCap \in Nat \ {0} /\ MaxBody \in Nat
    /\ MaxSizes \subseteq Nat

VARIABLES
    maxSize,      \* the parameter
    contentLength,\* resp.ContentLength, -1 if the service did not say
    len, cap,     \* of the buffer b
    result,       \* "none" while reading; "ok", "tooLarge" or "failed"
    \* external: the response
    body,         \* the length of the body
    intact        \* the connection has not failed

vars == <<maxSize, contentLength, len, cap, result, body, intact>>

TypeOK ==
    /\ maxSize \in MaxSizes /\ contentLength \in -1..MaxBody
    /\ len \in 0..(maxSize + 1) /\ cap \in 0..(maxSize + 1)
    /\ result \in {"none", "ok", "tooLarge", "failed"}
    /\ body \in 0..MaxBody /\ intact \in BOOLEAN

\* Seeded bug: no room for the byte that shows that the body is too large.
firstCap_exact(m) == IF m < FirstCap THEN m ELSE FirstCap

firstCap(m) == IF m < FirstCap THEN m + 1 ELSE FirstCap

\* net/http delivers at most ContentLength bytes: it is the length of the body
\* when the service states it.
Init ==
    /\ maxSize \in MaxSizes /\ body \in 0..MaxBody
    /\ contentLength \in {-1, body}
    /\ len = 0 /\ cap = firstCap(maxSize)
    /\ result = "none" /\ intact = TRUE

Min2(a, b) == IF a <= b THEN a ELSE b

\* Seeded bug: the buffer just doubles.
newCap_doubles == len * 2

newCap == Min2(len * 2, maxSize + 1)

\* The stated length is too large: nothing is read.
Refuse ==
    /\ result = "none" /\ contentLength > maxSize
    /\ result' = "tooLarge"
    /\ UNCHANGED <<maxSize, contentLength, len, cap, body, intact>>

\* Seeded bug: a buffer that is full to the maximum counts as too large.
overflows_exact(n) == n >= maxSize

overflows(n) == n > maxSize

\* One turn of the loop: the buffer grows if it is full, one Read fills part of
\* what is free, and the call returns if that is too much or the body's end.
\* Read may return the last bytes with the end, or before it.
Read ==
    /\ result = "none" /\ contentLength <= maxSize
    /\ cap' = IF len = cap THEN newCap ELSE cap
    /\ \E n \in 0..body :
        /\ len + n <= body /\ len + n <= cap' /\ len' = len + n
        /\ \/ overflows(len') /\ result' = "tooLarge"
           \/ ~overflows(len') /\ intact /\ len' = body /\ result' = "ok"
           \/ ~overflows(len') /\ ~intact /\ result' = "failed"
           \/ ~overflows(len') /\ n > 0 /\ result' = "none"
    /\ UNCHANGED <<maxSize, contentLength, body, intact>>

\* External: the connection fails in the middle of the body.
ConnectionFails ==
    /\ intact /\ result = "none"
    /\ intact' = FALSE
    /\ UNCHANGED <<maxSize, contentLength, len, cap, result, body>>

Next == Refuse \/ Read \/ ConnectionFails

Spec == Init /\ [][Next]_vars

----------------------------------------------------------------------------
(* Properties *)

\* The call succeeds with the whole body, exactly when it has no more than
\* maxSize bytes, and calls a body too large only when it is, whatever sizes
\* the buffer went through.
ExactVerdict ==
    /\ result = "ok" => len = body /\ body <= maxSize
    /\ result = "tooLarge" => body > maxSize

\* The buffer never exceeds the maximum by more than the one byte that shows
\* that the body is too large, and the loop never calls Read with no room left
\* (Read of an empty slice may return 0, nil for ever).
Bounded ==
    /\ cap <= maxSize + 1
    /\ result = "none" /\ len = cap => newCap > len
==============================================================================
