---------------------------- MODULE MCRestClient ----------------------------
(* Instances of RestClient for TLC. *)
EXTENDS RestClient, TLC

CONSTANTS c1, c2, c3, r1, m1, b1

\* Two or three calls by one route.
MCPair     == {c1, c2}
MCCalls    == {c1, c2, c3}
MCRoute    == [c \in MCCalls |-> r1]
MCMajor    == [c \in MCCalls |-> m1]
MCBucketOf == r1 :> b1

MCPairRoute == [c \in MCPair |-> r1]
MCPairMajor == [c \in MCPair |-> m1]

\* The calls that share a route are interchangeable.
CallSymmetry == Permutations({c1, c2})
=============================================================================
