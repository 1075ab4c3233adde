---------------------------- MODULE MCFakeServer -----------------------------
(* Instances of FakeServer for TLC.                                          *)
EXTENDS FakeServer, TLC

Symmetry == Permutations(Users) \cup Permutations(Gateways) \cup Permutations(Emojis)
==============================================================================
