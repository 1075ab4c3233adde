---------------------------- MODULE MCFakeGateway ----------------------------
(* Instances of FakeGateway for TLC: the constants get their values in the cfgs. *)
EXTENDS FakeGateway
==============================================================================
