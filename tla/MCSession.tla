------------------------------ MODULE MCSession ------------------------------
(* Instances of Session for TLC: the constants get their values in the cfg. *)
EXTENDS Session
==============================================================================
