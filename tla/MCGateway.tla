------------------------------ MODULE MCGateway ------------------------------
(* The instance of Gateway for TLC: the constants get their values in        *)
(* MCGateway.cfg.  The sessions are interchangeable, but the run checks       *)
(* liveness, for which TLC's symmetry reduction is not sound.                 *)
EXTENDS Gateway
=============================================================================
