---------------------------- MODULE MCRestMethod -----------------------------
(* Instances of RestMethod for TLC: a first buffer of 4 bytes; maxima below  *)
(* it, equal to it, at a doubling of it, next to those, and zero.            *)
EXTENDS RestMethod

Sizes == {0, 1, 3, 4, 5, 7, 8, 9, 11}
==============================================================================
