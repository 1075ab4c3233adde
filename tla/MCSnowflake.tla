----------------------------- MODULE MCSnowflake -----------------------------
(* Instances of Snowflake for TLC: fields of 3, 1 and 2 bits.               *)
EXTENDS Snowflake

\* Instances that fit their bit, and one that does not.
SmallAndLargeInstances == {0, 1, 7}
==============================================================================
