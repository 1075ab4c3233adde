------------------------------ MODULE Snowflake ------------------------------
(***************************************************************************)
(* Snowflake IDs (snowflake/snowflake.go): how an ID is put together from  *)
(* its three fields and taken apart again, and the Generator, which numbers*)
(* the IDs of a millisecond with a wrapping sequence number and never looks*)
(* at which millisecond the last ID was made in.                           *)
(***************************************************************************)
EXTENDS Integers, Sequences

CONSTANTS
    Timestamps,      \* 2^timestampBits (41)
    Instances,       \* 2^instanceBits (10)
    SequenceNumbers, \* 2^sequenceBits (12)
    InstanceArgs,    \* the instances callers pass: any uint16
    MaxClock,        \* bound: milliseconds that pass
    MaxIDs           \* bound: IDs generated

ASSUME SnowflakeAssumption ==
    /\ {Timestamps, Instances, SequenceNumbers} \subseteq Nat \ {0}
    /\ InstanceArgs \subseteq Nat
    /\ {MaxClock, MaxIDs} \subseteq Nat

----------------------------------------------------------------------------
(* ID *)

\* Seeded bug: the instance is not masked and runs into the timestamp.
New_unmasked(ts, inst, sq) ==
    ((ts % Timestamps) * Instances + inst) * SequenceNumbers + (sq % SequenceNumbers)

\* Seeded bug: the timestamp is shifted by the bits of the instance only.
New_shortShift(ts, inst, sq) ==
    (ts % Timestamps) * Instances + (inst % Instances) * SequenceNumbers
        + (sq % SequenceNumbers)

\* Shifting left multiplies by a power of two and masking is a remainder.
New(ts, inst, sq) ==
    ((ts % Timestamps) * Instances + (inst % Instances)) * SequenceNumbers
        + (sq % SequenceNumbers)

Timestamp(id) == (id \div (Instances * SequenceNumbers)) % Timestamps
Instance(id)  == (id \div SequenceNumbers) % Instances
Sequence(id)  == id % SequenceNumbers

----------------------------------------------------------------------------
(* Generator *)

VARIABLES
    epoch, instance, seq,   \* the fields of Generator
    now,                    \* external: time.Now in milliseconds
    ids                     \* the IDs generated so far, and when

vars == <<epoch, instance, seq, now, ids>>

IDs == 0..(Timestamps * Instances * SequenceNumbers - 1)

TypeOK ==
    /\ epoch \in 0..MaxClock /\ instance \in InstanceArgs
    /\ seq \in 0..(SequenceNumbers - 1)
    /\ now \in 0..MaxClock
    /\ ids \in Seq([id : IDs, at : 0..MaxClock])

Init ==
    /\ epoch \in 0..MaxClock /\ instance \in InstanceArgs /\ seq = 0
    /\ now = epoch /\ ids = <<>>

\* Seeded bug: the sequence number wraps one early.
nextSeq_short == (seq + 1) % (SequenceNumbers - 1)

nextSeq == (seq + 1) % SequenceNumbers

\* Seeded bug: the sequence number is not masked.
Generate_unmasked ==
    /\ Len(ids) < MaxIDs
    /\ seq' = seq + 1
    /\ ids' = Append(ids, [id |-> New(now - epoch, instance, seq), at |-> now])
    /\ UNCHANGED <<epoch, instance, now>>

Generate ==
    /\ Len(ids) < MaxIDs
    /\ seq' = nextSeq
    /\ ids' = Append(ids, [id |-> New(now - epoch, instance, seq), at |-> now])
    /\ UNCHANGED <<epoch, instance, now>>

\* External: time passes, and never goes back.
Tick ==
    /\ now < MaxClock
    /\ now' = now + 1
    /\ UNCHANGED <<epoch, instance, seq, ids>>

Next == Generate \/ Tick

Spec == Init /\ [][Next]_vars

----------------------------------------------------------------------------
(* Properties *)

\* "Generate returns a unique ID" (snowflake.go:84): an ID comes again only in
\* the millisecond it was made in and after a whole turn of the sequence number,
\* wherever in the turn the millisecond began.  IDs of different milliseconds
\* and the first 2^12 of one are thus unique; Generate does not look further.
UniqueIDs ==
    \A i, j \in 1..Len(ids) :
        i < j /\ ids[i].id = ids[j].id =>
            ids[i].at = ids[j].at /\ j - i >= SequenceNumbers

\* What the accessors read from an ID is what it was made from, for instances
\* that do not fit their ten bits too (fakediscord.go:96 passes any uint16).
FieldsRecovered ==
    \A i \in 1..Len(ids) :
        /\ Timestamp(ids[i].id) = ids[i].at - epoch
        /\ Instance(ids[i].id) = instance % Instances
        /\ Sequence(ids[i].id) = (i - 1) % SequenceNumbers

\* IDs sort by the millisecond they were made in, whatever their sequence
\* numbers, as users of Snowflake IDs expect.
SortedByTime ==
    \A i, j \in 1..Len(ids) : ids[i].at < ids[j].at => ids[i].id < ids[j].id
==============================================================================
