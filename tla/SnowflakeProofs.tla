--------------------------- MODULE SnowflakeProofs ---------------------------
(***************************************************************************)
(* Theorems about Snowflake IDs, for every width of the three fields, every*)
(* instance and every number of IDs.  One bound is more than a bound:       *)
(* snowflake.go relies on the clock staying below 2^41 milliseconds after  *)
(* the epoch, and the theorems that need it say so.                        *)
(***************************************************************************)
EXTENDS Snowflake, SequenceTheorems, TLAPS

\* Products of a larger number are larger.
LEMMA Monotone == ASSUME NEW a \in Int, NEW b \in Int, NEW n \in Nat, a <= b PROVE a * n <= b * n
OBVIOUS

LEMMA MonotoneNext ==
  ASSUME NEW a \in Int, NEW b \in Int, NEW n \in Nat, a < b PROVE a * n + n <= b * n
<1>1. (a + 1) * n <= b * n
  BY Monotone
<1>2. (a + 1) * n = a * n + n
  OBVIOUS
<1> QED
  BY <1>1, <1>2

LEMMA Division ==
  ASSUME NEW x \in Int, NEW n \in Nat \ {0}
  PROVE  \E q \in Int, r \in 0..(n - 1) : x \div n = q /\ x % n = r /\ x = q * n + r
<1>1. x \div n \in Int /\ x % n \in 0..(n - 1)
  OBVIOUS
<1>2. PICK q \in Int : x \div n = q
  BY <1>1, Zenon
<1>3. PICK r \in 0..(n - 1) : x % n = r
  BY <1>1, Zenon
<1>4. x - n * (x \div n) = x % n
  BY SMTT(30)
<1>5. x - n * q = r
  BY <1>2, <1>3, <1>4, Zenon
<1>6. n * q = q * n /\ n * q \in Int
  OBVIOUS
<1>7. x = q * n + r
  BY <1>5, <1>6
<1> QED
  BY <1>2, <1>3, <1>7, Zenon

LEMMA Remainder == ASSUME NEW x \in Nat, NEW n \in Nat \ {0} PROVE x % n \in 0..(n - 1)
OBVIOUS

LEMMA Unpack ==
  ASSUME NEW n \in Nat \ {0}, NEW a \in Int, NEW b \in 0..(n - 1)
  PROVE  (a * n + b) \div n = a /\ (a * n + b) % n = b
<1> DEFINE x == a * n + b
<1>1. x \in Int /\ a * n \in Int
  OBVIOUS
<1>2. PICK q \in Int, r \in 0..(n - 1) : x \div n = q /\ x % n = r /\ x = q * n + r
  BY <1>1, Division
<1>a. q * n \in Int
  BY <1>2
<1>3. ~(q < a)
  BY <1>1, <1>2, <1>a, MonotoneNext
<1>4. ~(a < q)
  BY <1>1, <1>2, <1>a, MonotoneNext
<1>5. q = a
  BY <1>2, <1>3, <1>4
<1>6. r = b
  BY <1>1, <1>2, <1>5
<1> QED
  BY <1>2, <1>5, <1>6

LEMMA SmallRemainder == ASSUME NEW n \in Nat \ {0}, NEW b \in 0..(n - 1) PROVE b % n = b
OBVIOUS

LEMMA NextRemainder ==
  ASSUME NEW n \in Nat \ {0}, NEW a \in Nat PROVE ((a % n) + 1) % n = (a + 1) % n
<1>1. PICK q \in Int, r \in 0..(n - 1) : a \div n = q /\ a % n = r /\ a = q * n + r
  BY Division
<1>2. CASE r + 1 < n
  <2>1. (r + 1) % n = r + 1
    BY <1>1, <1>2, SmallRemainder
  <2>2. a + 1 = q * n + (r + 1)
    BY <1>1
  <2>a. r + 1 \in 0..(n - 1)
    BY <1>1, <1>2
  <2>3. (a + 1) % n = r + 1
    BY <1>1, <2>a, <2>2, Unpack
  <2> QED
    BY <1>1, <2>1, <2>3
<1>3. CASE r + 1 = n
  <2>1. n = 1 * n + 0 /\ a + 1 = (q + 1) * n + 0
    BY <1>1, <1>3
  <2>2. n % n = 0 /\ (a + 1) % n = 0
    BY <1>1, <2>1, Unpack
  <2> QED
    BY <1>1, <1>3, <2>2
<1> QED
  BY <1>1, <1>2, <1>3

\* Numbers less than n apart have different remainders.
LEMMA DistinctRemainders ==
  ASSUME NEW n \in Nat \ {0}, NEW a \in Nat, NEW b \in Nat, a < b, b - a < n
  PROVE  a % n # b % n
<1>1. PICK q \in Int, r \in 0..(n - 1) : a \div n = q /\ a % n = r /\ a = q * n + r
  BY Division
<1>b. PICK p \in Int, s \in 0..(n - 1) : b \div n = p /\ b % n = s /\ b = p * n + s
  BY Division
<1>a. q * n \in Int /\ p * n \in Int
  OBVIOUS
<1> SUFFICES ASSUME r = s PROVE FALSE
  BY <1>1, <1>b, Zenon
<1>2. p * n - q * n = b - a
  BY <1>1, <1>b, <1>a
<1>3. ~(p <= q)
  BY <1>1, <1>2, <1>a, Monotone
<1>4. ~(q < p)
  BY <1>1, <1>2, <1>a, MonotoneNext
<1> QED
  BY <1>1, <1>3, <1>4
----------------------------------------------------------------------------
(* The fields of an ID *)

\* The clock fits its bits: with Discord's epoch, 41 bits last until 2084.
ClockFits == MaxClock < Timestamps

\* Three fields in their ranges, packed, and each of them read back.
LEMMA FieldsOf ==
  ASSUME NEW t \in 0..(Timestamps - 1), NEW k \in 0..(Instances - 1),
         NEW q \in 0..(SequenceNumbers - 1)
  PROVE  /\ (t * Instances + k) * SequenceNumbers + q \in IDs
         /\ Timestamp((t * Instances + k) * SequenceNumbers + q) = t
         /\ Instance((t * Instances + k) * SequenceNumbers + q) = k
         /\ Sequence((t * Instances + k) * SequenceNumbers + q) = q
<1> DEFINE I == Instances
           S == SequenceNumbers
           T == Timestamps
           IS == I * S
           low == k * S + q
           id == (t * I + k) * S + q
<1>1. I \in Nat \ {0} /\ S \in Nat \ {0} /\ T \in Nat \ {0}
  BY SnowflakeAssumption
<1>2. I * S \in Nat \ {0} /\ t * I \in Nat /\ k * S \in Nat /\ t * IS \in Nat /\ t * I + k \in Nat
  BY <1>1
<1>3. low \in 0..(IS - 1)
  <2>1. k * S + S <= I * S
    BY <1>1, MonotoneNext
  <2> QED
    BY <1>1, <1>2, <2>1
<1>4. id = t * IS + low
  <2>1. (t * I + k) * S = (t * I) * S + k * S /\ (t * I) * S = t * (I * S)
    BY <1>1, <1>2
  <2> QED
    BY <1>2, <2>1
<1>5. Sequence(id) = q /\ id \div S = t * I + k
  BY <1>1, <1>2, Unpack DEF Sequence
<1>6. Instance(id) = k
  <2>1. (t * I + k) % I = k
    BY <1>1, Unpack
  <2> HIDE DEF id
  <2> QED
    BY <1>5, <2>1 DEF Instance
<1>7. Timestamp(id) = t
  <2>1. id \div IS = t
    BY <1>2, <1>3, <1>4, Unpack
  <2>2. t % T = t
    BY <1>1, SmallRemainder
  <2> QED
    BY <2>1, <2>2 DEF Timestamp
<1>8. id \in IDs
  <2>1. t * IS + IS <= T * IS
    BY <1>1, <1>2, MonotoneNext
  <2>2. T * IS = T * I * S /\ T * IS \in Nat
    BY <1>1
  <2> HIDE DEF IS, low
  <2> QED
    BY <1>2, <1>3, <1>4, <2>1, <2>2 DEF IDs, IS
<1> QED
  BY <1>5, <1>6, <1>7, <1>8

\* What New makes of any arguments is an ID with their low bits in its fields.
LEMMA FieldsOfNew ==
  ASSUME NEW ts \in Nat, NEW inst \in Nat, NEW sq \in Nat
  PROVE  /\ New(ts, inst, sq) \in IDs
         /\ Timestamp(New(ts, inst, sq)) = ts % Timestamps
         /\ Instance(New(ts, inst, sq)) = inst % Instances
         /\ Sequence(New(ts, inst, sq)) = sq % SequenceNumbers
<1>1. /\ ts % Timestamps \in 0..(Timestamps - 1) /\ inst % Instances \in 0..(Instances - 1)
      /\ sq % SequenceNumbers \in 0..(SequenceNumbers - 1)
  BY SnowflakeAssumption, Remainder
<1> QED
  BY <1>1, FieldsOf DEF New

\* An ID with a later timestamp is larger, whatever else it holds.
LEMMA LaterIsLarger ==
  ASSUME NEW ts \in 0..(Timestamps - 1), NEW later \in 0..(Timestamps - 1), ts < later,
         NEW inst \in Nat, NEW sq \in Nat, NEW sq2 \in Nat
  PROVE  New(ts, inst, sq) < New(later, inst, sq2)
<1> DEFINE I == Instances
           S == SequenceNumbers
           k == inst % I
           a == ts * I + k
           b == later * I + k
           q == sq % S
           q2 == sq2 % S
<1>1. I \in Nat \ {0} /\ S \in Nat \ {0}
  BY SnowflakeAssumption
<1>2. k \in 0..(I - 1) /\ q \in 0..(S - 1) /\ q2 \in 0..(S - 1)
  BY <1>1, Division
<1>3. ts % Timestamps = ts /\ later % Timestamps = later
  BY SmallRemainder, SnowflakeAssumption
<1>4. New(ts, inst, sq) = a * S + q /\ New(later, inst, sq2) = b * S + q2
  BY <1>3 DEF New
<1> HIDE DEF k, q, q2
<1>5. ts * I + I <= later * I /\ ts * I \in Nat /\ later * I \in Nat
  BY <1>1, MonotoneNext
<1>6. a < b /\ a \in Nat /\ b \in Nat
  BY <1>1, <1>2, <1>5
<1> HIDE DEF a, b
<1>7. a * S + S <= b * S /\ a * S \in Nat /\ b * S \in Nat
  BY <1>1, <1>6, MonotoneNext
<1>8. a * S + q < b * S + q2
  BY <1>1, <1>2, <1>7
<1> QED
  BY <1>4, <1>8
----------------------------------------------------------------------------
(* The generator *)

\* The i-th ID is New of the millisecond it was made in and of i - 1.
MadeBy == \A i \in 1..Len(ids) :
             ids[i].id = New(ids[i].at - epoch, instance, (i - 1) % SequenceNumbers)

\* The generator's sequence number counts the IDs, modulo 2^12.
Numbered == seq = Len(ids) % SequenceNumbers

\* IDs were made between the epoch and now.
Ages ==
    /\ epoch <= now
    /\ \A i \in 1..Len(ids) : epoch <= ids[i].at /\ ids[i].at <= now

GenInv == TypeOK /\ MadeBy /\ Numbered /\ Ages

LEMMA Widths ==
  /\ Timestamps \in Nat \ {0} /\ Instances \in Nat \ {0} /\ SequenceNumbers \in Nat \ {0}
  /\ MaxClock \in Nat /\ MaxIDs \in Nat
  /\ InstanceArgs \subseteq Nat
BY SnowflakeAssumption

LEMMA Entry ==
  ASSUME NEW S, NEW s \in Seq([id : S, at : 0..MaxClock]), NEW i \in 1..Len(s)
  PROVE  s[i] \in [id : S, at : 0..MaxClock] /\ s[i].at \in 0..MaxClock
<1> DEFINE R == [id : S, at : 0..MaxClock]
<1>1. s[i] \in R
  <2>1. s \in Seq(R)
    OBVIOUS
  <2> HIDE DEF R
  <2> QED
    BY <2>1, ElementOfSeq
<1> QED
  BY <1>1

LEMMA GenInit == Init => GenInv
<1> SUFFICES ASSUME Init PROVE GenInv
  OBVIOUS
<1> USE Widths DEF Init
<1>1. ids = <<>> /\ Len(ids) = 0
  OBVIOUS
<1>2. TypeOK
  BY <1>1 DEF TypeOK
<1>3. MadeBy
  BY <1>1 DEF MadeBy
<1>4. Numbered
  BY <1>1, SmallRemainder DEF Numbered
<1>5. Ages
  BY <1>1 DEF Ages
<1> QED
  BY <1>2, <1>3, <1>4, <1>5 DEF GenInv

LEMMA GenStep == GenInv /\ [Next]_vars => GenInv'
<1> SUFFICES ASSUME GenInv, [Next]_vars PROVE GenInv'
  OBVIOUS
<1> USE Widths
<1> DEFINE n == Len(ids)
<1>a. /\ epoch \in 0..MaxClock /\ instance \in InstanceArgs /\ instance \in Nat
      /\ seq \in 0..(SequenceNumbers - 1) /\ now \in 0..MaxClock
      /\ ids \in Seq([id : IDs, at : 0..MaxClock]) /\ n \in Nat
  BY DEF GenInv, TypeOK
<1>b. \A i \in 1..n : ids[i] \in [id : IDs, at : 0..MaxClock] /\ ids[i].at \in 0..MaxClock
  BY <1>a, Entry
<1>1. CASE Generate
  <2> DEFINE e == [id |-> New(now - epoch, instance, seq), at |-> now]
  <2>1. e \in [id : IDs, at : 0..MaxClock]
    <3>1. now - epoch \in Nat
      BY <1>a DEF GenInv, Ages
    <3>2. New(now - epoch, instance, seq) \in IDs
      BY <1>a, <3>1, FieldsOfNew
    <3> QED
      BY <1>a, <3>2
  <2>2. /\ ids' = Append(ids, e) /\ seq' = (seq + 1) % SequenceNumbers
        /\ epoch' = epoch /\ instance' = instance /\ now' = now
    BY <1>1 DEF Generate, nextSeq
  <2> HIDE DEF e
  <2>3. /\ ids' \in Seq([id : IDs, at : 0..MaxClock]) /\ Len(ids') = n + 1
        /\ \A i \in 1..n : ids'[i] = ids[i]
        /\ ids'[n + 1] = e
    BY <1>a, <2>1, <2>2, AppendProperties
  <2>4. \A i \in 1..Len(ids') : i \in 1..n \/ i = n + 1
    BY <1>a, <2>3
  <2>e. e.at = now /\ e.id = New(now - epoch, instance, seq)
    BY DEF e
  <2>5. TypeOK'
    BY <1>a, <2>2, <2>3, Remainder DEF TypeOK
  <2>6. MadeBy'
    <3>1. n % SequenceNumbers = seq /\ (n + 1) - 1 = n
      BY <1>a DEF GenInv, Numbered
    <3> QED
      BY <1>a, <2>2, <2>3, <2>4, <2>e, <3>1 DEF GenInv, MadeBy
  <2>7. Numbered'
    BY <1>a, <2>2, <2>3, NextRemainder DEF GenInv, Numbered
  <2>8. Ages'
    BY <1>a, <1>b, <2>2, <2>3, <2>4, <2>e DEF GenInv, Ages
  <2> QED
    BY <2>5, <2>6, <2>7, <2>8 DEF GenInv
<1>2. CASE Tick
  <2>1. /\ now' = now + 1 /\ epoch' = epoch /\ instance' = instance
        /\ seq' = seq /\ ids' = ids /\ now < MaxClock
    BY <1>2 DEF Tick
  <2>2. TypeOK'
    BY <1>a, <2>1 DEF TypeOK
  <2>3. MadeBy' /\ Numbered'
    BY <2>1 DEF GenInv, MadeBy, Numbered
  <2>4. Ages'
    BY <1>a, <1>b, <2>1 DEF GenInv, Ages
  <2> QED
    BY <2>2, <2>3, <2>4 DEF GenInv
<1>3. CASE UNCHANGED vars
  BY <1>3 DEF vars, GenInv, TypeOK, MadeBy, Numbered, Ages
<1> QED
  BY <1>1, <1>2, <1>3 DEF Next

LEMMA GenAlways == Spec => []GenInv
BY GenInit, GenStep, PTL DEF Spec

\* What Generate returns is a 63-bit number, and seq stays within its 12 bits.
THEOREM TypeCorrect == Spec => []TypeOK
BY GenAlways, PTL DEF GenInv

\* The millisecond of an ID, counted from the epoch, is a natural number that
\* fits its bits when the clock does.
LEMMA Sound ==
  ASSUME GenInv, NEW i \in 1..Len(ids)
  PROVE  /\ ids[i].at \in 0..MaxClock /\ epoch \in 0..MaxClock /\ instance \in Nat /\ i \in Nat /\ i - 1 \in Nat
         /\ ids[i].at - epoch \in Nat
         /\ (i - 1) % SequenceNumbers \in 0..(SequenceNumbers - 1)
         /\ ids[i].id = New(ids[i].at - epoch, instance, (i - 1) % SequenceNumbers)
         /\ ClockFits => ids[i].at - epoch \in 0..(Timestamps - 1)
<1>1. ids \in Seq([id : IDs, at : 0..MaxClock]) /\ epoch \in 0..MaxClock /\ instance \in Nat
  BY Widths DEF GenInv, TypeOK
<1>2. ids[i].at \in 0..MaxClock /\ i \in Nat /\ i - 1 \in Nat
  BY <1>1, Entry
<1>3. epoch <= ids[i].at
  BY DEF GenInv, Ages
<1>4. (i - 1) % SequenceNumbers \in 0..(SequenceNumbers - 1)
  BY <1>2, Widths, Remainder
<1>5. ids[i].id = New(ids[i].at - epoch, instance, (i - 1) % SequenceNumbers)
  BY DEF GenInv, MadeBy
<1>6. ClockFits => ids[i].at - epoch \in 0..(Timestamps - 1)
  BY <1>1, <1>2, <1>3, Widths DEF ClockFits
<1> QED
  BY <1>1, <1>2, <1>3, <1>4, <1>5, <1>6

LEMMA Recovered == GenInv /\ ClockFits => FieldsRecovered
<1> SUFFICES ASSUME GenInv, ClockFits, NEW i \in 1..Len(ids)
             PROVE  /\ Timestamp(ids[i].id) = ids[i].at - epoch
                    /\ Instance(ids[i].id) = instance % Instances
                    /\ Sequence(ids[i].id) = (i - 1) % SequenceNumbers
  BY DEF FieldsRecovered
<1> DEFINE t == ids[i].at - epoch
           q == (i - 1) % SequenceNumbers
<1>1. /\ t \in Nat /\ t \in 0..(Timestamps - 1) /\ instance \in Nat
      /\ q \in 0..(SequenceNumbers - 1) /\ q \in Nat /\ ids[i].id = New(t, instance, q)
  BY Sound, Widths
<1> HIDE DEF t, q
<1>2. t % Timestamps = t /\ q % SequenceNumbers = q
  BY <1>1, Widths, SmallRemainder
<1>3. /\ Timestamp(ids[i].id) = t /\ Instance(ids[i].id) = instance % Instances
      /\ Sequence(ids[i].id) = q
  BY <1>1, <1>2, FieldsOfNew
<1> QED
  BY <1>3 DEF t, q

LEMMA Sorted == GenInv /\ ClockFits => SortedByTime
<1> SUFFICES ASSUME GenInv, ClockFits, NEW i \in 1..Len(ids), NEW j \in 1..Len(ids),
                    ids[i].at < ids[j].at
             PROVE  ids[i].id < ids[j].id
  BY DEF SortedByTime
<1> DEFINE t == ids[i].at - epoch
           u == ids[j].at - epoch
           q == (i - 1) % SequenceNumbers
           p == (j - 1) % SequenceNumbers
<1>1. /\ t \in 0..(Timestamps - 1) /\ u \in 0..(Timestamps - 1) /\ t < u
      /\ instance \in Nat /\ q \in Nat /\ p \in Nat
      /\ ids[i].id = New(t, instance, q) /\ ids[j].id = New(u, instance, p)
  <2>1. /\ ids[i].at \in 0..MaxClock /\ epoch \in 0..MaxClock /\ instance \in Nat
        /\ q \in 0..(SequenceNumbers - 1) /\ t \in 0..(Timestamps - 1)
        /\ ids[i].id = New(t, instance, q)
    BY Sound
  <2>2. /\ ids[j].at \in 0..MaxClock /\ p \in 0..(SequenceNumbers - 1)
        /\ u \in 0..(Timestamps - 1) /\ ids[j].id = New(u, instance, p)
    BY Sound
  <2>a. ids[i].at \in Int /\ ids[j].at \in Int /\ epoch \in Int
    BY <2>1, <2>2, Widths
  <2>3. t < u
    BY <2>a
  <2> QED
    BY <2>1, <2>2, <2>3, Widths
<1> HIDE DEF t, u, q, p
<1> QED
  BY <1>1, LaterIsLarger

\* Two IDs that agree were made in one millisecond, with one sequence number,
\* and equal sequence numbers are at least 2^12 places apart.
LEMMA Unique == GenInv /\ ClockFits => UniqueIDs
<1> SUFFICES ASSUME GenInv, ClockFits, NEW i \in 1..Len(ids), NEW j \in 1..Len(ids),
                    i < j, ids[i].id = ids[j].id
             PROVE  ids[i].at = ids[j].at /\ j - i >= SequenceNumbers
  BY DEF UniqueIDs
<1>1. FieldsRecovered
  BY Recovered
<1>2. ids[i].at - epoch = ids[j].at - epoch
  BY <1>1, Zenon DEF FieldsRecovered
<1>3. (i - 1) % SequenceNumbers = (j - 1) % SequenceNumbers
  BY <1>1, Zenon DEF FieldsRecovered
<1>4. ids[i].at = ids[j].at
  <2>1. ids[i].at \in 0..MaxClock /\ epoch \in 0..MaxClock
    BY Sound, Zenon
  <2>2. ids[j].at \in 0..MaxClock
    BY Sound, Zenon
  <2> DEFINE x == ids[i].at
             y == ids[j].at
  <2>3. x \in Int /\ y \in Int /\ epoch \in Int /\ x - epoch = y - epoch
    BY <1>2, <2>1, <2>2, Widths
  <2> HIDE DEF x, y
  <2>4. x = y
    BY <2>3
  <2> QED
    BY <2>4, Zenon DEF x, y
<1> DEFINE a == i - 1
           b == j - 1
<1>5. a \in Nat /\ b \in Nat /\ a < b /\ j - i = b - a
  BY Sound
<1>6. a % SequenceNumbers = b % SequenceNumbers
  BY <1>3
<1> HIDE DEF a, b
<1>7. ~(b - a < SequenceNumbers)
  BY <1>5, <1>6, Widths, DistinctRemainders
<1>8. b - a >= SequenceNumbers
  BY <1>5, <1>7, Widths
<1> QED
  BY <1>4, <1>5, <1>8

\* The accessors read from an ID what Generate put into it, for instances
\* that do not fit their ten bits too (snowflake.go:33-58, 84-94).
THEOREM FieldsRecoveredAlways == ASSUME ClockFits PROVE Spec => []FieldsRecovered
<1>1. GenInv => FieldsRecovered
  BY Recovered
<1> QED
  BY <1>1, GenAlways, PTL

\* IDs of different milliseconds sort by time, whatever their sequence numbers.
THEOREM SortedByTimeAlways == ASSUME ClockFits PROVE Spec => []SortedByTime
<1>1. GenInv => SortedByTime
  BY Sorted
<1> QED
  BY <1>1, GenAlways, PTL

\* "Generate returns a unique ID" (snowflake.go:84) for any number of IDs and
\* any rate: an ID comes again only in its own millisecond, no fewer than 2^12
\* IDs later, although the generator never looks whether its numbers wrapped.
THEOREM UniqueIDsAlways == ASSUME ClockFits PROVE Spec => []UniqueIDs
<1>1. GenInv => UniqueIDs
  BY Unique
<1> QED
  BY <1>1, GenAlways, PTL
==============================================================================
