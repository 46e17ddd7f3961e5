---------------------------- MODULE IoSerialize -----------------------------
(***************************************************************************)
(* io_serialize.c: sizes as one to four octets, seven bits in each, the    *)
(* least significant first, the top bit set in all but the last.           *)
(*                                                                         *)
(* Octets are numbers.  A bit mask is stated as what it tests: val & mask  *)
(* is not zero iff val reaches a bound, once the masks of the tests before *)
(* it are known to be clear.  Values of 2^32 and more are left out.        *)
(***************************************************************************)
EXTENDS Integers, Sequences

\* What one unit of each seven bits stands for.
Unit == <<1, 128, 16384, 2097152, 268435456>>

\* The first value with bits under the mask 0xF0000000.
TooBig == 268435456

Fails == -1

\* How many octets io_store_size_unrolled() writes.
SpaceFor(val) ==
  IF val >= TooBig THEN Fails
  ELSE IF val >= 2097152 THEN 4
  ELSE IF val >= 16384 THEN 3
  ELSE IF val >= 128 THEN 2 ELSE 1

\* io_store_size(NULL, ...).  The mask of the test for two octets is
\* 0x00003F10: bits 8 to 13, and bit 4 where bit 7 was meant.
SpaceForNull(val) ==
  IF val >= TooBig THEN Fails
  ELSE IF val >= 2097152 THEN 4
  ELSE IF val >= 16384 THEN 3
  ELSE IF val >= 256 \/ (val \div 16) % 2 = 1 THEN 2 ELSE 1

\* io_store_size() into a buffer that is large enough: the octets it leaves.
Stored(val) ==
  [i \in 1..SpaceFor(val) |->
     ((val \div Unit[i]) % 128) + (IF i < SpaceFor(val) THEN 128 ELSE 0)]

-----------------------------------------------------------------------------
\* Octets without the top bit, each of which would end a size.
Ends(buf) == {i \in 1..Len(buf) : buf[i] < 128}

FirstEnd(buf) == CHOOSE i \in Ends(buf) : \A j \in Ends(buf) : i <= j

\* The first r octets put together.
Value(buf, r) ==
  LET digit(i) == IF i <= r THEN (buf[i] % 128) * Unit[i] ELSE 0
  IN digit(1) + digit(2) + digit(3) + digit(4) + digit(5)

\* Mutant: a size of more than three octets is taken for an overflow.
ParsedShort(buf) ==
  IF Ends(buf) = {}
    THEN [used |-> IF Len(buf) < 4 THEN 0 ELSE Fails, val |-> 0]
    ELSE LET r == FirstEnd(buf)
         IN IF r <= 3 THEN [used |-> r, val |-> Value(buf, r)] ELSE [used |-> Fails, val |-> 0]

\* Mutant: a size that is cut short is taken as it is.
ParsedEarly(buf) ==
  IF Ends(buf) = {}
    THEN [used |-> IF Len(buf) < 4 THEN Len(buf) ELSE Fails, val |-> Value(buf, Len(buf))]
    ELSE LET r == FirstEnd(buf)
         IN IF r <= 4 \/ (r = 5 /\ buf[5] < 16)
              THEN [used |-> r, val |-> Value(buf, r)]
              ELSE [used |-> Fails, val |-> 0]

\* io_parse_size(): the octets used and the value, 0 for too few of them.
Parsed(buf) ==
  IF Ends(buf) = {}
    THEN [used |-> IF Len(buf) < 4 THEN 0 ELSE Fails, val |-> 0]
    ELSE LET r == FirstEnd(buf)
         IN IF r <= 4 \/ (r = 5 /\ buf[5] < 16)
              THEN [used |-> r, val |-> Value(buf, r)]
              ELSE [used |-> Fails, val |-> 0]

=============================================================================
