------------------------- MODULE IoSerializeProofs --------------------------
(***************************************************************************)
(* io_parse_size() is the inverse of io_store_size(), for every size that  *)
(* can be stored and whatever follows it in the buffer.  (The leaves ask   *)
(* for SMT because Zenon writes numbers in unary.)                         *)
(***************************************************************************)
EXTENDS SizeStream, FrameFacts

Octets == 0..255

\* The sizes that io_store_size() does not refuse.
Storable == {val \in Nat : val < TooBig}

\* The low seven bits of an octet that was stored.
LEMMA Digits ==
  ASSUME NEW q \in Nat
  PROVE  /\ q % 128 \in 0..127
         /\ ((q % 128) + 128) % 128 = q % 128
         /\ (q % 128) % 128 = q % 128
PROOF
  BY SMT

\* One to four octets, the last of which is the only one without the top bit.
LEMMA StoredShape ==
  ASSUME NEW val \in Storable
  PROVE  /\ SpaceFor(val) \in 1..4
         /\ Stored(val) \in Seq(Octets)
         /\ Len(Stored(val)) = SpaceFor(val)
         /\ \A i \in 1..SpaceFor(val) :
              /\ Stored(val)[i] < 128 <=> i = SpaceFor(val)
              /\ Stored(val)[i] % 128 = (val \div Unit[i]) % 128
PROOF
<1>1. SpaceFor(val) \in 1..4 /\ val \in Nat
  BY SMT DEF Storable, TooBig, SpaceFor, Fails
<1>2. ASSUME NEW i \in 1..SpaceFor(val)
      PROVE  /\ Stored(val)[i] \in Octets
             /\ Stored(val)[i] < 128 <=> i = SpaceFor(val)
             /\ Stored(val)[i] % 128 = (val \div Unit[i]) % 128
  <2> DEFINE q == val \div Unit[i]
  <2>1. q \in Nat
    <3>1. i \in 1..4
      BY SMT, <1>1
    <3> QED BY SMT, <1>1, <3>1 DEF Unit
  <2>2. Stored(val)[i] = (q % 128) + (IF i < SpaceFor(val) THEN 128 ELSE 0)
    BY SMT DEF Stored
  <2> HIDE DEF q
  <2>3. /\ Stored(val)[i] \in Octets
        /\ Stored(val)[i] < 128 <=> i = SpaceFor(val)
        /\ Stored(val)[i] % 128 = q % 128
    BY SMT, <1>1, <2>1, <2>2, Digits DEF Octets
  <2> QED BY <2>3 DEF q
<1>3. Stored(val) \in Seq(Octets) /\ Len(Stored(val)) = SpaceFor(val)
  <2>1. Stored(val) = [i \in 1..SpaceFor(val) |-> Stored(val)[i]]
    BY SMT DEF Stored
  <2> QED BY SMT, <1>1, <1>2, <2>1
<1> QED BY SMT, <1>1, <1>2, <1>3

\* A number is the sum of its digits to the base 128.
LEMMA DigitSum ==
  ASSUME NEW val \in Storable
  PROVE  LET d(i) == ((val \div Unit[i]) % 128) * Unit[i]
         IN /\ val < 128 => val = d(1)
            /\ val < 16384 => val = d(1) + d(2)
            /\ val < 2097152 => val = d(1) + d(2) + d(3)
            /\ val = d(1) + d(2) + d(3) + d(4)
PROOF
  BY SMT DEF Storable, TooBig, Unit

\* The value of the first SpaceFor(val) octets of a buffer that begins with
\* what was stored for val.
LEMMA StoredValue ==
  ASSUME NEW val \in Storable, NEW buf \in Seq(Octets),
         \A i \in 1..SpaceFor(val) : buf[i] = Stored(val)[i]
  PROVE  Value(buf, SpaceFor(val)) = val
PROOF
<1> DEFINE d(i) == ((val \div Unit[i]) % 128) * Unit[i]
           n == SpaceFor(val)
           digit(i) == IF i <= n THEN (buf[i] % 128) * Unit[i] ELSE 0
<1>1. \A i \in 1..n : digit(i) = d(i)
  BY SMT, StoredShape
<1>2. \A i \in 1..5 : ~(i <= n) => digit(i) = 0
  OBVIOUS
<1>3. Value(buf, n) = digit(1) + digit(2) + digit(3) + digit(4) + digit(5)
  BY DEF Value
<1>4. \A i \in 1..4 : d(i) \in Nat
  BY SMT DEF Storable, Unit
<1>5. n \in 1..4
  BY StoredShape
<1>6. /\ n = 1 => val = d(1)
      /\ n = 2 => val = d(1) + d(2)
      /\ n = 3 => val = d(1) + d(2) + d(3)
      /\ n = 4 => val = d(1) + d(2) + d(3) + d(4)
  <2>1. /\ n = 1 => val < 128
        /\ n = 2 => val < 16384
        /\ n = 3 => val < 2097152
    BY SMT DEF Storable, SpaceFor, Fails, TooBig
  <2> QED BY <2>1, DigitSum
<1> HIDE DEF d, n, digit
<1>7. Value(buf, n) = val
  BY SMT, <1>1, <1>2, <1>3, <1>4, <1>5, <1>6
<1> QED BY <1>7 DEF n

\* Where the octets of a size have arrived, io_parse_size() finds it.
LEMMA CompleteIsParsed ==
  ASSUME NEW val \in Storable, NEW buf \in Seq(Octets), Len(buf) >= SpaceFor(val),
         \A i \in 1..SpaceFor(val) : buf[i] = Stored(val)[i]
  PROVE  Parsed(buf) = [used |-> SpaceFor(val), val |-> val]
PROOF
<1> DEFINE n == SpaceFor(val)
<1>1. n \in 1..4
  BY StoredShape
<1>2. n \in Ends(buf) /\ \A j \in Ends(buf) : n <= j
  BY SMT, <1>1, StoredShape DEF Ends
<1>3. Value(buf, n) = val
  BY StoredValue
<1>4. ASSUME NEW r \in Ends(buf), \A j \in Ends(buf) : r <= j
      PROVE  r = n
  BY SMT, <1>2, <1>4 DEF Ends
<1>5. FirstEnd(buf) = n
  BY <1>2, <1>4, Zenon DEF FirstEnd
<1>6. n <= 4 /\ Ends(buf) # {}
  BY SMT, <1>1, <1>2
<1> HIDE DEF n
<1>7. Parsed(buf) = [used |-> n, val |-> val]
  BY <1>3, <1>5, <1>6, SMT DEF Parsed
<1> QED BY <1>7 DEF n

\* Where they have not, it asks for more, whatever has arrived of them.
LEMMA CutAsksForMore ==
  ASSUME NEW val \in Storable, NEW buf \in Seq(Octets), Len(buf) < SpaceFor(val),
         \A i \in 1..Len(buf) : buf[i] = Stored(val)[i]
  PROVE  Parsed(buf).used = 0
PROOF
<1>1. SpaceFor(val) \in 1..4 /\ Len(buf) \in Nat
  BY StoredShape
<1>2. Ends(buf) = {}
  BY SMT, <1>1, StoredShape DEF Ends
<1> QED BY SMT, <1>1, <1>2 DEF Parsed

\* What io_store_size() writes, io_parse_size() reads back, to the octet,
\* whatever the buffer holds behind it.
THEOREM SizeRoundTrip ==
  ASSUME NEW val \in Storable, NEW rest \in Seq(Octets)
  PROVE  Parsed(Stored(val) \o rest) = [used |-> SpaceFor(val), val |-> val]
PROOF
<1> DEFINE buf == Stored(val) \o rest
<1>1. Stored(val) \in Seq(Octets) /\ Len(Stored(val)) = SpaceFor(val) /\ SpaceFor(val) \in 1..4
  BY StoredShape
<1>2. /\ buf \in Seq(Octets)
      /\ Len(buf) >= SpaceFor(val)
      /\ \A i \in 1..SpaceFor(val) : buf[i] = Stored(val)[i]
  BY SMT, <1>1
<1> HIDE DEF buf
<1>3. Parsed(buf) = [used |-> SpaceFor(val), val |-> val]
  BY <1>2, CompleteIsParsed
<1> QED BY <1>3 DEF buf

\* A size that has not arrived completely is neither taken for another one
\* nor refused: parse() asks for more.
THEOREM CutSizeIsIncomplete ==
  ASSUME NEW val \in Storable, NEW k \in 0..(SpaceFor(val) - 1)
  PROVE  Parsed(SubSeq(Stored(val), 1, k)).used = 0
PROOF
<1> DEFINE buf == SubSeq(Stored(val), 1, k)
<1>1. /\ SpaceFor(val) \in 1..4
      /\ Stored(val) \in Seq(Octets) /\ Len(Stored(val)) = SpaceFor(val)
  BY StoredShape
<1>2. buf \in Seq(Octets) /\ Len(buf) = k /\ k < SpaceFor(val) /\ \A i \in 1..k : buf[i] = Stored(val)[i]
  BY SMT, <1>1
<1> HIDE DEF buf
<1>3. Parsed(buf).used = 0
  BY <1>2, CutAsksForMore
<1> QED BY <1>3 DEF buf

-----------------------------------------------------------------------------
(* Sizes in a row: why SizeStream parses what was stored.                  *)

\* c says where in the octets of q each of the sizes ds ends.
Laid(c, ds, q) ==
  /\ c \in [0..Len(ds) -> 0..Len(q)]
  /\ c[0] = 0 /\ c[Len(ds)] = Len(q)
  /\ \A i, j \in 0..Len(ds) : i <= j => c[i] <= c[j]
  /\ \A i \in 1..Len(ds) :
       /\ c[i] = c[i - 1] + SpaceFor(ds[i])
       /\ \A j \in 1..SpaceFor(ds[i]) : q[c[i - 1] + j] = Stored(ds[i])[j]

StreamTypes ==
  /\ given \in Seq(Storable) /\ taken \in Seq(Storable)
  /\ wire \in Seq(Octets) /\ rx \in Seq(Octets)
  /\ failed \in SUBSET {"store", "parse"}

\* What was stored and not parsed is what the octets on their way spell.
StreamInv ==
  /\ StreamTypes
  /\ NeverMalformed
  /\ IsPrefix(taken, given)
  /\ \E c : Laid(c, Rest(given, Len(taken)), Cat(rx, wire))

LEMMA LaidNone ==
  ASSUME NEW q \in Seq(Octets)
  PROVE  /\ Laid([i \in 0..0 |-> 0], <<>>, <<>>)
         /\ \A c : Laid(c, <<>>, q) => q = <<>>
<1>1. Laid([i \in 0..0 |-> 0], <<>>, <<>>)
  BY DEF Laid
<1>2. ASSUME NEW c, Laid(c, <<>>, q)
      PROVE  q = <<>>
  <2>1. Len(q) = 0
    BY <1>2 DEF Laid
  <2> QED
    BY <2>1, EmptySeq
<1> QED
  BY <1>1, <1>2

\* One size more is stored behind the others.
LEMMA LaidMore ==
  ASSUME NEW ds \in Seq(Storable), NEW q \in Seq(Octets), NEW val \in Storable,
         NEW c, Laid(c, ds, q)
  PROVE  \E d : Laid(d, Append(ds, val), Cat(q, Stored(val)))
<1> DEFINE l == Len(ds)
           m == Len(q)
           n == SpaceFor(val)
           es == Append(ds, val)
           p == Cat(q, Stored(val))
           d == [i \in 0..l + 1 |-> IF i = l + 1 THEN m + n ELSE c[i]]
<1>1. n \in 1..4 /\ Stored(val) \in Seq(Octets) /\ Len(Stored(val)) = n
  BY StoredShape
<1>2. l \in Nat /\ m \in Nat
  BY LenProperties
<1>3. Len(es) = l + 1 /\ es[l + 1] = val /\ \A i \in 1..l : es[i] = ds[i]
  BY <1>2
<1>4. /\ p \in Seq(Octets) /\ Len(p) = m + n
      /\ \A i \in 1..m : p[i] = q[i]
      /\ \A j \in 1..n : p[m + j] = Stored(val)[j]
  BY <1>1, <1>2, SMT DEF Cat
<1>5. /\ c \in [0..l -> 0..m] /\ c[0] = 0 /\ c[l] = m
      /\ \A i, j \in 0..l : i <= j => c[i] <= c[j]
      /\ \A i \in 1..l : c[i] = c[i - 1] + SpaceFor(ds[i])
      /\ \A i \in 1..l : \A j \in 1..SpaceFor(ds[i]) : q[c[i - 1] + j] = Stored(ds[i])[j]
  BY DEF Laid
<1> HIDE DEF l, m, n, es, p
<1>6. d[l + 1] = m + n /\ \A i \in 0..l : d[i] = c[i] /\ c[i] \in 0..m
  BY <1>2, <1>5
<1>7. d \in [0..l + 1 -> 0..m + n]
  BY <1>1, <1>2, <1>5
<1> HIDE DEF d
<1>8. d[0] = 0
  BY <1>2, <1>5, <1>6
<1>9. ASSUME NEW i \in 0..l + 1, NEW j \in 0..l + 1, i <= j
      PROVE  d[i] <= d[j]
  <2>1. CASE j = l + 1
    BY <1>1, <1>2, <1>6, <1>7, <2>1
  <2>2. CASE j # l + 1
    <3>1. i \in 0..l /\ j \in 0..l
      BY <1>2, <1>9, <2>2
    <3>2. c[i] <= c[j]
      BY <1>5, <1>9, <3>1
    <3>3. d[i] = c[i] /\ d[j] = c[j]
      BY <1>6, <3>1
    <3> QED
      BY <3>2, <3>3
  <2> QED
    BY <2>1, <2>2
<1>10. ASSUME NEW i \in 1..l + 1
       PROVE  d[i] = d[i - 1] + SpaceFor(es[i])
  <2>1. CASE i = l + 1
    <3>1. d[i - 1] = m
      BY <1>2, <1>5, <1>6, <2>1
    <3> QED
      BY <1>3, <1>6, <2>1, <3>1 DEF n
  <2>2. CASE i # l + 1
    <3>1. i \in 1..l /\ i \in 0..l /\ i - 1 \in 0..l
      BY <1>2, <2>2
    <3> QED
      BY <1>3, <1>5, <1>6, <3>1
  <2> QED
    BY <2>1, <2>2
<1>11. ASSUME NEW i \in 1..l + 1, NEW j \in 1..SpaceFor(es[i])
       PROVE  p[d[i - 1] + j] = Stored(es[i])[j]
  <2>1. CASE i = l + 1
    <3>1. d[i - 1] = m /\ es[i] = val
      BY <1>2, <1>3, <1>5, <1>6, <2>1
    <3>2. j \in 1..n
      BY <1>11, <3>1 DEF n
    <3> QED
      BY <1>4, <3>1, <3>2
  <2>2. CASE i # l + 1
    <3>1. i \in 1..l /\ i \in 0..l /\ i - 1 \in 0..l /\ es[i] = ds[i] /\ d[i - 1] = c[i - 1]
      BY <1>2, <1>3, <1>6, <2>2
    <3>2. j \in 1..SpaceFor(ds[i]) /\ SpaceFor(ds[i]) \in 1..4
      <4>1. ds[i] \in Storable
        BY <3>1 DEF l
      <4> QED
        BY <1>11, <3>1, <4>1, StoredShape
    <3>3. c[i - 1] + j \in 1..m
      <4>1. c[i] \in 0..m /\ c[i - 1] \in 0..m /\ c[i] = c[i - 1] + SpaceFor(ds[i])
        BY <1>5, <1>6, <3>1
      <4> DEFINE u == c[i - 1]
                 v == c[i]
                 w == SpaceFor(ds[i])
      <4>2. u \in 0..m /\ v \in 0..m /\ v = u + w /\ j \in 1..w /\ w \in 1..4
        BY <3>2, <4>1
      <4> HIDE DEF u, v, w
      <4>3. u + j \in 1..m
        BY <1>2, <4>2
      <4> QED
        BY <4>3 DEF u
    <3>4. p[c[i - 1] + j] = q[c[i - 1] + j]
      BY <1>4, <3>3
    <3>5. q[c[i - 1] + j] = Stored(ds[i])[j]
      <4>1. \A h \in 1..SpaceFor(ds[i]) : q[c[i - 1] + h] = Stored(ds[i])[h]
        BY <1>5, <3>1
      <4> QED
        BY <3>2, <4>1
    <3> QED
      BY <3>1, <3>4, <3>5
  <2> QED
    BY <2>1, <2>2
<1>12. Laid(d, es, p)
  BY <1>3, <1>4, <1>6, <1>7, <1>8, <1>9, <1>10, <1>11 DEF Laid
<1> QED
  BY <1>12 DEF es, p

\* The first of the sizes is at the front, and the others lie behind it.
LEMMA LaidFirst ==
  ASSUME NEW ds \in Seq(Storable), NEW q \in Seq(Octets), ds # <<>>,
         NEW c, Laid(c, ds, q)
  PROVE  /\ ds[1] \in Storable
         /\ SpaceFor(ds[1]) <= Len(q)
         /\ \A j \in 1..SpaceFor(ds[1]) : q[j] = Stored(ds[1])[j]
         /\ \E d : Laid(d, Rest(ds, 1), Rest(q, SpaceFor(ds[1])))
<1> DEFINE l == Len(ds)
           m == Len(q)
           n == SpaceFor(ds[1])
           es == Rest(ds, 1)
           p == Rest(q, n)
           d == [i \in 0..l - 1 |-> c[i + 1] - n]
<1>1. l \in Nat \ {0} /\ m \in Nat
  BY LenProperties, EmptySeq
<1>2. ds[1] \in Storable /\ n \in 1..4
  <2>1. ds[1] \in Storable
    BY <1>1
  <2> QED
    BY <2>1, StoredShape
<1>3. /\ c \in [0..l -> 0..m] /\ c[0] = 0 /\ c[l] = m
      /\ \A i, j \in 0..l : i <= j => c[i] <= c[j]
      /\ \A i \in 1..l : c[i] = c[i - 1] + SpaceFor(ds[i])
      /\ \A i \in 1..l : \A j \in 1..SpaceFor(ds[i]) : q[c[i - 1] + j] = Stored(ds[i])[j]
  BY DEF Laid
<1>4. Len(es) = l - 1 /\ \A i \in 1..l - 1 : es[i] = ds[i + 1]
  <2>1. 1 \in 0..Len(ds)
    BY <1>1
  <2>2. Len(es) = l - 1 /\ \A i \in 1..(l - 1) : es[i] = ds[1 + i]
    BY <2>1, CutFacts, RestAt
  <2>3. \A i \in 1..(l - 1) : 1 + i = i + 1
    BY <1>1
  <2> HIDE DEF l, es
  <2> QED
    BY <2>2, <2>3
<1> HIDE DEF l, m, es
<1>5. c[1] = n /\ n \in 0..m
  <2>1. 1 \in 1..l /\ 1 \in 0..l /\ 1 - 1 = 0
    BY <1>1
  <2>2. c[1] = c[0] + n /\ c[0] = 0 /\ c[1] \in 0..m
    BY <1>3, <2>1
  <2> QED
    BY <1>2, <2>2
<1>6. \A j \in 1..n : q[j] = Stored(ds[1])[j]
  <2> SUFFICES ASSUME NEW j \in 1..n
               PROVE  q[j] = Stored(ds[1])[j]
    OBVIOUS
  <2>1. 1 \in 1..l /\ 0 + j = j /\ 1 - 1 = 0
    BY <1>1, <1>2
  <2> QED
    BY <1>3, <2>1
<1>7. Len(p) = m - n /\ \A i \in 1..m - n : p[i] = q[n + i]
  BY <1>1, <1>5 DEF Rest, m
<1> HIDE DEF n, p
<1>8. \A i \in 0..l - 1 : d[i] = c[i + 1] - n /\ i + 1 \in 1..l /\ i + 1 \in 0..l /\ c[i + 1] \in n..m
  <2> SUFFICES ASSUME NEW i \in 0..l - 1
               PROVE  d[i] = c[i + 1] - n /\ i + 1 \in 1..l /\ i + 1 \in 0..l /\ c[i + 1] \in n..m
    OBVIOUS
  <2>1. i + 1 \in 1..l /\ i + 1 \in 0..l /\ 1 \in 0..l /\ 1 <= i + 1
    BY <1>1
  <2>2. c[i + 1] \in 0..m /\ c[1] <= c[i + 1]
    BY <1>3, <2>1
  <2> QED
    BY <1>1, <1>2, <1>5, <2>1, <2>2
<1>9. d \in [0..l - 1 -> 0..m - n]
  BY <1>1, <1>2, <1>5, <1>8
<1> HIDE DEF d
<1>10. d[0] = 0 /\ d[l - 1] = m - n
  <2>1. 0 \in 0..l - 1 /\ l - 1 \in 0..l - 1 /\ 0 + 1 = 1 /\ (l - 1) + 1 = l
    BY <1>1
  <2>2. d[0] = c[1] - n /\ d[l - 1] = c[l] - n
    BY <1>8, <2>1
  <2> QED
    BY <1>1, <1>2, <1>3, <1>5, <2>2
<1>11. ASSUME NEW i \in 0..l - 1, NEW j \in 0..l - 1, i <= j
       PROVE  d[i] <= d[j]
  <2>1. i + 1 \in 0..l /\ j + 1 \in 0..l /\ i + 1 <= j + 1
    BY <1>1, <1>11
  <2>2. c[i + 1] <= c[j + 1]
    BY <1>3, <2>1
  <2>3. c[i + 1] \in n..m /\ c[j + 1] \in n..m /\ d[i] = c[i + 1] - n /\ d[j] = c[j + 1] - n
    BY <1>8
  <2> QED
    BY <1>1, <1>2, <2>2, <2>3
<1>12. ASSUME NEW i \in 1..l - 1
       PROVE  /\ d[i] = d[i - 1] + SpaceFor(es[i])
              /\ \A j \in 1..SpaceFor(es[i]) : p[d[i - 1] + j] = Stored(es[i])[j]
  <2>1. i \in 0..l - 1 /\ i - 1 \in 0..l - 1 /\ (i - 1) + 1 = i /\ i + 1 \in 1..l /\ (i + 1) - 1 = i
    BY <1>1
  <2>2. /\ d[i] = c[i + 1] - n /\ d[i - 1] = c[i] - n
        /\ c[i + 1] \in n..m /\ c[i] \in n..m
    BY <1>8, <2>1
  <2>3. es[i] = ds[i + 1] /\ es[i] \in Storable
    BY <1>4, <2>1 DEF l
  <2>4. SpaceFor(es[i]) \in 1..4
    BY <2>3, StoredShape
  <2>5. c[i + 1] = c[i] + SpaceFor(es[i])
    BY <1>3, <2>1, <2>3
  <2>6. d[i] = d[i - 1] + SpaceFor(es[i])
    <3> DEFINE a == c[i]
               b == c[i + 1]
               s == SpaceFor(es[i])
    <3>1. d[i] = b - n /\ d[i - 1] = a - n /\ a \in n..m /\ b = a + s /\ s \in 1..4
      BY <2>2, <2>4, <2>5
    <3> HIDE DEF a, b, s
    <3>2. d[i] = d[i - 1] + s
      BY <1>1, <1>2, <3>1
    <3> QED
      BY <3>2 DEF s
  <2>7. ASSUME NEW j \in 1..SpaceFor(es[i])
        PROVE  p[d[i - 1] + j] = Stored(es[i])[j]
    <3>1. q[c[i] + j] = Stored(es[i])[j]
      <4>1. \A h \in 1..SpaceFor(ds[i + 1]) : q[c[(i + 1) - 1] + h] = Stored(ds[i + 1])[h]
        BY <1>3, <2>1
      <4>2. j \in 1..SpaceFor(ds[i + 1])
        BY <2>3, <2>7
      <4>3. q[c[(i + 1) - 1] + j] = Stored(ds[i + 1])[j]
        BY <4>1, <4>2
      <4> QED
        BY <2>1, <2>3, <4>3
    <3>2. d[i - 1] + j \in 1..m - n /\ n + (d[i - 1] + j) = c[i] + j
      <4> DEFINE a == c[i]
                 b == c[i + 1]
                 s == SpaceFor(es[i])
                 x == d[i - 1]
      <4>1. x = a - n /\ a \in n..m /\ b \in n..m /\ b = a + s /\ s \in 1..4 /\ j \in 1..s
        BY <2>2, <2>4, <2>5, <2>7
      <4> HIDE DEF a, b, s, x
      <4>2. x + j \in 1..m - n /\ n + (x + j) = a + j
        BY <1>1, <1>2, <4>1
      <4> QED
        BY <4>2 DEF a, x
    <3>3. p[d[i - 1] + j] = q[n + (d[i - 1] + j)]
      BY <1>7, <3>2
    <3> QED
      BY <3>1, <3>2, <3>3
  <2> QED
    BY <2>6, <2>7
<1>13. Laid(d, es, p)
  BY <1>4, <1>7, <1>9, <1>10, <1>11, <1>12 DEF Laid
<1> QED
  BY <1>2, <1>5, <1>6, <1>13 DEF n, es, p, m

\* Nothing in the buffer is too few octets.
LEMMA NothingAsksForMore == Parsed(<<>>).used = 0
<1>1. Len(<<>>) = 0
  BY EmptySeq
<1>2. Ends(<<>>) = {}
  BY <1>1, SMT DEF Ends
<1> QED
  BY <1>1, <1>2, SMT DEF Parsed

\* What parse() says of the octets x that have arrived, when x and those that
\* follow, w, are the sizes ds: the first of them, if it has arrived.
LEMMA ParseTells ==
  ASSUME NEW ds \in Seq(Storable), NEW x \in Seq(Octets), NEW w \in Seq(Octets),
         NEW c, Laid(c, ds, Cat(x, w))
  PROVE  /\ ds = <<>> => x = <<>> /\ Parsed(x).used = 0
         /\ ds # <<>> =>
              /\ ds[1] \in Storable
              /\ Len(x) < SpaceFor(ds[1]) => Parsed(x).used = 0
              /\ Len(x) >= SpaceFor(ds[1]) => Parsed(x) = [used |-> SpaceFor(ds[1]), val |-> ds[1]]
              /\ SpaceFor(ds[1]) <= Len(Cat(x, w))
              /\ \E d : Laid(d, Rest(ds, 1), Rest(Cat(x, w), SpaceFor(ds[1])))
<1> DEFINE q == Cat(x, w)
<1>1. /\ Len(x) \in Nat /\ Len(w) \in Nat /\ q \in Seq(Octets) /\ Len(q) = Len(x) + Len(w)
      /\ \A i \in 1..Len(x) : q[i] = x[i]
  BY CatAt
<1> HIDE DEF q
<1>2. Laid(c, ds, q)
  BY DEF q
<1>3. CASE ds = <<>>
  <2>1. q = <<>>
    BY <1>1, <1>2, <1>3, LaidNone
  <2>2. Len(q) = 0
    BY <2>1, EmptySeq
  <2>3. Len(x) = 0
    BY <1>1, <2>2
  <2>4. x = <<>>
    BY <2>3, EmptySeq
  <2> QED
    BY <1>3, <2>4, NothingAsksForMore
<1>4. CASE ds # <<>>
  <2> DEFINE v == ds[1]
             n == SpaceFor(v)
  <2>1. /\ v \in Storable /\ n <= Len(q)
        /\ \A j \in 1..n : q[j] = Stored(v)[j]
        /\ \E d : Laid(d, Rest(ds, 1), Rest(q, n))
    BY <1>1, <1>2, <1>4, LaidFirst
  <2> HIDE DEF v
  <2>2. n \in 1..4
    BY <2>1, StoredShape
  <2>3. ASSUME Len(x) < n
        PROVE  Parsed(x).used = 0
    <3>1. \A i \in 1..Len(x) : x[i] = Stored(v)[i]
      BY <1>1, <2>1, <2>2, <2>3
    <3> QED
      BY <2>1, <2>3, <3>1, CutAsksForMore
  <2>4. ASSUME Len(x) >= n
        PROVE  Parsed(x) = [used |-> n, val |-> v]
    <3>1. \A i \in 1..n : x[i] = Stored(v)[i]
      BY <1>1, <2>1, <2>2, <2>4
    <3> QED
      BY <2>1, <2>4, <3>1, CompleteIsParsed
  <2> QED
    BY <1>4, <2>1, <2>3, <2>4 DEF v, q
<1> QED
  BY <1>3, <1>4

\* Cutting the front off what has arrived is cutting it off the whole.
LEMMA RestOfCat ==
  ASSUME NEW S, NEW x \in Seq(S), NEW w \in Seq(S), NEW n \in 0..Len(x)
  PROVE  Rest(x, n) \in Seq(S) /\ Cat(Rest(x, n), w) = Rest(Cat(x, w), n)
<1> DEFINE t == Taken(x, n)
           r == Rest(x, n)
<1>1. t \in Seq(S) /\ Len(t) = n /\ r \in Seq(S) /\ Cat(t, r) = x
  BY CutFacts DEF Cat
<1> HIDE DEF t, r
<1>2. Cat(r, w) \in Seq(S) /\ Cat(Cat(t, r), w) = Cat(t, Cat(r, w))
  BY <1>1, CatType, CatAssoc
<1>3. Rest(Cat(t, Cat(r, w)), Len(t)) = Cat(r, w)
  BY <1>1, <1>2, CatCut
<1> QED
  BY <1>1, <1>2, <1>3 DEF r

LEMMA StreamStarts == Init => StreamInv
<1> SUFFICES ASSUME Init
             PROVE  StreamInv
  OBVIOUS
<1>1. /\ given = <<>> /\ wire = <<>> /\ rx = <<>> /\ taken = <<>> /\ failed = {}
      /\ <<>> \in Seq(Storable) /\ <<>> \in Seq(Octets) /\ Len(<<>>) = 0
  BY EmptySeq DEF Init
<1>2. Rest(<<>>, 0) = <<>> /\ IsPrefix(<<>>, <<>>)
  <2>1. Rest(<<>>, 0) = <<>> /\ Taken(<<>>, 0) = <<>>
    BY <1>1, CutAtEnds
  <2> QED
    BY <1>1, <2>1 DEF IsPrefix
<1>3. Cat(<<>>, <<>>) = <<>>
  BY <1>1, CatEmpty
<1>4. \E c : Laid(c, <<>>, <<>>)
  BY <1>1, LaidNone
<1>5. StreamTypes
  BY <1>1 DEF StreamTypes
<1>6. NeverMalformed
  BY <1>1 DEF NeverMalformed
<1>7. IsPrefix(taken, given) /\ \E c : Laid(c, Rest(given, Len(taken)), Cat(rx, wire))
  BY <1>1, <1>2, <1>3, <1>4
<1> QED
  BY <1>5, <1>6, <1>7 DEF StreamInv

LEMMA StreamOfStore ==
  ASSUME StreamInv, NEW val \in Sizes, Store(val)
  PROVE  StreamInv'
<1>1. /\ given \in Seq(Storable) /\ taken \in Seq(Storable) /\ wire \in Seq(Octets) /\ rx \in Seq(Octets)
      /\ IsPrefix(taken, given) /\ "parse" \notin failed
  BY DEF StreamInv, StreamTypes, NeverMalformed
<1> DEFINE ds == Rest(given, Len(taken))
           q == Cat(rx, wire)
<1>2. PICK c : Laid(c, ds, q)
  BY DEF StreamInv
<1>3. rx' = rx /\ taken' = taken /\ failed = {}
  BY DEF Store
<1>4. CASE SpaceFor(val) = Fails
  <2>1. failed' = {"store"} /\ given' = given /\ wire' = wire
    BY <1>4 DEF Store
  <2> QED
    BY <1>1, <1>2, <1>3, <2>1 DEF StreamInv, StreamTypes, NeverMalformed
<1>5. CASE SpaceFor(val) # Fails
  <2>1. given' = Append(given, val) /\ wire' = Cat(wire, Stored(val)) /\ failed' = failed
    BY <1>5 DEF Store, Cat
  <2>2. val \in Storable
    BY <1>5, SizesAssumption, SMT DEF Storable, SpaceFor, TooBig
  <2>3. Stored(val) \in Seq(Octets)
    BY <2>2, StoredShape
  <2>4. /\ Append(given, val) \in Seq(Storable) /\ Cat(wire, Stored(val)) \in Seq(Octets)
        /\ IsPrefix(taken, Append(given, val))
    BY <1>1, <2>2, <2>3, AppendProperties, CatType, PrefixOfAppend
  <2>5. ds \in Seq(Storable) /\ Len(taken) \in 0..Len(given)
    BY <1>1, AfterPrefix
  <2>6. Rest(Append(given, val), Len(taken)) = Append(ds, val)
    BY <1>1, <2>2, <2>5, RestOfAppend
  <2>7. Cat(rx, Cat(wire, Stored(val))) = Cat(q, Stored(val)) /\ q \in Seq(Octets)
    BY <1>1, <2>3, CatAssoc, CatType
  <2> HIDE DEF ds, q
  <2>8. \E d : Laid(d, Append(ds, val), Cat(q, Stored(val)))
    BY <1>2, <2>2, <2>5, <2>7, LaidMore
  <2>9. \E d : Laid(d, Rest(given', Len(taken')), Cat(rx', wire'))
    BY <1>3, <2>1, <2>6, <2>7, <2>8
  <2>10. StreamTypes' /\ NeverMalformed' /\ IsPrefix(taken', given')
    BY <1>1, <1>3, <2>1, <2>4 DEF StreamTypes, NeverMalformed
  <2> QED
    BY <2>9, <2>10 DEF StreamInv
<1> QED
  BY <1>4, <1>5

LEMMA StreamOfReceive == StreamInv /\ Receive => StreamInv'
<1> SUFFICES ASSUME StreamInv, Receive
             PROVE  StreamInv'
  OBVIOUS
<1>1. /\ wire \in Seq(Octets) /\ rx \in Seq(Octets)
  BY DEF StreamInv, StreamTypes
<1>2. PICK n \in 1..Len(wire) : rx' = Cat(rx, Taken(wire, n)) /\ wire' = Rest(wire, n)
  BY DEF Receive, Cat
<1>3. given' = given /\ taken' = taken /\ failed' = failed
  BY DEF Receive
<1> DEFINE t == Taken(wire, n)
           r == Rest(wire, n)
<1>4. t \in Seq(Octets) /\ r \in Seq(Octets) /\ Cat(t, r) = wire
  BY <1>1, CutFacts DEF Cat
<1> HIDE DEF t, r
<1>5. Cat(rx, t) \in Seq(Octets) /\ Cat(Cat(rx, t), r) = Cat(rx, wire)
  BY <1>1, <1>4, CatType, CatAssoc
<1>6. rx' \in Seq(Octets) /\ wire' \in Seq(Octets) /\ Cat(rx', wire') = Cat(rx, wire)
  BY <1>2, <1>4, <1>5 DEF t, r
<1> QED
  BY <1>3, <1>6 DEF StreamInv, StreamTypes, NeverMalformed

\* What parse() would say, in any reachable state.
LEMMA ParseSays ==
  ASSUME StreamInv
  PROVE  LET k == Len(taken) + 1
             v == given[k]
             n == SpaceFor(v)
         IN /\ Rest(given, Len(taken)) = <<>> => taken = given /\ rx = <<>> /\ Parsed(rx).used = 0
            /\ Rest(given, Len(taken)) # <<>> =>
                 /\ v \in Storable /\ n \in 1..4
                 /\ Len(rx) < n => Parsed(rx).used = 0
                 /\ Len(rx) >= n => Parsed(rx) = [used |-> n, val |-> v]
                 /\ n <= Len(Cat(rx, wire))
                 /\ \E d : Laid(d, Rest(given, k), Rest(Cat(rx, wire), n))
                 /\ IsPrefix(Append(taken, v), given) /\ Len(Append(taken, v)) = k
<1>1. /\ given \in Seq(Storable) /\ taken \in Seq(Storable) /\ wire \in Seq(Octets) /\ rx \in Seq(Octets)
      /\ IsPrefix(taken, given)
  BY DEF StreamInv, StreamTypes
<1> DEFINE ds == Rest(given, Len(taken))
           k == Len(taken) + 1
           v == given[k]
           n == SpaceFor(v)
<1>2. PICK c : Laid(c, ds, Cat(rx, wire))
  BY DEF StreamInv
<1>3. /\ ds \in Seq(Storable) /\ (ds = <<>> => taken = given)
      /\ ds # <<>> => /\ ds[1] = v /\ Rest(ds, 1) = Rest(given, k)
                      /\ IsPrefix(Append(taken, v), given) /\ Len(Append(taken, v)) = k
  BY <1>1, AfterPrefix
<1> HIDE DEF ds, k, v
<1>4. /\ ds = <<>> => rx = <<>> /\ Parsed(rx).used = 0
      /\ ds # <<>> =>
           /\ ds[1] \in Storable
           /\ Len(rx) < SpaceFor(ds[1]) => Parsed(rx).used = 0
           /\ Len(rx) >= SpaceFor(ds[1]) => Parsed(rx) = [used |-> SpaceFor(ds[1]), val |-> ds[1]]
           /\ SpaceFor(ds[1]) <= Len(Cat(rx, wire))
           /\ \E d : Laid(d, Rest(ds, 1), Rest(Cat(rx, wire), SpaceFor(ds[1])))
  BY <1>1, <1>2, <1>3, ParseTells
<1>5. ds # <<>> =>
        /\ v \in Storable
        /\ Len(rx) < n => Parsed(rx).used = 0
        /\ Len(rx) >= n => Parsed(rx) = [used |-> n, val |-> v]
        /\ n <= Len(Cat(rx, wire))
        /\ \E d : Laid(d, Rest(given, k), Rest(Cat(rx, wire), n))
  BY <1>3, <1>4
<1>6. ds # <<>> => n \in 1..4
  BY <1>5, StoredShape
<1> QED
  BY <1>3, <1>4, <1>5, <1>6 DEF ds, v, k

LEMMA StreamOfParse == StreamInv /\ Parse => StreamInv'
<1> SUFFICES ASSUME StreamInv, Parse
             PROVE  StreamInv'
  OBVIOUS
<1>1. /\ given \in Seq(Storable) /\ taken \in Seq(Storable) /\ wire \in Seq(Octets) /\ rx \in Seq(Octets)
      /\ "parse" \notin failed /\ failed \in SUBSET {"store", "parse"}
  BY DEF StreamInv, StreamTypes, NeverMalformed
<1> DEFINE k == Len(taken) + 1
           v == given[k]
           n == SpaceFor(v)
           q == Cat(rx, wire)
<1>2. Parsed(rx).used # 0 /\ given' = given /\ wire' = wire
  BY DEF Parse
<1>3. Len(rx) \in Nat
  BY <1>1, LenProperties
<1>4. /\ v \in Storable /\ n \in 1..4 /\ Len(rx) >= n
      /\ Parsed(rx) = [used |-> n, val |-> v]
      /\ \E d : Laid(d, Rest(given, k), Rest(q, n))
      /\ IsPrefix(Append(taken, v), given) /\ Len(Append(taken, v)) = k
  BY <1>2, <1>3, ParseSays
<1>5. Parsed(rx).used = n /\ Parsed(rx).val = v /\ n # Fails /\ n \in 0..Len(rx)
  BY <1>3, <1>4, SMT DEF Fails
<1>6. taken' = Append(taken, v) /\ rx' = Rest(rx, n) /\ failed' = failed
  BY <1>5 DEF Parse
<1> HIDE DEF k, v, n
<1>7. Rest(rx, n) \in Seq(Octets) /\ Cat(Rest(rx, n), wire) = Rest(q, n)
  BY <1>1, <1>5, RestOfCat
<1>8. Append(taken, v) \in Seq(Storable)
  BY <1>1, <1>4, AppendProperties
<1> HIDE DEF q
<1>9. \E d : Laid(d, Rest(given', Len(taken')), Cat(rx', wire'))
  BY <1>2, <1>4, <1>6, <1>7
<1>10. StreamTypes' /\ NeverMalformed' /\ IsPrefix(taken', given')
  BY <1>1, <1>2, <1>4, <1>6, <1>7, <1>8 DEF StreamTypes, NeverMalformed
<1> QED
  BY <1>9, <1>10 DEF StreamInv

\* The sizes that were stored and not parsed are what the octets on their way
\* spell, wherever these are cut, and parse() has refused none.
THEOREM StreamInvariant == Spec => []StreamInv
<1>1. StreamInv /\ [Next]_vars => StreamInv'
  <2> SUFFICES ASSUME StreamInv, [Next]_vars
               PROVE  StreamInv'
    OBVIOUS
  <2>1. ASSUME NEW val \in Sizes, Store(val)
        PROVE  StreamInv'
    BY <2>1, StreamOfStore
  <2>2. CASE Terminated \/ UNCHANGED vars
    BY <2>2 DEF Terminated, vars, StreamInv, StreamTypes, NeverMalformed
  <2> QED
    BY <2>1, <2>2, StreamOfReceive, StreamOfParse DEF Next
<1> QED
  BY <1>1, StreamStarts, PTL DEF Spec

\* Any number of sizes, sent through a stream that cuts them anywhere, are
\* parsed as they were stored; and when parse() asks for more though nothing
\* is on its way, all of them have been.
THEOREM StreamOfSizesArrives == Spec => []SizesArrive
<1>1. StreamInv => SizesArrive
  <2> SUFFICES ASSUME StreamInv
               PROVE  SizesArrive
    OBVIOUS
  <2>1. IsPrefix(taken, given) /\ rx \in Seq(Octets)
    BY DEF StreamInv, StreamTypes
  <2>2. ASSUME wire = <<>>, Parsed(rx).used = 0
        PROVE  taken = given /\ rx = <<>>
    <3>1. Cat(rx, wire) = rx
      BY <2>1, <2>2, CatEmpty
    <3>2. CASE Rest(given, Len(taken)) # <<>>
      <4> DEFINE v == given[Len(taken) + 1]
                 n == SpaceFor(v)
      <4>1. n \in 1..4 /\ n <= Len(rx) /\ (Len(rx) >= n => Parsed(rx) = [used |-> n, val |-> v])
        BY <3>1, <3>2, ParseSays
      <4> HIDE DEF v, n
      <4>2. Len(rx) >= n
        BY <2>1, <4>1, LenProperties
      <4>3. Parsed(rx).used = n /\ n # 0
        BY <4>1, <4>2
      <4> QED
        BY <2>2, <4>3
    <3>3. CASE Rest(given, Len(taken)) = <<>>
      BY <3>3, ParseSays
    <3> QED
      BY <3>2, <3>3
  <2> QED
    BY <2>1, <2>2 DEF SizesArrive
<1> QED
  BY <1>1, StreamInvariant, PTL

\* parse() never takes what store() has written for malformed, complete or
\* cut short.
THEOREM NothingIsMalformed == Spec => []NeverMalformed
<1>1. StreamInv => NeverMalformed
  BY DEF StreamInv
<1> QED
  BY <1>1, StreamInvariant, PTL

=============================================================================
