--------------------------- MODULE DgmLinkProofs ----------------------------
(***************************************************************************)
(* Proofs about DgmLink for all values of its constants: datagrams of any  *)
(* sizes, also none and longer than the receiver takes, headers of one and *)
(* of two octets, and any capacity of the connection.                      *)
(***************************************************************************)
EXTENDS DgmLinkInv, FrameFacts

-----------------------------------------------------------------------------
(* Frames() is defined by recursion over the datagrams, like Payload().    *)

\* f is that recursion, up to the m-th datagram of ds.
Joins(ds, m, f) ==
  f = [n \in 0..m |-> IF n = 0 THEN <<>> ELSE Cat(f[n - 1], Frame(ds[n]))]

LEMMA JoinsExists ==
  ASSUME NEW ds, NEW m \in Nat
  PROVE  \E f : Joins(ds, m, f)
<1> DEFINE N == {n \in Nat : \E f : Joins(ds, n, f)}
<1>1. 0 \in N
  <2>1. Joins(ds, 0, [n \in 0..0 |-> <<>>])
    BY DEF Joins
  <2> QED
    BY <2>1
<1>2. ASSUME NEW n \in Nat, n \in N
      PROVE  n + 1 \in N
  <2>1. PICK f : Joins(ds, n, f)
    BY <1>2
  <2> DEFINE next == Cat(f[n], Frame(ds[n + 1]))
             g == [i \in 0..n + 1 |-> IF i = n + 1 THEN next ELSE f[i]]
             h == [i \in 0..n + 1 |-> IF i = 0 THEN <<>> ELSE Cat(g[i - 1], Frame(ds[i]))]
  <2>2. ASSUME NEW i \in 0..n + 1
        PROVE  g[i] = h[i]
    <3>1. CASE i = n + 1
      <4>1. g[i] = next /\ i # 0 /\ i - 1 = n /\ n \in 0..n + 1 /\ n # n + 1
        BY <3>1
      <4>2. g[n] = f[n]
        BY <4>1
      <4>3. h[i] = Cat(g[n], Frame(ds[i]))
        BY <4>1
      <4> QED
        BY <3>1, <4>1, <4>2, <4>3
    <3>2. CASE i # n + 1
      <4>1. i \in 0..n /\ g[i] = f[i]
        BY <3>2
      <4>2. f[i] = IF i = 0 THEN <<>> ELSE Cat(f[i - 1], Frame(ds[i]))
        BY <2>1, <4>1 DEF Joins
      <4>3. i # 0 => i - 1 \in 0..n + 1 /\ i - 1 # n + 1
        BY <4>1
      <4>4. i # 0 => g[i - 1] = f[i - 1]
        BY <4>3
      <4>5. h[i] = IF i = 0 THEN <<>> ELSE Cat(g[i - 1], Frame(ds[i]))
        OBVIOUS
      <4> HIDE DEF g, h
      <4> QED
        BY <4>1, <4>2, <4>4, <4>5
    <3> QED
      BY <3>1, <3>2
  <2>3. g = h
    <3>1. DOMAIN g = 0..n + 1 /\ DOMAIN h = 0..n + 1
      OBVIOUS
    <3>2. g = [i \in DOMAIN g |-> g[i]] /\ h = [i \in DOMAIN h |-> h[i]]
      OBVIOUS
    <3> HIDE DEF g, h
    <3> QED
      BY <2>2, <3>1, <3>2
  <2>4. Joins(ds, n + 1, g)
    <3> HIDE DEF next
    <3> QED
      BY <2>3 DEF Joins
  <2> QED
    BY <2>4
<1> HIDE DEF N
<1>3. m \in N
  BY <1>1, <1>2, NatBySteps
<1> QED
  BY <1>3 DEF N

\* Its values depend on the datagrams up to there only.
LEMMA JoinsAgree ==
  ASSUME NEW ds, NEW es, NEW m \in Nat, NEW k \in Nat, m <= k, NEW f, NEW g,
         Joins(ds, m, f), Joins(es, k, g), \A i \in 1..m : ds[i] = es[i]
  PROVE  f[m] = g[m]
<1> DEFINE N == {n \in Nat : n <= m => f[n] = g[n]}
<1>1. \A n \in 0..m : f[n] = IF n = 0 THEN <<>> ELSE Cat(f[n - 1], Frame(ds[n]))
  BY DEF Joins
<1>2. \A n \in 0..k : g[n] = IF n = 0 THEN <<>> ELSE Cat(g[n - 1], Frame(es[n]))
  BY DEF Joins
<1>3. 0 \in N
  BY <1>1, <1>2
<1>4. ASSUME NEW n \in Nat, n \in N
      PROVE  n + 1 \in N
  <2>1. SUFFICES ASSUME n + 1 <= m
                 PROVE  f[n + 1] = g[n + 1]
    OBVIOUS
  <2>2. /\ n + 1 \in 0..m /\ n + 1 \in 0..k /\ n + 1 \in 1..m /\ n + 1 # 0
        /\ (n + 1) - 1 = n /\ f[n] = g[n]
    BY <1>4, <2>1
  <2> QED
    BY <1>1, <1>2, <2>2
<1> HIDE DEF N
<1>5. m \in N
  BY <1>3, <1>4, NatBySteps
<1> QED
  BY <1>5 DEF N

LEMMA FramesIs ==
  ASSUME NEW T, NEW ds \in Seq(T), NEW f, Joins(ds, Len(ds), f)
  PROVE  Frames(ds) = f[Len(ds)]
<1> DEFINE c == CHOOSE g : Joins(ds, Len(ds), g)
<1>1. Len(ds) \in Nat
  BY LenProperties
<1>2. Joins(ds, Len(ds), c)
  BY <1>1, JoinsExists
<1>3. Frames(ds) = c[Len(ds)]
  BY DEF Frames, Joins, Cat
<1> HIDE DEF c
<1>4. c[Len(ds)] = f[Len(ds)]
  BY <1>1, <1>2, JoinsAgree
<1> QED
  BY <1>3, <1>4

LEMMA FramesEmpty == Frames(<<>>) = <<>>
<1>1. <<>> \in Seq({}) /\ Len(<<>>) = 0
  BY EmptySeq
<1>2. PICK f : Joins(<<>>, 0, f)
  BY JoinsExists
<1>3. f[0] = <<>>
  BY <1>2 DEF Joins
<1>4. Frames(<<>>) = f[0]
  BY <1>1, <1>2, FramesIs
<1> QED
  BY <1>3, <1>4

\* One datagram more.
LEMMA FramesAppend ==
  ASSUME NEW T, NEW ds \in Seq(T), NEW d \in T
  PROVE  Frames(Append(ds, d)) = Cat(Frames(ds), Frame(d))
<1> DEFINE n == Len(ds)
           p == Append(ds, d)
<1>1. /\ n \in Nat /\ p \in Seq(T) /\ Len(p) = n + 1 /\ p[n + 1] = d
      /\ \A i \in 1..n : ds[i] = p[i]
  BY LenProperties, AppendProperties
<1> HIDE DEF p
<1>2. PICK f : Joins(ds, n, f)
  BY <1>1, JoinsExists
<1>3. PICK g : Joins(p, n + 1, g)
  BY <1>1, JoinsExists
<1>4. Frames(ds) = f[n]
  BY <1>2, FramesIs
<1>5. Frames(p) = g[n + 1]
  BY <1>1, <1>3, FramesIs
<1>6. f[n] = g[n]
  <2> HIDE DEF n
  <2>1. n <= n + 1 /\ n + 1 \in Nat
    BY <1>1
  <2> QED
    BY <1>1, <1>2, <1>3, <2>1, JoinsAgree
<1>7. g[n + 1] = Cat(g[n], Frame(d))
  <2> HIDE DEF n
  <2>1. n + 1 \in 0..n + 1 /\ n + 1 # 0 /\ (n + 1) - 1 = n
    BY <1>1
  <2>2. g[n + 1] = IF n + 1 = 0 THEN <<>> ELSE Cat(g[(n + 1) - 1], Frame(p[n + 1]))
    BY <1>3, <2>1 DEF Joins
  <2> QED
    BY <1>1, <2>1, <2>2
<1> QED
  BY <1>4, <1>5, <1>6, <1>7 DEF p

\* They are made of the octets of the datagrams and of headers.
LEMMA FramesType ==
  ASSUME NEW T, TypedHeaders(T), NEW ds \in Seq(Seq(T))
  PROVE  Frames(ds) \in Seq(T)
<1> DEFINE N == {n \in Nat : \A p \in Seq(Seq(T)) : Len(p) = n => Frames(p) \in Seq(T)}
<1>1. 0 \in N
  <2>1. \A p \in Seq(Seq(T)) : Len(p) = 0 => p = <<>>
    BY EmptySeq
  <2> QED
    BY <2>1, FramesEmpty, EmptySeq
<1>2. ASSUME NEW n \in Nat, n \in N
      PROVE  n + 1 \in N
  <2> SUFFICES ASSUME NEW p \in Seq(Seq(T)), Len(p) = n + 1
               PROVE  Frames(p) \in Seq(T)
    OBVIOUS
  <2>1. p # <<>>
    BY EmptySeq
  <2>2. PICK r \in Seq(Seq(T)), d \in Seq(T) : p = Append(r, d)
    BY <2>1, SequenceEmptyOrAppend
  <2>3. Len(r) = n
    BY <2>2, AppendProperties, LenProperties
  <2>4. Frames(r) \in Seq(T)
    BY <1>2, <2>3
  <2> HIDE DEF N
  <2>5. Frame(d) \in Seq(T)
    BY FrameAt
  <2>6. Frames(p) = Cat(Frames(r), Frame(d))
    BY <2>2, FramesAppend
  <2> QED
    BY <2>4, <2>5, <2>6, CatType
<1> HIDE DEF N
<1>3. Len(ds) \in N
  BY <1>1, <1>2, NatBySteps, LenProperties
<1> QED
  BY <1>3 DEF N

\* Joined datagrams are joined frames.
LEMMA FramesCat ==
  ASSUME NEW T, TypedHeaders(T), NEW ds \in Seq(Seq(T)), NEW es \in Seq(Seq(T))
  PROVE  Frames(Cat(ds, es)) = Cat(Frames(ds), Frames(es))
<1> DEFINE N == {n \in Nat : \A r \in Seq(Seq(T)) : Len(r) = n =>
                                Frames(Cat(ds, r)) = Cat(Frames(ds), Frames(r))}
<1>1. 0 \in N
  <2>1. \A r \in Seq(Seq(T)) : Len(r) = 0 => r = <<>>
    BY EmptySeq
  <2>2. Cat(ds, <<>>) = ds /\ Cat(Frames(ds), <<>>) = Frames(ds)
    BY CatEmpty, FramesType
  <2> QED
    BY <2>1, <2>2, FramesEmpty
<1>2. ASSUME NEW n \in Nat, n \in N
      PROVE  n + 1 \in N
  <2> SUFFICES ASSUME NEW r \in Seq(Seq(T)), Len(r) = n + 1
               PROVE  Frames(Cat(ds, r)) = Cat(Frames(ds), Frames(r))
    OBVIOUS
  <2>1. r # <<>>
    BY EmptySeq
  <2>2. PICK t \in Seq(Seq(T)), d \in Seq(T) : r = Append(t, d)
    BY <2>1, SequenceEmptyOrAppend
  <2>3. Len(t) = n
    BY <2>2, AppendProperties, LenProperties
  <2>4. Frames(Cat(ds, t)) = Cat(Frames(ds), Frames(t))
    BY <1>2, <2>3
  <2> HIDE DEF N
  <2>5. Cat(ds, t) \in Seq(Seq(T)) /\ Cat(ds, r) = Append(Cat(ds, t), d)
    BY <2>2, CatType, AppendLast
  <2>6. Frames(ds) \in Seq(T) /\ Frames(t) \in Seq(T) /\ Frame(d) \in Seq(T)
    BY FramesType, FrameAt
  <2>7. Frames(Cat(ds, r)) = Cat(Frames(Cat(ds, t)), Frame(d))
    BY <2>5, FramesAppend
  <2>8. Frames(r) = Cat(Frames(t), Frame(d))
    BY <2>2, FramesAppend
  <2>9. Cat(Cat(Frames(ds), Frames(t)), Frame(d)) = Cat(Frames(ds), Cat(Frames(t), Frame(d)))
    BY <2>6, CatAssoc
  <2> QED
    BY <2>4, <2>7, <2>8, <2>9
<1> HIDE DEF N
<1>3. Len(es) \in N
  BY <1>1, <1>2, NatBySteps, LenProperties
<1> QED
  BY <1>3 DEF N

\* The frame of the first datagram comes first, and all of the last one's
\* frame is among the octets.
LEMMA FramesEnds ==
  ASSUME NEW T, TypedHeaders(T), NEW ds \in Seq(Seq(T)), ds # <<>>
  PROVE  /\ ds[1] \in Seq(T) /\ Rest(ds, 1) \in Seq(Seq(T))
         /\ Frames(ds) = Cat(Frame(ds[1]), Frames(Rest(ds, 1)))
         /\ ds[Len(ds)] \in Seq(T) /\ Len(Frames(ds)) >= Len(Frame(ds[Len(ds)]))
<1>1. Len(ds) \in Nat /\ 1 \in 0..Len(ds) /\ 1 \in 1..Len(ds) /\ Len(ds) \in 1..Len(ds)
  BY EmptySeq, LenProperties
<1>2. ds[1] \in Seq(T) /\ ds[Len(ds)] \in Seq(T)
  BY <1>1, ElementOfSeq
<1>3. /\ Taken(ds, 1) \in Seq(Seq(T)) /\ Len(Taken(ds, 1)) = 1 /\ Rest(ds, 1) \in Seq(Seq(T))
      /\ ds = Cat(Taken(ds, 1), Rest(ds, 1))
  BY <1>1, CutFacts DEF Cat
<1>4. Taken(ds, 1)[1] = ds[1]
  BY <1>1, <1>2, SubSeqProperties DEF Taken
<1> DEFINE one == Append(<<>>, ds[1])
           t == Taken(ds, 1)
<1>5. one \in Seq(Seq(T)) /\ Len(one) = 1 /\ one[1] = ds[1]
  <2>1. <<>> \in Seq(Seq(T)) /\ Len(<<>>) = 0
    BY EmptySeq
  <2> QED
    BY <1>2, <2>1, AppendProperties
<1>6. t = one
  <2>1. t \in Seq(Seq(T)) /\ Len(t) = 1 /\ t[1] = ds[1]
    BY <1>3, <1>4
  <2> HIDE DEF t, one
  <2>2. \A i \in 1..Len(t) : t[i] = one[i]
    BY <1>5, <2>1
  <2> QED
    BY <1>5, <2>1, <2>2, SeqEqual
<1>7. Frames(one) = Frame(ds[1])
  <2>1. <<>> \in Seq(Seq(T)) /\ Frame(ds[1]) \in Seq(T)
    BY <1>2, EmptySeq, FrameAt
  <2>2. Frames(one) = Cat(<<>>, Frame(ds[1]))
    BY <1>2, <2>1, FramesAppend, FramesEmpty
  <2> QED
    BY <2>1, <2>2, CatEmpty
<1>8. Frames(ds) = Cat(Frame(ds[1]), Frames(Rest(ds, 1)))
  <2> DEFINE rest == Rest(ds, 1)
  <2>1. rest \in Seq(Seq(T)) /\ t \in Seq(Seq(T)) /\ ds = Cat(t, rest)
    BY <1>3
  <2> HIDE DEF rest, t, one
  <2>2. Frames(Cat(t, rest)) = Cat(Frames(t), Frames(rest))
    BY <2>1, FramesCat
  <2> QED
    BY <1>6, <1>7, <2>1, <2>2 DEF rest
<1>9. Len(Frames(ds)) >= Len(Frame(ds[Len(ds)]))
  <2>1. PICK r \in Seq(Seq(T)), d \in Seq(T) : ds = Append(r, d)
    BY SequenceEmptyOrAppend
  <2>2. ds[Len(ds)] = d
    BY <2>1, AppendProperties, LenProperties
  <2>3. Frames(ds) = Cat(Frames(r), Frame(d))
    BY <2>1, FramesAppend
  <2>4. Frames(r) \in Seq(T) /\ Frame(d) \in Seq(T)
    BY FramesType, FrameAt
  <2>5. /\ Len(Cat(Frames(r), Frame(d))) = Len(Frames(r)) + Len(Frame(d))
        /\ Len(Frames(r)) \in Nat /\ Len(Frame(d)) \in Nat
    BY <2>4, CatAt
  <2> QED
    BY <2>2, <2>3, <2>5
<1> QED
  BY <1>2, <1>3, <1>8, <1>9

-----------------------------------------------------------------------------
(* Cutting a stream where it was joined, and taking its first datagram.    *)

\* What follows equal beginnings of equal streams is equal.
LEMMA CatCancel ==
  ASSUME NEW T, NEW p \in Seq(T), NEW q \in Seq(T), NEW r \in Seq(T), Cat(p, q) = Cat(p, r)
  PROVE  q = r
<1>1. Rest(Cat(p, q), Len(p)) = q /\ Rest(Cat(p, r), Len(p)) = r
  BY CatCut
<1> QED
  BY <1>1

\* What process_rx() makes of the octets q, if they and those that follow, x,
\* are the frame of d and what follows that, y.
LEMMA ParsesFirst ==
  ASSUME NEW T, TypedHeaders(T), NEW q \in Seq(T), NEW x \in Seq(T),
         NEW d \in Seq(T), NEW y \in Seq(T), Cat(q, x) = Cat(Frame(d), y)
  PROVE  /\ ProcessRx(q).is = "bad" => Len(d) > MaxDgm
         /\ ProcessRx(q).is = "short" => Len(q) < Len(Frame(d))
         /\ ProcessRx(q).is = "dgm" =>
              ProcessRx(q).data = d /\ Len(d) <= MaxDgm /\ Cat(ProcessRx(q).rest, x) = y
<1> DEFINE n == Len(d)
           h == HdrLen(n)
           f == Frame(d)
           data == SubSeq(q, h + 1, h + n)
           rest == Rest(q, h + n)
<1>1. /\ n \in Nat /\ h \in {1, 2} /\ f \in Seq(T) /\ Len(f) = h + n
      /\ f[h] = <<"last", n>> /\ (h = 2 => f[1] = <<"more", n>>) /\ 1 \in 1..h
      /\ \A i \in 1..h : IsHeader(f[i])
      /\ \A i \in 1..n : f[h + i] = d[i]
  <2>1. \A k \in {1, 2} : 1 \in 1..k
    OBVIOUS
  <2> QED
    BY <2>1, FrameAt
<1> HIDE DEF n, h, f
<1>2. Len(q) \in Nat /\ MaxDgm \in Nat
  BY LenProperties, DgmAssumption
<1>3. \A i \in 1..Len(q) : Cat(q, x)[i] = q[i]
  BY CatAt
<1>4. \A i \in 1..Len(f) : Cat(f, y)[i] = f[i]
  <2>1. f \in Seq(T)
    BY <1>1
  <2> QED
    BY <2>1, CatAt
<1>5. \A i \in 1..Len(q) : i \in 1..Len(f) => q[i] = f[i]
  BY <1>3, <1>4 DEF f
<1>6. CASE q = <<>>
  <2>1. ProcessRx(q) = Short(q) /\ Len(q) = 0
    BY <1>6, EmptySeq DEF ProcessRx
  <2>2. Len(f) > 0
    BY <1>1
  <2> QED
    BY <2>1, <2>2 DEF Short, f
<1>7. CASE q # <<>>
  <2>1. 1 \in 1..Len(q) /\ 1 \in 1..Len(f)
    BY <1>1, <1>2, <1>7, EmptySeq
  <2>2. q[1] = f[1] /\ IsHeader(q[1]) /\ q[1][2] = n
    BY <1>1, <1>5, <2>1
  <2>3. ProcessRx(q) = IF Len(q) < h THEN Short(q)
                       ELSE IF n > MaxDgm THEN Bad(q)
                       ELSE IF Len(q) < h + n THEN Short(q)
                       ELSE [is |-> "dgm", data |-> data, rest |-> rest]
    BY <1>7, <2>2 DEF ProcessRx, h
  <2> HIDE DEF data, rest
  <2>4. CASE Len(q) < h
    BY <1>1, <1>2, <2>3, <2>4 DEF Short, f
  <2>5. CASE ~(Len(q) < h) /\ n > MaxDgm
    BY <2>3, <2>5 DEF Bad, n
  <2>6. CASE ~(Len(q) < h) /\ ~(n > MaxDgm) /\ Len(q) < h + n
    BY <1>1, <1>2, <2>3, <2>6 DEF Short, f
  <2>7. CASE ~(Len(q) < h) /\ ~(n > MaxDgm) /\ ~(Len(q) < h + n)
    <3>1. /\ h + n \in 0..Len(q) /\ h + 1 \in Int /\ h + n \in Int /\ h + 1 <= h + n + 1
          /\ (h + n) - (h + 1) + 1 = n
      BY <1>1, <1>2, <2>7
    <3>2. \A i \in (h + 1)..(h + n) : i \in 1..Len(q) /\ i \in 1..Len(f) /\ i - h \in 1..n /\ h + (i - h) = i
      BY <1>1, <1>2, <3>1
    <3>3. \A i \in (h + 1)..(h + n) : q[i] \in T
      BY <3>2, ElementOfSeq
    <3>4. data \in Seq(T) /\ Len(data) = n
      <4>1. CASE n = 0
        <5>1. data = <<>>
          BY <1>1, <4>1, SubSeqEmpty DEF data
        <5> QED
          BY <4>1, <5>1, EmptySeq
      <4>2. CASE n # 0
        <5>1. h + 1 <= h + n
          BY <1>1, <4>2
        <5> QED
          BY <3>1, <3>3, <5>1, SubSeqProperties DEF data
      <4> QED
        BY <4>1, <4>2
    <3>5. \A i \in 1..n : data[i] = d[i]
      <4> SUFFICES ASSUME NEW i \in 1..n
                   PROVE  data[i] = d[i]
        OBVIOUS
      <4>1. /\ h + i \in (h + 1)..(h + n) /\ i \in 1..((h + n) - (h + 1) + 1)
            /\ (h + 1) + i - 1 = h + i /\ h + 1 <= h + n
        BY <1>1, <3>1
      <4>2. data[i] = q[h + i]
        BY <3>1, <3>3, <4>1, SubSeqProperties DEF data
      <4>3. q[h + i] = f[h + i]
        BY <1>5, <3>2, <4>1
      <4> QED
        BY <1>1, <4>2, <4>3
    <3>6. data = d
      <4>1. d \in Seq(T) /\ Len(d) = n
        BY DEF n
      <4> QED
        BY <3>4, <3>5, <4>1, SeqEqual
    <3> DEFINE t == Taken(q, h + n)
    <3>7. t \in Seq(T) /\ Len(t) = h + n /\ rest \in Seq(T) /\ q = Cat(t, rest)
      BY <3>1, CutFacts DEF Cat, rest
    <3>8. t = f
      <4> HIDE DEF t
      <4>1. \A i \in 1..Len(t) : i \in 1..Len(q) /\ i \in 1..Len(f)
        BY <1>1, <1>2, <3>1, <3>7
      <4>2. \A i \in 1..Len(t) : Cat(t, rest)[i] = t[i]
        BY <3>7, CatAt
      <4>3. \A i \in 1..Len(t) : t[i] = f[i]
        BY <1>5, <3>7, <4>1, <4>2
      <4> QED
        BY <1>1, <3>7, <4>3, SeqEqual
    <3> HIDE DEF t
    <3>9. Cat(rest, x) = y
      <4>1. Cat(Cat(f, rest), x) = Cat(f, y)
        BY <3>7, <3>8 DEF f
      <4>2. Cat(Cat(f, rest), x) = Cat(f, Cat(rest, x))
        BY <1>1, <3>7, CatAssoc
      <4>3. Cat(rest, x) \in Seq(T)
        BY <3>7, CatType
      <4> QED
        BY <1>1, <4>1, <4>2, <4>3, CatCancel
    <3>10. Len(d) <= MaxDgm
      BY <1>1, <1>2, <2>7 DEF n
    <3> QED
      BY <2>3, <2>7, <3>6, <3>9, <3>10
  <2> QED
    BY <2>4, <2>5, <2>6, <2>7
<1> QED
  BY <1>6, <1>7

-----------------------------------------------------------------------------
(* Types.                                                                  *)

USE DgmAssumption, LinkAssumption

LEMMA OctetsAreTyped ==
  TypedHeaders(Octets) /\ <<>> \in Seq(Octets) /\ Seq(Seq(Octet)) \subseteq Seq(Seq(Octets))
<1>1. \A o \in Octets : IsHeader(o) => o \in HeaderOctet
  BY DEF Octets, Octet, IsHeader, Sides
<1>2. Octet \subseteq Octets /\ HeaderOctet \subseteq Octets
  BY DEF Octets
<1>3. Seq(Octet) \subseteq Seq(Octets)
  BY <1>2, SeqMonotonic
<1>4. Seq(Seq(Octet)) \subseteq Seq(Seq(Octets))
  BY <1>3, SeqMonotonic
<1> QED
  BY <1>1, <1>2, <1>4, EmptySeq DEF TypedHeaders

\* The types, in a form the provers can instantiate.
LEMMA EndTypes ==
  ASSUME TypeOK, NEW e \in Sides
  PROVE  /\ wire[e] \in Seq(Octets) /\ rx[e] \in Seq(Octets) /\ pend[e] \in Seq(Octets)
         /\ sent[e] \in Seq(Seq(Octet)) /\ got[e] \in Seq(Seq(Octet))
         /\ tcp[e] \in SUBSET Flag /\ flags[e] \in SUBSET Flag /\ mask[e] \in SUBSET SkEvent
         /\ user[e] \in UserState /\ wantFin[e] \in BOOLEAN
BY DEF TypeOK

\* Every operation of a tcp_pipe yields state bits, and a mask.
LEMMA PipeTypes ==
  ASSUME NEW f \in SUBSET Flag
  PROVE  /\ EventMask(f) \in SUBSET SkEvent
         /\ TagBroken(f) \in SUBSET Flag
         /\ \A p : AtxClone(f, p) \in SUBSET Flag
BY DEF EventMask, SkEvent, TagBroken, Flag, AtxClone

LEMMA TypesInitially == Init => TypeOK
<1> SUFFICES ASSUME Init
             PROVE  TypeOK
  OBVIOUS
<1>1. {wire, rx, pend} \subseteq [Sides -> Seq(Octets)]
  BY OctetsAreTyped DEF Init
<1>2. {sent, got} \subseteq [Sides -> Seq(Seq(Octet))]
  <2>1. <<>> \in Seq(Seq(Octet))
    BY EmptySeq
  <2> QED
    BY <2>1 DEF Init
<1>3. {shut, finned, ended, cut} \subseteq SUBSET Sides
  BY DEF Init
<1> QED
  BY <1>1, <1>2, <1>3 DEF Init, TypeOK, InitialFlags, InitialMask, Flag, SkEvent, UserState

-----------------------------------------------------------------------------
(* What the socket answers.                                                *)

LEMMA SocketRecv ==
  ASSUME TypeOK, NEW e \in Sides, NEW len, NEW r \in S!RecvResults(e, len)
  PROVE  /\ r.is \in RecvOutcome /\ r.n \in 0..Len(wire[Peer(e)])
         /\ r.is # "data" => r.n = 0
         /\ r.is = "fin" => Peer(e) \in shut /\ wire[Peer(e)] = <<>>
         /\ r.is = "fatal" => Lost
<1>1. Peer(e) \in Sides /\ wire[Peer(e)] \in Seq(Octets)
  BY PeerFacts, EndTypes
<1>2. Len(wire[Peer(e)]) \in Nat
  BY <1>1, LenProperties
<1>3. /\ [t \in Sides |-> conn][e] = conn /\ [t \in Sides |-> wire[Peer(t)]][e] = wire[Peer(e)]
      /\ e \in {t \in Sides : Peer(t) \in shut} => Peer(e) \in shut
  OBVIOUS
<1>4. r.is \in RecvOutcome
  BY DEF S!RecvResults, S!RecvOutcome, RecvOutcome
<1>5. r.is = "data" => r.n \in 1..Len(wire[Peer(e)])
  BY <1>3 DEF S!RecvResults
<1>6. r.is # "data" => r.n = 0
  BY DEF S!RecvResults
<1>7. r.is = "fin" => Peer(e) \in shut /\ wire[Peer(e)] = <<>>
  BY <1>3 DEF S!RecvResults
<1>8. r.is = "fatal" => Lost
  BY <1>3 DEF S!RecvResults, S!Failed, Lost, TypeOK
<1>9. r.n \in 0..Len(wire[Peer(e)])
  BY <1>2, <1>5, <1>6
<1> QED
  BY <1>4, <1>6, <1>7, <1>8, <1>9

LEMMA SocketSend ==
  ASSUME TypeOK, NEW e \in Sides, NEW len \in Nat, NEW w \in S!SendResults(e, len)
  PROVE  /\ w.is \in SendOutcome /\ w.n \in 0..len
         /\ w.is = "all" => w.n = len /\ ~Lost
         /\ w.is = "some" => w.n > 0 /\ w.n < len
         /\ w.is \notin {"all", "some"} => w.n = 0
         /\ w.is \in {"fatal", "epipe"} => Lost
<1>1. [t \in Sides |-> conn][e] = conn
  OBVIOUS
<1>2. w.is \in SendOutcome
  BY DEF S!SendResults, S!SendOutcome, SendOutcome
<1>3. w.n \in 0..len
  BY DEF S!SendResults
<1>4. w.is = "all" => w.n = len /\ ~Lost
  BY <1>1 DEF S!SendResults, Lost
<1>5. w.is = "some" => w.n \in 1..S!Free(e) /\ w.n < len
  BY DEF S!SendResults
<1>6. w.is = "some" => w.n > 0
  BY <1>3, <1>5
<1>7. w.is \notin {"all", "some"} => w.n = 0
  BY DEF S!SendResults
<1>8. w.is \in {"fatal", "epipe"} => Lost
  BY <1>1 DEF S!SendResults, S!Failed, Lost, TypeOK
<1> QED
  BY <1>2, <1>3, <1>4, <1>5, <1>6, <1>7, <1>8

-----------------------------------------------------------------------------
(* What each call and each turn of the event loop can come to.             *)

\* What a user that has not given up its pipe may rely on.
LEMMA Using ==
  ASSUME TypeOK, ControlInv, NEW e \in Sides, user[e] = "using"
  PROVE  /\ "broken" \notin tcp[e] /\ "broken" \notin flags[e]
         /\ "ready" \in flags[e] => "ready" \in tcp[e]
         /\ "readable" \in flags[e] => "readable" \in tcp[e] /\ "fin_rcvd" \notin tcp[e] /\ "ready" \in tcp[e]
         /\ "writable" \in flags[e] => "writable" \in tcp[e] /\ "ready" \in tcp[e] /\ pend[e] = <<>>
         /\ e \notin finned => "fin_sent" \notin tcp[e] /\ ~wantFin[e]
         /\ e \notin cut
<1>1. /\ "broken" \notin tcp[e] /\ e \notin cut
      /\ flags[e] \ {"fin_sent"} = AtxClone(tcp[e], pend[e]) \ {"fin_sent"}
  BY DEF ControlInv, UserInv
<1>2. /\ tcp[e] \subseteq {"broken"} \/ "ready" \in tcp[e]
      /\ ~({"readable", "fin_rcvd"} \subseteq tcp[e])
  BY DEF ControlInv, BitsInv
<1>3. \A b \in flags[e] : b # "fin_sent" => b \in tcp[e] /\ (b = "writable" => pend[e] = <<>>)
  BY <1>1 DEF AtxClone
<1>4. e \notin finned => "fin_sent" \notin tcp[e] /\ ~wantFin[e]
  BY DEF ControlInv, FinInv
<1> QED
  BY <1>1, <1>2, <1>3, <1>4

\* What a call of recv() returns and leaves.
Received(is, data, n, q, f, up) ==
  [is |-> is, data |-> data, read |-> n, rx |-> q, tcp |-> f, up |-> up]

\* The octets received before and n more are looked at.
Looked(e, n, r) ==
  LET q == Cat(rx[e], Taken(wire[Peer(e)], n))
      p == ProcessRx(q)
  IN \/ p.is = "bad" /\ r = Received("nothing", <<>>, n, <<>>, tcp[e], TagBroken(flags[e]))
     \/ p.is = "short" /\ r = Received("nothing", p.data, n, p.rest, tcp[e], AtxClone(tcp[e], pend[e]))
     \/ p.is = "dgm" /\ r = Received("data", p.data, n, p.rest, tcp[e], AtxClone(tcp[e], pend[e]))

\* The stream has ended, after a datagram or within one.
AtFin(e, r) ==
  LET f == (tcp[e] \ {"readable"}) \cup {"fin_rcvd"}
  IN /\ wire[Peer(e)] = <<>> /\ Peer(e) \in shut
     /\ \/ rx[e] = <<>> /\ r = Received("fin", <<>>, 0, <<>>, f, AtxClone(f, pend[e]))
        \/ /\ rx[e] # <<>> /\ ProcessRx(rx[e]).is = "short"
           /\ r = Received("nothing", <<>>, 0, <<>>, f, TagBroken(flags[e]))

\* There was nothing to receive, or nothing more will be.
NotNow(e, r) ==
  LET f == tcp[e] \ {"readable"}
  IN r = Received("nothing", <<>>, 0, rx[e], f, AtxClone(f, pend[e]))

NoMore(e, r) ==
  LET f == TagBroken(tcp[e])
  IN Lost /\ r = Received("nothing", <<>>, 0, rx[e], f, AtxClone(f, pend[e]))

LEMMA TakenCases ==
  ASSUME TypeOK, NEW e \in Sides, NEW n \in 0..Len(wire[Peer(e)]), NEW q,
         q = Cat(rx[e], Taken(wire[Peer(e)], n))
  PROVE  Looked(e, n, WithRead(DgmTaken(tcp[e], pend[e], flags[e], q), n))
<1>1. q \in Seq(Octets)
  <2>1. rx[e] \in Seq(Octets) /\ wire[Peer(e)] \in Seq(Octets)
    BY EndTypes, PeerFacts
  <2>2. Taken(wire[Peer(e)], n) \in Seq(Octets)
    BY <2>1, CutFacts
  <2> QED
    BY <2>1, <2>2, CatType
<1>2. ProcessRx(q).is \in {"bad", "short", "dgm"}
  BY <1>1, OctetsAreTyped, ProcessRxTypes
<1> QED
  BY <1>2 DEF Looked, DgmTaken, DgmFailed, DgmPassed, WithRead, Received

LEMMA RecvCases ==
  ASSUME TypeOK, ControlInv, NEW e \in Sides, user[e] = "using", "readable" \in flags[e],
         NEW r \in Recvs(e)
  PROVE  \/ \E n \in 0..Len(wire[Peer(e)]) : Looked(e, n, r)
         \/ AtFin(e, r) \/ NotNow(e, r) \/ NoMore(e, r)
<1>1. rx[e] \in Seq(Octets) /\ wire[Peer(e)] \in Seq(Octets) /\ Len(wire[Peer(e)]) \in Nat
  BY EndTypes, PeerFacts, LenProperties
<1>2. "readable" \in tcp[e] /\ FlagsAfterRecv(tcp[e], "data") = tcp[e]
  BY Using DEF FlagsAfterRecv
<1>3. CASE LeftOver(rx[e])
  <2>1. r = WithRead(DgmTaken(tcp[e], pend[e], flags[e], rx[e]), 0)
    BY <1>3 DEF Recvs
  <2>2. Taken(wire[Peer(e)], 0) = <<>> /\ 0 \in 0..Len(wire[Peer(e)])
    BY <1>1, CutAtEnds
  <2>3. rx[e] = Cat(rx[e], Taken(wire[Peer(e)], 0))
    BY <1>1, <2>2, CatEmpty
  <2>4. Looked(e, 0, r)
    BY <2>1, <2>2, <2>3, TakenCases
  <2> QED
    BY <2>2, <2>4
<1>4. CASE ~LeftOver(rx[e])
  <2>1. PICK t \in S!RecvResults(e, RxSpace(rx[e], RecvSize)) :
          r = WithRead(DgmReceived(tcp[e], pend[e], flags[e], rx[e], t.is,
                                   Taken(wire[Peer(e)], t.n)), t.n)
    BY <1>4 DEF Recvs
  <2>2. /\ t.is \in RecvOutcome /\ t.n \in 0..Len(wire[Peer(e)])
        /\ t.is # "data" => t.n = 0
        /\ t.is = "fin" => Peer(e) \in shut /\ wire[Peer(e)] = <<>>
        /\ t.is = "fatal" => Lost
    BY SocketRecv
  <2>3. CASE t.is = "data"
    <3> DEFINE q == Cat(rx[e], Taken(wire[Peer(e)], t.n))
    <3>1. r = WithRead(DgmTaken(tcp[e], pend[e], flags[e], q), t.n)
      BY <1>2, <2>1, <2>3 DEF DgmReceived, Cat
    <3> HIDE DEF q
    <3>2. Looked(e, t.n, r)
      BY <2>2, <3>1, TakenCases DEF q
    <3> QED
      BY <2>2, <3>2
  <2>4. CASE t.is = "fin" /\ rx[e] = <<>>
    BY <2>1, <2>2, <2>4 DEF AtFin, DgmReceived, FlagsAfterRecv, DgmPassed, WithRead, Received
  <2>5. CASE t.is = "fin" /\ rx[e] # <<>>
    BY <1>4, <2>1, <2>2, <2>5 DEF AtFin, DgmReceived, FlagsAfterRecv, DgmFailed, WithRead, Received, LeftOver
  <2>6. CASE t.is = "again"
    BY <2>1, <2>2, <2>6 DEF NotNow, DgmReceived, FlagsAfterRecv, DgmPassed, WithRead, Received
  <2>7. CASE t.is = "fatal"
    BY <2>1, <2>2, <2>7 DEF NoMore, DgmReceived, FlagsAfterRecv, DgmPassed, WithRead, Received
  <2> QED
    BY <2>2, <2>3, <2>4, <2>5, <2>6, <2>7 DEF RecvOutcome
<1> QED
  BY <1>3, <1>4

\* Octets q are put into the socket, all of them or the first n; f are the
\* bits that were raised before, g those that are then, p what is left over.
Put(q, n, f, g, p) ==
  /\ n \in 0..Len(q) /\ p = Rest(q, n)
  /\ \/ p = <<>> /\ g = f
     \/ p # <<>> /\ g = f \ {"writable"}

\* What a call of send() returns and leaves.
Accepted(e, data, w) ==
  \E n \in 1..Len(Frame(data)) :
    /\ w.ok /\ w.put = Taken(Frame(data), n) /\ Put(Frame(data), n, tcp[e], w.tcp, w.pend)
    /\ w.up = AtxClone(w.tcp, w.pend)

Refused(e, w) ==
  /\ ~w.ok /\ w.put = <<>> /\ w.pend = <<>>
  /\ w.tcp = tcp[e] \ {"writable"} \/ (Lost /\ w.tcp = TagBroken(tcp[e]))
  /\ w.up = AtxClone(w.tcp, w.pend)

LEMMA SendCases ==
  ASSUME TypeOK, ControlInv, NEW e \in Sides, user[e] = "using", "writable" \in flags[e],
         NEW data \in Seq(Octets), NEW w \in Sends(e, data)
  PROVE  Accepted(e, data, w) \/ Refused(e, w)
<1> DEFINE q == Frame(data)
<1>1. q \in Seq(Octets) /\ Len(q) \in Nat /\ Len(q) > 0
  <2>1. /\ q \in Seq(Octets) /\ Len(q) = HdrLen(Len(data)) + Len(data)
        /\ Len(data) \in Nat /\ HdrLen(Len(data)) \in {1, 2}
    BY OctetsAreTyped, FrameAt
  <2> QED
    BY <2>1
<1>2. "writable" \in tcp[e] /\ pend[e] = <<>>
  BY Using
<1>3. PICK t \in S!SendResults(e, Len(q)) : w = DgmSent(tcp[e], data, t)
  BY <1>2 DEF Sends, MaySend
<1> HIDE DEF q
<1>4. /\ t.is \in SendOutcome /\ t.n \in 0..Len(q)
      /\ t.is = "all" => t.n = Len(q)
      /\ t.is = "some" => t.n > 0 /\ t.n < Len(q)
      /\ t.is \notin {"all", "some"} => t.n = 0
      /\ t.is \in {"fatal", "epipe"} => Lost
  BY <1>1, <1>3, SocketSend
<1> DEFINE f == FlagsAfterSend(tcp[e], t.is)
           p == IF t.is = "some" THEN Rest(q, t.n) ELSE <<>>
<1>5. w = [ok |-> t.is \in {"all", "some"}, n |-> IF t.is \in {"all", "some"} THEN Len(data) ELSE 0,
           put |-> Taken(q, t.n), pend |-> p, tcp |-> f, up |-> AtxClone(f, p)]
  BY <1>3 DEF DgmSent, AtxSent, q
<1>6. CASE t.is = "all"
  <2>1. t.n \in 1..Len(q) /\ Rest(q, t.n) = <<>> /\ f = tcp[e]
    BY <1>1, <1>2, <1>4, <1>6, CutAtEnds DEF FlagsAfterSend
  <2>2. Put(q, t.n, tcp[e], w.tcp, w.pend)
    BY <1>4, <1>5, <1>6, <2>1 DEF Put
  <2> QED
    BY <1>5, <1>6, <2>1, <2>2 DEF Accepted, q
<1>7. CASE t.is = "some"
  <2>1. t.n \in 1..Len(q) /\ Len(Rest(q, t.n)) # 0
    <3> DEFINE n == t.n
    <3>1. Len(Rest(q, n)) = Len(q) - n
      <4>1. n \in 0..Len(q)
        BY <1>4
      <4> HIDE DEF n
      <4> QED
        BY <1>1, <4>1, CutFacts
    <3> QED
      BY <1>1, <1>4, <1>7, <3>1
  <2>2. Rest(q, t.n) # <<>> /\ f = tcp[e] \ {"writable"}
    BY <1>7, <2>1, EmptySeq DEF FlagsAfterSend
  <2>3. Put(q, t.n, tcp[e], w.tcp, w.pend)
    BY <1>4, <1>5, <1>7, <2>2 DEF Put
  <2> QED
    BY <1>5, <1>7, <2>1, <2>3 DEF Accepted, q
<1>8. CASE t.is \notin {"all", "some"}
  <2>1. Taken(q, t.n) = <<>>
    BY <1>1, <1>4, <1>8, CutAtEnds
  <2>2. f = tcp[e] \ {"writable"} \/ (Lost /\ f = TagBroken(tcp[e]))
    BY <1>4, <1>8 DEF FlagsAfterSend, SendOutcome
  <2> QED
    BY <1>5, <1>8, <2>1, <2>2 DEF Refused
<1> QED
  BY <1>6, <1>7, <1>8

\* The callback of the tcp_pipe, before the atx_pipe has its turn.
LEMMA Woken ==
  ASSUME TypeOK, BitsInv, NEW e \in Sides, Ready(e) # {}
  PROVE  /\ "broken" \notin tcp[e] /\ OnActivityAsserts(tcp[e], Ready(e), Lost)
         /\ TcpFlags(e) \in SUBSET Flag /\ TcpEvents(e) # {}
         /\ "ready" \in TcpFlags(e) \/ TcpFlags(e) = {"broken"}
         /\ ~({"readable", "fin_rcvd"} \subseteq TcpFlags(e))
         /\ "broken" \in TcpFlags(e) => Lost
         /\ \A b \in {"fin_sent", "fin_rcvd"} : b \in TcpFlags(e) <=> b \in tcp[e]
         /\ "writable" \in TcpFlags(e) => "writable" \in tcp[e] \/ "writable" \in TcpEvents(e)
         /\ "writable" \in TcpEvents(e) =>
              {"ready", "writable"} \subseteq TcpFlags(e) /\ {"broken", "fin_sent"} \cap TcpFlags(e) = {}
         /\ "broken" \in TcpEvents(e) => "broken" \in TcpFlags(e)
<1>1. /\ tcp[e] \in SUBSET Flag
      /\ tcp[e] \subseteq {"broken"} \/ "ready" \in tcp[e]
      /\ ~({"readable", "fin_rcvd"} \subseteq tcp[e])
      /\ mask[e] = IF tcp[e] = {} THEN InitialMask ELSE EventMask(tcp[e])
  BY EndTypes DEF BitsInv
<1> DEFINE ev == Ready(e)
<1>2. /\ ev \subseteq {"readable", "writable"}
      /\ tcp[e] = {} => ev = {"writable"}
      /\ tcp[e] # {} => /\ "ready" \in tcp[e] /\ "broken" \notin tcp[e]
                        /\ "readable" \in ev => {"readable", "fin_rcvd"} \cap tcp[e] = {}
                        /\ "writable" \in ev => {"writable", "fin_sent"} \cap tcp[e] = {}
  <2>1. ev \subseteq mask[e] /\ ev # {}
    BY DEF Ready
  <2> HIDE DEF ev
  <2> QED
    BY <1>1, <2>1 DEF InitialMask, EventMask
<1>3. "broken" \notin tcp[e] /\ OnActivityAsserts(tcp[e], ev, Lost)
  <2> HIDE DEF ev
  <2> QED
    BY <1>2 DEF OnActivityAsserts
<1> HIDE DEF ev
<1>4. CASE ConnectFailed(tcp[e], ev, Lost)
  <2>1. TcpFlags(e) = TagBroken(tcp[e]) /\ TcpEvents(e) = {"broken"}
    BY <1>4 DEF TcpFlags, TcpEvents, FlagsOnActivity, EventsOnActivity, ev
  <2>2. tcp[e] = {} /\ Lost
    BY <1>1, <1>2, <1>4 DEF ConnectFailed
  <2>3. TcpFlags(e) = {"broken"}
    BY <2>1, <2>2 DEF TagBroken
  <2> QED
    BY <1>3, <2>1, <2>2, <2>3 DEF ev, Flag
<1>5. CASE ~ConnectFailed(tcp[e], ev, Lost)
  <2>1. /\ TcpFlags(e) = tcp[e] \cup {"ready"} \cup ev
        /\ TcpEvents(e) = ({"ready"} \ tcp[e]) \cup ev
    BY <1>2, <1>5 DEF TcpFlags, TcpEvents, FlagsOnActivity, EventsOnActivity, ev
  <2>2. ev # {}
    BY DEF ev
  <2>3. TcpFlags(e) \in SUBSET Flag /\ TcpEvents(e) # {} /\ "ready" \in TcpFlags(e)
    <3>1. TcpFlags(e) \in SUBSET Flag /\ "ready" \in TcpFlags(e)
      BY <1>1, <1>2, <2>1 DEF Flag
    <3>2. TcpEvents(e) # {}
      BY <2>1, <2>2
    <3> QED
      BY <3>1, <3>2
  <2>4. ~({"readable", "fin_rcvd"} \subseteq TcpFlags(e))
    BY <1>1, <1>2, <2>1
  <2>5. "broken" \notin TcpFlags(e) /\ "broken" \notin TcpEvents(e)
    BY <1>2, <2>1
  <2>6. \A b \in {"fin_sent", "fin_rcvd"} : b \in TcpFlags(e) <=> b \in tcp[e]
    BY <1>2, <2>1
  <2>7. "writable" \in TcpFlags(e) => "writable" \in tcp[e] \/ "writable" \in TcpEvents(e)
    BY <2>1
  <2>8. "writable" \in TcpEvents(e) =>
          {"ready", "writable"} \subseteq TcpFlags(e) /\ {"broken", "fin_sent"} \cap TcpFlags(e) = {}
    BY <1>2, <2>1, <2>5
  <2> QED
    BY <1>3, <2>3, <2>4, <2>5, <2>6, <2>7, <2>8 DEF ev
<1> QED
  BY <1>4, <1>5

\* The tcp_pipe has become writable and the atx_pipe flushes what it kept: all
\* of it, with the FIN that was put off or without, part of it, or nothing
\* because the connection is lost.
FlushedAll(e, n, a) ==
  /\ n = Len(pend[e]) /\ a.pend = <<>>
  /\ \/ wantFin[e] /\ a.tcp = (TcpFlags(e) \ {"writable"}) \cup {"fin_sent"}
                   /\ a.events = TcpEvents(e) \ {"writable"}
     \/ ~wantFin[e] /\ a.tcp = TcpFlags(e) /\ a.events = TcpEvents(e)

FlushedSome(e, n, a) ==
  /\ a.pend = Rest(pend[e], n) /\ a.pend # <<>>
  /\ a.tcp = TcpFlags(e) \ {"writable"} /\ a.events = TcpEvents(e) \ {"writable"}

FlushedNone(e, n, a) ==
  /\ Lost /\ n = 0 /\ a.pend = pend[e]
  /\ a.tcp = TagBroken(TcpFlags(e)) /\ "broken" \in a.events

LEMMA FlushCases ==
  ASSUME TypeOK, ControlInv, NEW e \in Sides, Ready(e) # {}, "writable" \in TcpEvents(e),
         pend[e] # <<>>, NEW w \in S!SendResults(e, Len(pend[e])), NEW a,
         a = AtxFlushed(TcpFlags(e), TcpEvents(e), pend[e], wantFin[e], w, ~Lost)
  PROVE  /\ w.n \in 0..Len(pend[e])
         /\ FlushedAll(e, w.n, a) \/ FlushedSome(e, w.n, a) \/ FlushedNone(e, w.n, a)
<1> DEFINE q == pend[e]
           f == TcpFlags(e)
           ev == TcpEvents(e)
<1>1. /\ q \in Seq(Octets) /\ Len(q) \in Nat /\ wantFin[e] \in BOOLEAN
      /\ "writable" \in f /\ "writable" \in ev /\ "broken" \notin f /\ "broken" \notin ev
  <2>1. /\ "writable" \in f /\ {"broken", "fin_sent"} \cap f = {}
        /\ "broken" \in ev => "broken" \in f
    BY Woken DEF ControlInv
  <2> QED
    BY <2>1, EndTypes, LenProperties
<1>2. /\ w.is \in SendOutcome /\ w.n \in 0..Len(q)
      /\ w.is = "all" => w.n = Len(q) /\ ~Lost
      /\ w.is = "some" => w.n > 0 /\ w.n < Len(q)
      /\ w.is \notin {"all", "some"} => w.n = 0
      /\ w.is \in {"fatal", "epipe"} => Lost
  BY <1>1, SocketSend
<1>3. Len(Rest(q, w.n)) = Len(q) - w.n /\ Rest(q, Len(q)) = <<>> /\ Rest(q, 0) = q
  <2> DEFINE n == w.n
  <2>1. n \in 0..Len(q)
    BY <1>2
  <2> HIDE DEF n, q
  <2>2. Len(Rest(q, n)) = Len(q) - n
    BY <1>1, <2>1, CutFacts
  <2> QED
    BY <1>1, <2>2, CutAtEnds DEF n
<1> HIDE DEF q, f, ev
<1> DEFINE g == FlagsAfterSend(f, w.is)
           fin == wantFin[e] /\ w.is = "all"
           after == IF fin THEN FlagsAfterFin(g, ~Lost) ELSE g
<1>4. a = [tcp |-> after, pend |-> Rest(q, w.n),
           events |-> {x \in ev : x = "writable" => w.is = "all" /\ ~fin} \cup (after \cap {"broken"})]
  BY DEF AtxFlushed, f, ev, q
<1>5. CASE w.is = "all"
  <2>1. g = f /\ Rest(q, w.n) = <<>> /\ ~Lost
    BY <1>1, <1>2, <1>3, <1>5 DEF FlagsAfterSend
  <2>2. CASE wantFin[e]
    <3>0. fin /\ after = FlagsAfterFin(g, ~Lost)
      BY <1>5, <2>2
    <3> HIDE DEF after, g, fin
    <3>1. after = (f \ {"writable"}) \cup {"fin_sent"}
      BY <2>1, <3>0 DEF FlagsAfterFin
    <3>2. after \cap {"broken"} = {}
      BY <1>1, <3>1
    <3>3. a.events = ev \ {"writable"}
      <4> DEFINE kept == {x \in ev : x = "writable" => w.is = "all" /\ ~fin}
      <4>1. a.events = kept \cup {}
        BY <1>4, <3>2
      <4>2. \A x : x \in kept <=> x \in ev /\ x # "writable"
        BY <3>0, Zenon
      <4> HIDE DEF kept
      <4> QED
        BY <4>1, <4>2
    <3>4. a.tcp = after /\ a.pend = Rest(q, w.n)
      BY <1>4
    <3>5. FlushedAll(e, w.n, a)
      BY <1>2, <1>5, <2>1, <2>2, <3>1, <3>3, <3>4 DEF FlushedAll, f, ev, q
    <3> QED
      BY <1>2, <3>5 DEF q
  <2>3. CASE ~wantFin[e]
    <3>0. ~fin /\ after = g
      BY <2>3
    <3> HIDE DEF after, g, fin
    <3>1. after = f
      BY <2>1, <3>0
    <3>2. after \cap {"broken"} = {}
      BY <1>1, <3>1
    <3>3. a.events = ev
      <4> DEFINE kept == {x \in ev : x = "writable" => w.is = "all" /\ ~fin}
      <4>1. a.events = kept \cup {}
        BY <1>4, <3>2
      <4>2. \A x : x \in kept <=> x \in ev
        BY <1>5, <3>0, Zenon
      <4> HIDE DEF kept
      <4> QED
        BY <4>1, <4>2
    <3> QED
      BY <1>2, <1>4, <1>5, <2>1, <2>3, <3>1, <3>3 DEF FlushedAll, f, ev, q
  <2> QED
    BY <1>2, <2>2, <2>3 DEF q
<1>6. CASE w.is \in {"some", "again"}
  <2>1. after = f \ {"writable"}
    BY <1>6 DEF FlagsAfterSend
  <2>2. after \cap {"broken"} = {}
    BY <1>1, <2>1
  <2>3. Rest(q, w.n) # <<>>
    <3>1. Len(q) - w.n # 0
      <4>1. Len(q) # 0
        BY <1>1, EmptySeq DEF q
      <4> QED
        BY <1>1, <1>2, <1>6, <4>1
    <3> QED
      BY <1>3, <3>1, EmptySeq
  <2> HIDE DEF after
  <2>4. a.events = ev \ {"writable"}
    BY <1>4, <1>6, <2>2
  <2> QED
    BY <1>2, <1>4, <2>1, <2>3, <2>4 DEF FlushedSome, f, ev, q
<1>7. CASE w.is \in {"fatal", "epipe"}
  <2>1. after = TagBroken(f)
    BY <1>7 DEF FlagsAfterSend
  <2>2. "broken" \in after
    BY <2>1 DEF TagBroken
  <2> HIDE DEF after
  <2>3. "broken" \in a.events
    BY <1>4, <2>2
  <2>4. w.n = 0 /\ Lost
    BY <1>2, <1>7
  <2> QED
    BY <1>2, <1>3, <1>4, <2>1, <2>3, <2>4 DEF FlushedNone, f, ev, q
<1> QED
  BY <1>2, <1>5, <1>6, <1>7 DEF SendOutcome, q

-----------------------------------------------------------------------------
(* One end.                                                                *)

EndBits(e) ==
  /\ tcp[e] \subseteq {"broken"} \/ "ready" \in tcp[e]
  /\ ~({"readable", "fin_rcvd"} \subseteq tcp[e])
  /\ mask[e] = IF tcp[e] = {} THEN InitialMask ELSE EventMask(tcp[e])

EndUser(e) ==
  /\ user[e] = "using" =>
       /\ "broken" \notin tcp[e]
       /\ flags[e] \ {"fin_sent"} = AtxClone(tcp[e], pend[e]) \ {"fin_sent"}
  /\ e \in cut => user[e] = "discarded"

EndFin(e) ==
  /\ pend[e] # <<>> => {"writable", "fin_sent"} \cap tcp[e] = {}
  /\ "fin_sent" \in tcp[e] => e \in finned
  /\ wantFin[e] => e \in finned
  /\ e \in shut => pend[e] = <<>> /\ (e \in finned \/ user[e] = "discarded")
  /\ e \in ended => "fin_rcvd" \in tcp[e]

EndInv(e) == EndBits(e) /\ EndUser(e) /\ EndFin(e) /\ user[e] # "aborted"

LEMMA ControlIsOfEnds == ControlInv <=> \A e \in Sides : EndInv(e)
BY DEF ControlInv, BitsInv, UserInv, FinInv, NoAbort, EndInv, EndBits, EndUser, EndFin

LEMMA ControlIsOfEndsNext == ControlInv' <=> \A e \in Sides : EndInv(e)'
BY DEF ControlInv, BitsInv, UserInv, FinInv, NoAbort, EndInv, EndBits, EndUser, EndFin

\* A step of one end leaves the other as it was.
OtherRests(o) ==
  /\ tcp'[o] = tcp[o] /\ flags'[o] = flags[o] /\ mask'[o] = mask[o]
  /\ pend'[o] = pend[o] /\ wantFin'[o] = wantFin[o] /\ user'[o] = user[o]
  /\ o \in cut' <=> o \in cut
  /\ o \in shut' <=> o \in shut
  /\ o \in finned' <=> o \in finned
  /\ o \in ended' <=> o \in ended

LEMMA ControlOfEnd ==
  ASSUME ControlInv, NEW e \in Sides, EndInv(e)', \A o \in Sides : o # e => OtherRests(o)
  PROVE  ControlInv'
<1>1. ASSUME NEW o \in Sides
      PROVE  EndInv(o)'
  <2>1. CASE o = e
    BY <2>1
  <2>2. CASE o # e
    <3>1. OtherRests(o) /\ EndInv(o)
      BY <2>2, ControlIsOfEnds
    <3>2. EndBits(o)'
      BY <3>1 DEF OtherRests, EndInv, EndBits
    <3>3. EndUser(o)'
      BY <3>1 DEF OtherRests, EndInv, EndUser
    <3>4. EndFin(o)'
      BY <3>1 DEF OtherRests, EndInv, EndFin
    <3> QED
      BY <3>1, <3>2, <3>3, <3>4 DEF OtherRests, EndInv
  <2> QED
    BY <2>1, <2>2
<1> QED
  BY <1>1, ControlIsOfEndsNext

LEMMA SetPipeFacts ==
  ASSUME TypeOK, NEW e \in Sides, NEW f \in SUBSET Flag, NEW up \in SUBSET Flag, SetPipe(e, f, up)
  PROVE  /\ tcp' \in [Sides -> SUBSET Flag] /\ flags' \in [Sides -> SUBSET Flag]
         /\ mask' \in [Sides -> SUBSET SkEvent]
         /\ tcp'[e] = f /\ flags'[e] = up
         /\ mask'[e] = IF f = tcp[e] THEN mask[e] ELSE EventMask(f)
         /\ \A o \in Sides : o # e =>
              tcp'[o] = tcp[o] /\ flags'[o] = flags[o] /\ mask'[o] = mask[o]
<1>1. EventMask(f) \in SUBSET SkEvent
  BY PipeTypes
<1> QED
  BY <1>1 DEF SetPipe, TypeOK

LEMMA BitsAfter ==
  ASSUME TypeOK, NEW e \in Sides, EndBits(e), NEW f \in SUBSET Flag, NEW up \in SUBSET Flag,
         SetPipe(e, f, up), f # {},
         f \subseteq {"broken"} \/ "ready" \in f, ~({"readable", "fin_rcvd"} \subseteq f)
  PROVE  EndBits(e)'
<1>1. tcp'[e] = f /\ mask'[e] = IF f = tcp[e] THEN mask[e] ELSE EventMask(f)
  BY SetPipeFacts
<1> QED
  BY <1>1 DEF EndBits

LEMMA UserAfter ==
  ASSUME TypeOK, NEW e \in Sides, NEW up, NEW asserts, UserSees(e, up, asserts)
  PROVE  /\ user' \in [Sides -> UserState]
         /\ \A o \in Sides : o # e => user'[o] = user[o]
         /\ user'[e] = IF ~asserts THEN "aborted" ELSE IF "broken" \in up THEN "failed" ELSE user[e]
BY DEF UserSees, TypeOK, UserState

-----------------------------------------------------------------------------
(* No assert() fires.                                                      *)

\* The callback of the atx_pipe, and those above it.
LEMMA CallbackFacts ==
  ASSUME TypeOK, ControlInv, NEW e \in Sides, Wakes(e), NEW a, AtxCalls(e, a), UNCHANGED cut,
         a.tcp \in SUBSET Flag, a.tcp # {}, a.tcp \subseteq {"broken"} \/ "ready" \in a.tcp,
         ~({"readable", "fin_rcvd"} \subseteq a.tcp),
         a.events = {} => /\ "broken" \notin a.tcp
                          /\ AtxClone(a.tcp, a.pend) \ {"fin_sent"}
                               = AtxClone(tcp[e], pend[e]) \ {"fin_sent"}
  PROVE  /\ EndBits(e)' /\ EndUser(e)' /\ user'[e] # "aborted"
         /\ tcp'[e] = a.tcp /\ pend' = [pend EXCEPT ![e] = a.pend]
         /\ user'[e] = user[e] \/ (user'[e] = "failed" /\ "broken" \in a.tcp)
         /\ tcp' \in [Sides -> SUBSET Flag] /\ flags' \in [Sides -> SUBSET Flag]
         /\ mask' \in [Sides -> SUBSET SkEvent] /\ user' \in [Sides -> UserState]
         /\ \A o \in Sides : o # e =>
              /\ tcp'[o] = tcp[o] /\ flags'[o] = flags[o] /\ mask'[o] = mask[o]
              /\ user'[o] = user[o] /\ pend'[o] = pend[o]
<1> DEFINE up == IF a.events = {} THEN flags[e] ELSE AtxClone(a.tcp, a.pend)
           asserts == OnActivityAsserts(tcp[e], Ready(e), Lost)
<1>1. /\ SetPipe(e, a.tcp, up) /\ UserSees(e, up, asserts)
      /\ pend' = [pend EXCEPT ![e] = a.pend]
  BY DEF AtxCalls
<1>2. asserts /\ user[e] \in {"using", "failed"} /\ "broken" \notin tcp[e]
  BY Woken DEF Wakes, ControlInv
<1>3. up \in SUBSET Flag /\ flags[e] \in SUBSET Flag
  BY EndTypes, PipeTypes
<1>4. EndBits(e) /\ EndUser(e)
  BY ControlIsOfEnds DEF EndInv
<1>5. user[e] = "using" => "broken" \notin flags[e]
  BY Using
<1>6. /\ "broken" \in up /\ user[e] = "using" => "broken" \in a.tcp
      /\ "broken" \notin up /\ user[e] = "using" =>
           /\ "broken" \notin a.tcp
           /\ up \ {"fin_sent"} = AtxClone(a.tcp, a.pend) \ {"fin_sent"}
  <2>1. CASE a.events = {}
    BY <1>4, <1>5, <2>1 DEF EndUser
  <2>2. CASE a.events # {}
    BY <2>2 DEF AtxClone
  <2> QED
    BY <2>1, <2>2
<1> HIDE DEF up, asserts
<1>7. EndBits(e)' /\ tcp'[e] = a.tcp /\ flags'[e] = up
  <2> DEFINE f == a.tcp
  <2>1. /\ SetPipe(e, f, up) /\ f \in SUBSET Flag /\ f # {}
        /\ f \subseteq {"broken"} \/ "ready" \in f
        /\ ~({"readable", "fin_rcvd"} \subseteq f)
    BY <1>1
  <2> HIDE DEF f
  <2>2. EndBits(e)'
    BY <1>3, <1>4, <2>1, BitsAfter
  <2>3. tcp'[e] = f /\ flags'[e] = up
    <3>1. SetPipe(e, f, up) /\ f \in SUBSET Flag /\ up \in SUBSET Flag
      BY <1>3, <2>1
    <3> QED
      BY <3>1 DEF SetPipe, TypeOK
  <2> QED
    BY <2>2, <2>3 DEF f
<1>8. /\ user' \in [Sides -> UserState]
      /\ \A o \in Sides : o # e => user'[o] = user[o]
      /\ user'[e] = IF "broken" \in up THEN "failed" ELSE user[e]
  BY <1>1, <1>2, UserAfter
<1>9. pend'[e] = a.pend /\ \A o \in Sides : o # e => pend'[o] = pend[o]
  BY <1>1 DEF TypeOK
<1>10. EndUser(e)'
  BY <1>2, <1>4, <1>6, <1>7, <1>8, <1>9 DEF EndUser
<1>11. user'[e] # "aborted" /\ (user'[e] = user[e] \/ (user'[e] = "failed" /\ "broken" \in a.tcp))
  BY <1>2, <1>6, <1>8
<1>12. /\ tcp' \in [Sides -> SUBSET Flag] /\ flags' \in [Sides -> SUBSET Flag]
       /\ mask' \in [Sides -> SUBSET SkEvent]
       /\ \A o \in Sides : o # e => tcp'[o] = tcp[o] /\ flags'[o] = flags[o] /\ mask'[o] = mask[o]
  BY <1>1, <1>3, SetPipeFacts
<1> QED
  BY <1>1, <1>7, <1>8, <1>9, <1>10, <1>11, <1>12

LEMMA ControlOfActivity ==
  ASSUME TypeOK, ControlInv, NEW e \in Sides, Activity(e)
  PROVE  /\ ControlInv' /\ TypeOK'
         /\ user'[e] = user[e] \/ (user'[e] = "failed" /\ Lost)
         /\ \A o \in Sides : o # e => user'[o] = user[o]
<1> DEFINE f == TcpFlags(e)
           ev == TcpEvents(e)
           a == AtxNothingToFlush(f, ev, pend[e])
<1>1. /\ Wakes(e) /\ Ready(e) # {} /\ AtxCalls(e, a)
      /\ "writable" \notin ev \/ pend[e] = <<>>
      /\ UNCHANGED <<netVars, rx, wantFin, sent, got, finned, ended, cut>>
  BY DEF Activity, Wakes
<1>2. /\ "broken" \notin tcp[e] /\ f \in SUBSET Flag /\ ev # {}
      /\ "ready" \in f \/ f = {"broken"}
      /\ ~({"readable", "fin_rcvd"} \subseteq f)
      /\ "broken" \in f => Lost
      /\ \A b \in {"fin_sent", "fin_rcvd"} : b \in f <=> b \in tcp[e]
      /\ "writable" \in f => "writable" \in tcp[e] \/ "writable" \in ev
  BY <1>1, Woken DEF ControlInv
<1>3. a.tcp = f /\ a.pend = pend[e] /\ a.events = ev
  BY DEF AtxNothingToFlush
<1> HIDE DEF f, ev, a
<1>4. /\ EndBits(e)' /\ EndUser(e)' /\ user'[e] # "aborted"
      /\ tcp'[e] = a.tcp /\ pend' = [pend EXCEPT ![e] = a.pend]
      /\ user'[e] = user[e] \/ (user'[e] = "failed" /\ "broken" \in a.tcp)
      /\ tcp' \in [Sides -> SUBSET Flag] /\ flags' \in [Sides -> SUBSET Flag]
      /\ mask' \in [Sides -> SUBSET SkEvent] /\ user' \in [Sides -> UserState]
      /\ \A o \in Sides : o # e =>
           /\ tcp'[o] = tcp[o] /\ flags'[o] = flags[o] /\ mask'[o] = mask[o]
           /\ user'[o] = user[o] /\ pend'[o] = pend[o]
  <2>1. /\ a.tcp \in SUBSET Flag /\ a.tcp # {} /\ a.events # {}
        /\ a.tcp \subseteq {"broken"} \/ "ready" \in a.tcp
        /\ ~({"readable", "fin_rcvd"} \subseteq a.tcp)
    BY <1>2, <1>3
  <2> QED
    BY <1>1, <2>1, CallbackFacts
<1>5. pend' = pend
  BY <1>3, <1>4 DEF TypeOK
<1>6. EndFin(e)'
  <2>1. EndFin(e) /\ user[e] \in {"using", "failed"}
    BY <1>1, ControlIsOfEnds DEF EndInv, Wakes
  <2>2. pend[e] # <<>> => {"writable", "fin_sent"} \cap f = {}
    BY <1>1, <1>2, <2>1 DEF EndFin
  <2>3. /\ "fin_sent" \in f => e \in finned
        /\ e \in ended => "fin_rcvd" \in f
    BY <1>2, <2>1 DEF EndFin
  <2>4. /\ wantFin[e] => e \in finned
        /\ e \in shut => pend[e] = <<>> /\ e \in finned
    BY <2>1 DEF EndFin
  <2> QED
    BY <1>1, <1>3, <1>4, <1>5, <2>2, <2>3, <2>4 DEF EndFin, netVars
<1>7. \A o \in Sides : o # e => OtherRests(o)
  BY <1>1, <1>4 DEF OtherRests, netVars
<1>8. ControlInv'
  BY <1>4, <1>6, <1>7, ControlOfEnd DEF EndInv
<1>9. TypeOK'
  BY <1>1, <1>4, <1>5 DEF TypeOK, netVars
<1> QED
  BY <1>2, <1>3, <1>4, <1>8, <1>9

LEMMA ControlOfFlush ==
  ASSUME TypeOK, ControlInv, NEW e \in Sides, Flush(e)
  PROVE  /\ ControlInv' /\ TypeOK'
         /\ user'[e] = user[e] \/ (user'[e] = "failed" /\ Lost)
         /\ \A o \in Sides : o # e => user'[o] = user[o]
         /\ \E n \in 0..Len(pend[e]) :
              /\ wire' = [wire EXCEPT ![e] = Cat(wire[e], Taken(pend[e], n))]
              /\ pend' = [pend EXCEPT ![e] = Rest(pend[e], n)]
<1> DEFINE f == TcpFlags(e)
           ev == TcpEvents(e)
<1>1. PICK w \in S!SendResults(e, Len(pend[e])) :
        /\ AtxCalls(e, AtxFlushed(f, ev, pend[e], wantFin[e], w, ~Lost))
        /\ wire' = [wire EXCEPT ![e] = @ \o Taken(pend[e], w.n)]
        /\ shut' = IF "fin_sent" \in tcp'[e] THEN shut \cup {e} ELSE shut
  BY DEF Flush
<1>2. /\ Wakes(e) /\ Ready(e) # {} /\ "writable" \in ev /\ pend[e] # <<>>
      /\ UNCHANGED <<conn, rx, wantFin, sent, got, finned, ended, cut>>
  BY DEF Flush, Wakes
<1> DEFINE a == AtxFlushed(f, ev, pend[e], wantFin[e], w, ~Lost)
           n == w.n
<1>3. n \in 0..Len(pend[e]) /\ (FlushedAll(e, n, a) \/ FlushedSome(e, n, a) \/ FlushedNone(e, n, a))
  BY <1>2, FlushCases
<1>4. /\ "broken" \notin tcp[e] /\ f \in SUBSET Flag
      /\ "ready" \in f /\ "broken" \notin f /\ "fin_sent" \notin f
      /\ ~({"readable", "fin_rcvd"} \subseteq f)
      /\ "fin_rcvd" \in f <=> "fin_rcvd" \in tcp[e]
  BY <1>2, Woken DEF ControlInv
<1>5. AtxCalls(e, a)
  BY <1>1
<1>6. /\ EndFin(e) /\ user[e] \in {"using", "failed"}
      /\ {"writable", "fin_sent"} \cap tcp[e] = {} /\ e \notin shut
  BY <1>2, ControlIsOfEnds DEF EndInv, EndFin, Wakes
<1>7. /\ pend[e] \in Seq(Octets) /\ Rest(pend[e], n) \in Seq(Octets) /\ Taken(pend[e], n) \in Seq(Octets)
      /\ n = Len(pend[e]) => Rest(pend[e], n) = <<>>
      /\ n = 0 => Rest(pend[e], n) = pend[e]
      /\ wire[e] \in Seq(Octets)
  <2> HIDE DEF n
  <2>1. pend[e] \in Seq(Octets) /\ wire[e] \in Seq(Octets)
    BY EndTypes
  <2>2. Rest(pend[e], n) \in Seq(Octets) /\ Taken(pend[e], n) \in Seq(Octets)
    BY <1>3, <2>1, CutFacts
  <2> QED
    BY <2>1, <2>2, CutAtEnds
<1> HIDE DEF f, ev, a, n
<1>8. a.pend = Rest(pend[e], n)
  BY <1>3, <1>7 DEF FlushedAll, FlushedSome, FlushedNone
<1>9. /\ a.tcp \in SUBSET Flag /\ "ready" \in a.tcp
      /\ "fin_rcvd" \in a.tcp <=> "fin_rcvd" \in tcp[e]
      /\ "broken" \in a.tcp => Lost /\ a.events # {}
      /\ "readable" \in a.tcp => "fin_rcvd" \notin a.tcp
      /\ "fin_sent" \in a.tcp => wantFin[e]
      /\ a.pend # <<>> => {"writable", "fin_sent"} \cap a.tcp = {}
  <2>1. CASE FlushedAll(e, n, a)
    <3>1. a.pend = <<>> /\ (a.tcp = f \/ (wantFin[e] /\ a.tcp = (f \ {"writable"}) \cup {"fin_sent"}))
      BY <2>1 DEF FlushedAll, f
    <3> QED
      BY <1>4, <3>1 DEF Flag
  <2>2. CASE FlushedSome(e, n, a)
    BY <1>4, <2>2 DEF FlushedSome, f
  <2>3. CASE FlushedNone(e, n, a)
    <3>1. a.tcp = TagBroken(f) /\ Lost /\ "broken" \in a.events
      BY <2>3 DEF FlushedNone, f
    <3> QED
      BY <1>4, <3>1 DEF TagBroken, Flag
  <2> QED
    BY <1>3, <2>1, <2>2, <2>3
<1>10. a.events = {} => AtxClone(a.tcp, a.pend) \ {"fin_sent"} = AtxClone(tcp[e], pend[e]) \ {"fin_sent"}
  <2> SUFFICES ASSUME a.events = {}
               PROVE  AtxClone(a.tcp, a.pend) \ {"fin_sent"} = AtxClone(tcp[e], pend[e]) \ {"fin_sent"}
    OBVIOUS
  <2>1. ev \subseteq {"writable"} /\ a.tcp \ {"writable", "fin_sent"} = f \ {"writable", "fin_sent"}
    <3>1. CASE FlushedAll(e, n, a)
      BY <1>2, <3>1 DEF FlushedAll, f, ev
    <3>2. CASE FlushedSome(e, n, a)
      BY <3>2 DEF FlushedSome, f, ev
    <3>3. CASE FlushedNone(e, n, a)
      BY <3>3 DEF FlushedNone
    <3> QED
      BY <1>3, <3>1, <3>2, <3>3
  <2>2. f \ {"writable"} = tcp[e]
    <3>1. /\ Ready(e) \cap {"readable", "writable"} \subseteq {"writable"}
          /\ "ready" \in tcp[e] /\ f = tcp[e] \cup {"ready"} \cup (Ready(e) \cap {"readable", "writable"})
      <4>1. CASE ConnectFailed(tcp[e], Ready(e), Lost)
        BY <1>2, <4>1 DEF ev, TcpEvents, EventsOnActivity
      <4>2. CASE ~ConnectFailed(tcp[e], Ready(e), Lost)
        BY <2>1, <4>2 DEF ev, f, TcpEvents, TcpFlags, EventsOnActivity, FlagsOnActivity
      <4> QED
        BY <4>1, <4>2
    <3> QED
      BY <1>6, <3>1
  <2>3. "writable" \notin AtxClone(a.tcp, a.pend)
    <3>1. CASE a.pend # <<>>
      BY <3>1 DEF AtxClone
    <3>2. CASE a.pend = <<>>
      <4>1. FlushedAll(e, n, a)
        BY <1>2, <1>3, <3>2 DEF FlushedSome, FlushedNone
      <4>2. "writable" \notin a.tcp
        BY <1>2, <4>1 DEF FlushedAll, ev
      <4> QED
        BY <4>2 DEF AtxClone
    <3> QED
      BY <3>1, <3>2
  <2>4. AtxClone(a.tcp, a.pend) \ {"fin_sent"} = a.tcp \ {"writable", "fin_sent"}
    BY <2>3 DEF AtxClone
  <2>5. AtxClone(tcp[e], pend[e]) \ {"fin_sent"} = tcp[e] \ {"writable", "fin_sent"}
    BY <1>2 DEF AtxClone
  <2> QED
    BY <2>1, <2>2, <2>4, <2>5
<1>11. /\ EndBits(e)' /\ EndUser(e)' /\ user'[e] # "aborted"
       /\ tcp'[e] = a.tcp /\ pend' = [pend EXCEPT ![e] = a.pend]
       /\ user'[e] = user[e] \/ (user'[e] = "failed" /\ "broken" \in a.tcp)
       /\ tcp' \in [Sides -> SUBSET Flag] /\ flags' \in [Sides -> SUBSET Flag]
       /\ mask' \in [Sides -> SUBSET SkEvent] /\ user' \in [Sides -> UserState]
       /\ \A o \in Sides : o # e =>
            /\ tcp'[o] = tcp[o] /\ flags'[o] = flags[o] /\ mask'[o] = mask[o]
            /\ user'[o] = user[o] /\ pend'[o] = pend[o]
  <2>1. UNCHANGED cut /\ a.tcp # {} /\ ~({"readable", "fin_rcvd"} \subseteq a.tcp)
    BY <1>2, <1>9
  <2> QED
    BY <1>2, <1>5, <1>9, <1>10, <2>1, CallbackFacts
<1>12. /\ pend'[e] = Rest(pend[e], n) /\ pend' \in [Sides -> Seq(Octets)]
       /\ pend' = [pend EXCEPT ![e] = Rest(pend[e], n)]
  BY <1>7, <1>8, <1>11 DEF TypeOK
<1>13. wire' = [wire EXCEPT ![e] = Cat(wire[e], Taken(pend[e], n))] /\ wire' \in [Sides -> Seq(Octets)]
  <2>1. wire' = [wire EXCEPT ![e] = Cat(wire[e], Taken(pend[e], n))]
    BY <1>1 DEF Cat, n
  <2>2. Cat(wire[e], Taken(pend[e], n)) \in Seq(Octets)
    BY <1>7, CatType
  <2> QED
    BY <2>1, <2>2 DEF TypeOK
<1>14. EndFin(e)'
  <2>1. /\ "fin_sent" \in a.tcp => e \in finned
        /\ e \in ended => "fin_rcvd" \in a.tcp
        /\ wantFin[e] => e \in finned
        /\ e \in shut' => "fin_sent" \in a.tcp
    BY <1>1, <1>6, <1>9, <1>11 DEF EndFin
  <2>2. e \in shut' => a.pend = <<>>
    BY <1>9, <2>1
  <2>3. pend'[e] = a.pend
    BY <1>8, <1>12
  <2> QED
    BY <1>2, <1>9, <1>11, <2>1, <2>2, <2>3 DEF EndFin
<1>15. \A o \in Sides : o # e => OtherRests(o)
  BY <1>1, <1>2, <1>11 DEF OtherRests
<1>16. ControlInv'
  BY <1>11, <1>14, <1>15, ControlOfEnd DEF EndInv
<1>17. TypeOK'
  BY <1>1, <1>2, <1>11, <1>12, <1>13 DEF TypeOK
<1> QED
  BY <1>3, <1>9, <1>11, <1>12, <1>13, <1>16, <1>17

\* What recv() leaves below, and where.
RecvStep(e, r) ==
  /\ SetPipe(e, r.tcp, r.up)
  /\ rx' = [rx EXCEPT ![e] = r.rx]
  /\ wire' = [wire EXCEPT ![Peer(e)] = Rest(@, r.read)]
  /\ got' = IF r.is = "data" THEN [got EXCEPT ![e] = Append(@, r.data)] ELSE got
  /\ ended' = IF r.is = "fin" THEN ended \cup {e} ELSE ended
  /\ UserSees(e, r.up, RecvAsserts(rx[e], RecvSize))
  /\ UNCHANGED <<conn, shut, pend, wantFin, sent, finned, cut>>

LEMMA LookedFacts ==
  ASSUME TypeOK, NEW e \in Sides, NEW n \in 0..Len(wire[Peer(e)]), NEW r, Looked(e, n, r)
  PROVE  /\ r.is \in {"data", "nothing"} /\ r.read = n /\ r.rx \in Seq(Octets)
         /\ r.tcp = tcp[e]
         /\ r.up = AtxClone(tcp[e], pend[e]) \/ r.up = TagBroken(flags[e])
<1> DEFINE q == Cat(rx[e], Taken(wire[Peer(e)], n))
<1>1. q \in Seq(Octets)
  <2>1. rx[e] \in Seq(Octets) /\ wire[Peer(e)] \in Seq(Octets)
    BY EndTypes, PeerFacts
  <2>2. Taken(wire[Peer(e)], n) \in Seq(Octets)
    BY <2>1, CutFacts
  <2> QED
    BY <2>1, <2>2, CatType
<1> HIDE DEF q
<1>2. ProcessRx(q).rest \in Seq(Octets)
  BY <1>1, OctetsAreTyped, ProcessRxTypes
<1>3. \/ r = Received("nothing", <<>>, n, <<>>, tcp[e], TagBroken(flags[e]))
      \/ r = Received("nothing", ProcessRx(q).data, n, ProcessRx(q).rest, tcp[e], AtxClone(tcp[e], pend[e]))
      \/ r = Received("data", ProcessRx(q).data, n, ProcessRx(q).rest, tcp[e], AtxClone(tcp[e], pend[e]))
  BY DEF Looked, q
<1>4. <<>> \in Seq(Octets)
  BY OctetsAreTyped
<1>5. CASE r = Received("nothing", <<>>, n, <<>>, tcp[e], TagBroken(flags[e]))
  BY <1>4, <1>5 DEF Received
<1>6. CASE r = Received("nothing", ProcessRx(q).data, n, ProcessRx(q).rest, tcp[e], AtxClone(tcp[e], pend[e]))
  BY <1>2, <1>6 DEF Received
<1>7. CASE r = Received("data", ProcessRx(q).data, n, ProcessRx(q).rest, tcp[e], AtxClone(tcp[e], pend[e]))
  BY <1>2, <1>7 DEF Received
<1> QED
  BY <1>3, <1>5, <1>6, <1>7

LEMMA RecvFacts ==
  ASSUME TypeOK, ControlInv, NEW e \in Sides, user[e] = "using", "readable" \in flags[e],
         NEW r \in Recvs(e)
  PROVE  /\ r.is \in {"data", "fin", "nothing"} /\ r.read \in 0..Len(wire[Peer(e)])
         /\ r.rx \in Seq(Octets) /\ r.tcp \in SUBSET Flag /\ r.up \in SUBSET Flag
         /\ "ready" \in r.tcp /\ ~({"readable", "fin_rcvd"} \subseteq r.tcp)
         /\ "broken" \notin r.up => "broken" \notin r.tcp /\ r.up = AtxClone(r.tcp, pend[e])
         /\ \A b \in {"writable", "fin_sent"} : b \in r.tcp => b \in tcp[e]
         /\ r.is = "fin" => "fin_rcvd" \in r.tcp
<1>1. /\ "broken" \notin tcp[e] /\ "readable" \in tcp[e] /\ "fin_rcvd" \notin tcp[e]
      /\ "ready" \in tcp[e] /\ tcp[e] \in SUBSET Flag /\ flags[e] \in SUBSET Flag
      /\ rx[e] \in Seq(Octets) /\ Len(wire[Peer(e)]) \in Nat
      /\ AtxClone(tcp[e], pend[e]) \in SUBSET Flag /\ TagBroken(flags[e]) \in SUBSET Flag
  BY Using, EndTypes, PeerFacts, LenProperties, PipeTypes
<1>2. ASSUME NEW n \in 0..Len(wire[Peer(e)]), Looked(e, n, r)
      PROVE  /\ r.is \in {"data", "nothing"} /\ r.read \in 0..Len(wire[Peer(e)]) /\ r.rx \in Seq(Octets)
             /\ r.tcp = tcp[e] /\ r.up \in SUBSET Flag
             /\ "broken" \notin r.up => r.up = AtxClone(tcp[e], pend[e])
  <2>1. /\ r.is \in {"data", "nothing"} /\ r.read = n /\ r.rx \in Seq(Octets) /\ r.tcp = tcp[e]
        /\ r.up = AtxClone(tcp[e], pend[e]) \/ r.up = TagBroken(flags[e])
    BY <1>2, LookedFacts
  <2>2. "broken" \in TagBroken(flags[e])
    BY DEF TagBroken
  <2> QED
    BY <1>1, <2>1, <2>2
<1>3. CASE \E n \in 0..Len(wire[Peer(e)]) : Looked(e, n, r)
  BY <1>1, <1>2, <1>3
<1>4. CASE AtFin(e, r)
  <2> DEFINE f == (tcp[e] \ {"readable"}) \cup {"fin_rcvd"}
  <2>1. f \in SUBSET Flag /\ "ready" \in f /\ "readable" \notin f /\ "broken" \notin f /\ "fin_rcvd" \in f
    BY <1>1 DEF Flag
  <2>2. \A b \in {"writable", "fin_sent"} : b \in f => b \in tcp[e]
    OBVIOUS
  <2>3. r = Received("fin", <<>>, 0, <<>>, f, AtxClone(f, pend[e]))
        \/ r = Received("nothing", <<>>, 0, <<>>, f, TagBroken(flags[e]))
    BY <1>4 DEF AtFin
  <2>4. AtxClone(f, pend[e]) \in SUBSET Flag /\ "broken" \in TagBroken(flags[e])
    BY <2>1, PipeTypes DEF TagBroken
  <2> HIDE DEF f
  <2>5. <<>> \in Seq(Octets) /\ 0 \in 0..Len(wire[Peer(e)]) /\ TagBroken(flags[e]) \in SUBSET Flag
    BY <1>1, OctetsAreTyped
  <2>6. CASE r = Received("fin", <<>>, 0, <<>>, f, AtxClone(f, pend[e]))
    BY <2>1, <2>2, <2>4, <2>5, <2>6 DEF Received
  <2>7. CASE r = Received("nothing", <<>>, 0, <<>>, f, TagBroken(flags[e]))
    BY <2>1, <2>2, <2>4, <2>5, <2>7 DEF Received
  <2> QED
    BY <2>3, <2>6, <2>7
<1>5. CASE NotNow(e, r)
  <2> DEFINE f == tcp[e] \ {"readable"}
  <2>1. f \in SUBSET Flag /\ "ready" \in f /\ "readable" \notin f /\ "broken" \notin f
    BY <1>1 DEF Flag
  <2>2. AtxClone(f, pend[e]) \in SUBSET Flag /\ \A b \in {"writable", "fin_sent"} : b \in f => b \in tcp[e]
    BY <2>1, PipeTypes
  <2>3. r = Received("nothing", <<>>, 0, rx[e], f, AtxClone(f, pend[e]))
    BY <1>5 DEF NotNow
  <2> HIDE DEF f
  <2> QED
    BY <1>1, <2>1, <2>2, <2>3 DEF Received
<1>6. CASE NoMore(e, r)
  <2> DEFINE f == TagBroken(tcp[e])
  <2>1. f \in SUBSET Flag /\ "ready" \in f /\ "readable" \notin f /\ "broken" \in f /\ "writable" \notin f
    BY <1>1 DEF TagBroken, Flag
  <2>2. AtxClone(f, pend[e]) \in SUBSET Flag /\ "broken" \in AtxClone(f, pend[e])
    BY <2>1, PipeTypes DEF AtxClone
  <2>3. "fin_sent" \in f => "fin_sent" \in tcp[e]
    BY DEF TagBroken
  <2>4. r = Received("nothing", <<>>, 0, rx[e], f, AtxClone(f, pend[e]))
    BY <1>6 DEF NoMore
  <2> HIDE DEF f
  <2> QED
    BY <1>1, <2>1, <2>2, <2>3, <2>4 DEF Received
<1> QED
  BY <1>3, <1>4, <1>5, <1>6, RecvCases

LEMMA ControlOfRecv ==
  ASSUME TypeOK, ControlInv, NEW e \in Sides, user[e] = "using", "readable" \in flags[e],
         NEW r \in Recvs(e), RecvStep(e, r)
  PROVE  /\ ControlInv' /\ (got' \in [Sides -> Seq(Seq(Octet))] => TypeOK')
         /\ user'[e] = IF "broken" \in r.up THEN "failed" ELSE "using"
         /\ \A o \in Sides : o # e => user'[o] = user[o]
<1>1. /\ r.is \in {"data", "fin", "nothing"} /\ r.read \in 0..Len(wire[Peer(e)])
      /\ r.rx \in Seq(Octets) /\ r.tcp \in SUBSET Flag /\ r.up \in SUBSET Flag
      /\ "ready" \in r.tcp /\ ~({"readable", "fin_rcvd"} \subseteq r.tcp)
      /\ "broken" \notin r.up => "broken" \notin r.tcp /\ r.up = AtxClone(r.tcp, pend[e])
      /\ \A b \in {"writable", "fin_sent"} : b \in r.tcp => b \in tcp[e]
      /\ r.is = "fin" => "fin_rcvd" \in r.tcp
  BY RecvFacts
<1>2. RecvAsserts(rx[e], RecvSize)
  <2>1. rx[e] \in Seq(Octets) /\ Len(rx[e]) \in Nat
    BY EndTypes, LenProperties
  <2>2. ~LeftOver(rx[e]) => Len(rx[e]) < 2 + MaxDgm
    BY <2>1, OctetsAreTyped, ProcessRxTypes DEF LeftOver
  <2>3. CASE LeftOver(rx[e])
    BY <2>3 DEF RecvAsserts
  <2>4. CASE ~LeftOver(rx[e])
    <3> DEFINE l == Len(rx[e])
    <3>1. /\ MaxHdr \in Nat /\ MaxHdr >= 2 /\ MaxDgm \in Nat
          /\ RecvSize \in Nat /\ RecvSize >= MaxDgm
          /\ l \in Nat /\ l < 2 + MaxDgm
      BY <2>1, <2>2, <2>4
    <3> HIDE DEF l
    <3>2. MaxHdr + RecvSize - l > 0
      BY <3>1
    <3> QED
      BY <3>2 DEF RecvAsserts, RxSpace, l
  <2> QED
    BY <2>3, <2>4
<1> DEFINE f == r.tcp
           up == r.up
<1>3. SetPipe(e, f, up) /\ f \in SUBSET Flag /\ up \in SUBSET Flag
  BY <1>1 DEF RecvStep
<1>4. UserSees(e, up, RecvAsserts(rx[e], RecvSize))
  BY DEF RecvStep
<1>5. /\ f # {} /\ "ready" \in f /\ ~({"readable", "fin_rcvd"} \subseteq f)
      /\ "broken" \notin up => "broken" \notin f /\ up = AtxClone(f, pend[e])
  BY <1>1
<1>6. EndBits(e) /\ EndUser(e) /\ EndFin(e) /\ e \notin cut
  BY ControlIsOfEnds, Using DEF EndInv
<1> HIDE DEF f, up
<1>7. EndBits(e)'
  BY <1>3, <1>5, <1>6, BitsAfter
<1>8. /\ tcp' \in [Sides -> SUBSET Flag] /\ flags' \in [Sides -> SUBSET Flag]
      /\ mask' \in [Sides -> SUBSET SkEvent]
      /\ tcp'[e] = f /\ flags'[e] = up
      /\ \A o \in Sides : o # e => tcp'[o] = tcp[o] /\ flags'[o] = flags[o] /\ mask'[o] = mask[o]
  <2>1. EventMask(f) \in SUBSET SkEvent
    BY <1>3, PipeTypes
  <2> QED
    BY <1>3, <2>1 DEF SetPipe, TypeOK
<1>9. /\ user' \in [Sides -> UserState]
      /\ \A o \in Sides : o # e => user'[o] = user[o]
      /\ user'[e] = IF "broken" \in up THEN "failed" ELSE "using"
  BY <1>2, <1>4, UserAfter
<1>10. EndUser(e)'
  <2>1. pend' = pend /\ cut' = cut
    BY DEF RecvStep
  <2> QED
    BY <1>5, <1>6, <1>8, <1>9, <2>1 DEF EndUser
<1>11. EndFin(e)'
  <2>1. /\ pend' = pend /\ finned' = finned /\ wantFin' = wantFin /\ shut' = shut
        /\ e \in ended' => e \in ended \/ r.is = "fin"
    BY DEF RecvStep
  <2>2. \A b \in {"writable", "fin_sent"} : b \in f => b \in tcp[e]
    BY <1>1 DEF f
  <2>3. e \notin ended /\ (r.is = "fin" => "fin_rcvd" \in f)
    BY <1>1, <1>6, Using DEF f, EndFin
  <2>4. e \in shut => e \in finned
    BY <1>6 DEF EndFin
  <2> QED
    BY <1>6, <1>8, <2>1, <2>2, <2>3, <2>4 DEF EndFin
<1>12. \A o \in Sides : o # e => OtherRests(o)
  <2>1. UNCHANGED <<pend, wantFin, cut, shut, finned>> /\ \A o \in Sides : o # e => (o \in ended' <=> o \in ended)
    BY DEF RecvStep
  <2> QED
    BY <1>8, <1>9, <2>1 DEF OtherRests
<1>13. ControlInv'
  BY <1>7, <1>9, <1>10, <1>11, <1>12, ControlOfEnd DEF EndInv
<1>14. rx' \in [Sides -> Seq(Octets)] /\ wire' \in [Sides -> Seq(Octets)]
  <2>1. rx' = [rx EXCEPT ![e] = r.rx] /\ wire' = [wire EXCEPT ![Peer(e)] = Rest(wire[Peer(e)], r.read)]
    BY DEF RecvStep
  <2>2. Rest(wire[Peer(e)], r.read) \in Seq(Octets)
    <3> DEFINE n == r.read
    <3>1. n \in 0..Len(wire[Peer(e)]) /\ wire[Peer(e)] \in Seq(Octets)
      BY <1>1, EndTypes, PeerFacts
    <3> HIDE DEF n
    <3>2. Rest(wire[Peer(e)], n) \in Seq(Octets)
      BY <3>1, CutFacts
    <3> QED
      BY <3>2 DEF n
  <2> QED
    BY <1>1, <2>1, <2>2 DEF TypeOK
<1>15. ASSUME got' \in [Sides -> Seq(Seq(Octet))]
       PROVE  TypeOK'
  <2>1. ended' \in SUBSET Sides /\ UNCHANGED <<conn, shut, pend, wantFin, sent, finned, cut>>
    BY DEF RecvStep, TypeOK
  <2> QED
    BY <1>8, <1>9, <1>14, <1>15, <2>1 DEF TypeOK
<1> QED
  BY <1>9, <1>13, <1>15 DEF up

\* What send() of a datagram leaves below, and where.
SendStep(e, data, w) ==
  /\ SetPipe(e, w.tcp, w.up)
  /\ wire' = [wire EXCEPT ![e] = @ \o w.put]
  /\ pend' = [pend EXCEPT ![e] = w.pend]
  /\ sent' = IF w.ok THEN [sent EXCEPT ![e] = Append(@, data)] ELSE sent
  /\ UserSees(e, w.up, SendAsserts(w))
  /\ UNCHANGED <<conn, shut, rx, wantFin, got, finned, ended, cut>>

\* The datagrams that are sent are those of the abstract channel.
LEMMA DatagramTypes ==
  ASSUME TypeOK, NEW e \in Sides, Len(sent["l"]) + Len(sent["r"]) < MaxDgms, NEW n \in DgmSizes
  PROVE  /\ DatagramOf(e, n) \in Seq(Octet) /\ DatagramOf(e, n) \in Seq(Octets)
         /\ \E k \in 1..MaxDgms : DatagramOf(e, n) = [i \in 1..n |-> <<e, k, i>>]
<1> DEFINE k == Len(sent[e]) + 1
<1>1. k \in 1..MaxDgms
  <2> DEFINE a == Len(sent["l"])
             b == Len(sent["r"])
  <2>1. "l" \in Sides /\ "r" \in Sides /\ (e = "l" \/ e = "r")
    BY DEF Sides
  <2>2. a \in Nat /\ b \in Nat
    BY <2>1, EndTypes, LenProperties
  <2>3. a + b < MaxDgms /\ MaxDgms \in Nat /\ (k = a + 1 \/ k = b + 1)
    BY <2>1
  <2> HIDE DEF a, b, k
  <2> QED
    BY <2>2, <2>3
<1>2. DatagramOf(e, n) = [i \in 1..n |-> <<e, k, i>>]
  BY DEF DatagramOf
<1>3. n \in Nat
  OBVIOUS
<1> HIDE DEF k
<1>4. \A i \in 1..n : <<e, k, i>> \in Octet
  BY <1>1, <1>3 DEF Octet
<1>5. [i \in 1..n |-> <<e, k, i>>] \in Seq(Octet)
  BY <1>3, <1>4, SeqDef
<1>6. Octet \subseteq Octets
  BY DEF Octets
<1> QED
  BY <1>1, <1>2, <1>5, <1>6, SeqMonotonic

LEMMA SendFacts ==
  ASSUME TypeOK, ControlInv, NEW e \in Sides, user[e] = "using", "writable" \in flags[e],
         NEW data \in Seq(Octets), NEW w \in Sends(e, data)
  PROVE  /\ w.put \in Seq(Octets) /\ w.pend \in Seq(Octets) /\ w.tcp \in SUBSET Flag /\ w.up \in SUBSET Flag
         /\ "ready" \in w.tcp /\ w.up = AtxClone(w.tcp, w.pend)
         /\ \A b \in {"readable", "fin_sent", "fin_rcvd"} : b \in w.tcp => b \in tcp[e]
         /\ "fin_rcvd" \in tcp[e] => "fin_rcvd" \in w.tcp
         /\ w.pend # <<>> => "writable" \notin w.tcp
         /\ "broken" \in w.tcp => ~w.ok /\ Lost
<1>1. /\ "broken" \notin tcp[e] /\ "ready" \in tcp[e] /\ tcp[e] \in SUBSET Flag
      /\ TagBroken(tcp[e]) \in SUBSET Flag
  BY Using, EndTypes, PipeTypes
<1>2. Frame(data) \in Seq(Octets) /\ <<>> \in Seq(Octets) /\ Len(Frame(data)) \in Nat
  BY OctetsAreTyped, FrameAt, LenProperties
<1>3. CASE Accepted(e, data, w)
  <2> DEFINE q == Frame(data)
  <2>1. PICK n \in 1..Len(q) :
          /\ w.ok /\ w.put = Taken(q, n) /\ Put(q, n, tcp[e], w.tcp, w.pend)
          /\ w.up = AtxClone(w.tcp, w.pend)
    BY <1>3 DEF Accepted
  <2>2. n \in 0..Len(q)
    BY <1>2
  <2> HIDE DEF q
  <2>3. Taken(q, n) \in Seq(Octets) /\ Rest(q, n) \in Seq(Octets)
    BY <1>2, <2>2, CutFacts DEF q
  <2>4. w.pend = Rest(q, n) /\ ((w.tcp = tcp[e] /\ w.pend = <<>>) \/ w.tcp = tcp[e] \ {"writable"})
    BY <2>1 DEF Put
  <2>5. w.tcp \in SUBSET Flag
    BY <1>1, <2>4
  <2>6. w.up \in SUBSET Flag
    BY <2>1, <2>5, PipeTypes
  <2> QED
    BY <1>1, <2>1, <2>3, <2>4, <2>5, <2>6
<1>4. CASE Refused(e, w)
  <2>1. /\ w.put = <<>> /\ w.pend = <<>> /\ w.up = AtxClone(w.tcp, w.pend) /\ ~w.ok
        /\ w.tcp = tcp[e] \ {"writable"} \/ (Lost /\ w.tcp = TagBroken(tcp[e]))
    BY <1>4 DEF Refused
  <2>2. w.tcp \in SUBSET Flag
    BY <1>1, <2>1
  <2>3. w.up \in SUBSET Flag
    BY <2>1, <2>2, PipeTypes
  <2>4. "ready" \in w.tcp /\ ("broken" \in w.tcp => Lost)
    BY <1>1, <2>1 DEF TagBroken
  <2>5. \A b \in {"readable", "fin_sent", "fin_rcvd"} : b \in w.tcp => b \in tcp[e]
    BY <2>1 DEF TagBroken
  <2>6. "fin_rcvd" \in tcp[e] => "fin_rcvd" \in w.tcp
    BY <2>1 DEF TagBroken
  <2> QED
    BY <1>2, <2>1, <2>2, <2>3, <2>4, <2>5, <2>6
<1> QED
  BY <1>3, <1>4, SendCases

LEMMA ControlOfSend ==
  ASSUME TypeOK, ControlInv, NEW e \in Sides, user[e] = "using", "writable" \in flags[e], e \notin finned,
         NEW data \in Seq(Octets), data \in Seq(Octet), NEW w \in Sends(e, data), SendStep(e, data, w)
  PROVE  /\ ControlInv' /\ TypeOK'
         /\ user'[e] = IF "broken" \in w.tcp THEN "failed" ELSE "using"
         /\ \A o \in Sides : o # e => user'[o] = user[o]
<1>1. /\ w.put \in Seq(Octets) /\ w.pend \in Seq(Octets) /\ w.tcp \in SUBSET Flag /\ w.up \in SUBSET Flag
      /\ "ready" \in w.tcp /\ w.up = AtxClone(w.tcp, w.pend)
      /\ \A b \in {"readable", "fin_sent", "fin_rcvd"} : b \in w.tcp => b \in tcp[e]
      /\ "fin_rcvd" \in tcp[e] => "fin_rcvd" \in w.tcp
      /\ w.pend # <<>> => "writable" \notin w.tcp
  BY SendFacts
<1> DEFINE f == w.tcp
           up == w.up
<1>2. SetPipe(e, f, up) /\ f \in SUBSET Flag /\ up \in SUBSET Flag /\ UserSees(e, up, SendAsserts(w))
  BY <1>1 DEF SendStep
<1>3. SendAsserts(w)
  BY <1>1 DEF SendAsserts
<1>4. EndBits(e) /\ EndUser(e) /\ EndFin(e) /\ e \notin cut
  BY ControlIsOfEnds, Using DEF EndInv
<1>5. f # {} /\ "ready" \in f /\ ~({"readable", "fin_rcvd"} \subseteq f)
  BY <1>1, <1>4 DEF EndBits
<1>6. /\ up = AtxClone(f, w.pend) /\ ("broken" \in up <=> "broken" \in f)
      /\ w.pend # <<>> => "writable" \notin f
      /\ "fin_sent" \notin f /\ ("fin_rcvd" \in tcp[e] => "fin_rcvd" \in f)
  BY <1>1, Using DEF AtxClone
<1> HIDE DEF f, up
<1>7. EndBits(e)'
  BY <1>2, <1>4, <1>5, BitsAfter
<1>8. /\ tcp' \in [Sides -> SUBSET Flag] /\ flags' \in [Sides -> SUBSET Flag]
      /\ mask' \in [Sides -> SUBSET SkEvent]
      /\ tcp'[e] = f /\ flags'[e] = up
      /\ \A o \in Sides : o # e => tcp'[o] = tcp[o] /\ flags'[o] = flags[o] /\ mask'[o] = mask[o]
  BY <1>2, SetPipeFacts
<1>9. /\ user' \in [Sides -> UserState]
      /\ \A o \in Sides : o # e => user'[o] = user[o]
      /\ user'[e] = IF "broken" \in up THEN "failed" ELSE "using"
  BY <1>2, <1>3, UserAfter
<1>10. /\ pend' \in [Sides -> Seq(Octets)] /\ pend'[e] = w.pend
       /\ \A o \in Sides : o # e => pend'[o] = pend[o]
  BY <1>1 DEF TypeOK, SendStep
<1>11. EndUser(e)'
  <2>1. cut' = cut
    BY DEF SendStep
  <2> QED
    BY <1>4, <1>6, <1>8, <1>9, <1>10, <2>1 DEF EndUser
<1>12. EndFin(e)'
  <2>1. finned' = finned /\ wantFin' = wantFin /\ shut' = shut /\ ended' = ended
    BY DEF SendStep
  <2>2. e \notin shut /\ ~wantFin[e] /\ (e \in ended => "fin_rcvd" \in f)
    BY <1>4, <1>6 DEF EndFin
  <2> QED
    BY <1>6, <1>8, <1>10, <2>1, <2>2 DEF EndFin
<1>13. \A o \in Sides : o # e => OtherRests(o)
  <2>1. UNCHANGED <<shut, wantFin, finned, ended, cut>>
    BY DEF SendStep
  <2> QED
    BY <1>8, <1>9, <1>10, <2>1 DEF OtherRests
<1>14. ControlInv'
  BY <1>7, <1>9, <1>11, <1>12, <1>13, ControlOfEnd DEF EndInv
<1>15. wire' \in [Sides -> Seq(Octets)]
  <2>1. wire' = [wire EXCEPT ![e] = Cat(wire[e], w.put)]
    BY DEF SendStep, Cat
  <2>2. Cat(wire[e], w.put) \in Seq(Octets)
    BY <1>1, EndTypes, CatType
  <2> QED
    BY <2>1, <2>2 DEF TypeOK
<1>16. sent' \in [Sides -> Seq(Seq(Octet))]
  <2>1. Append(sent[e], data) \in Seq(Seq(Octet))
    BY EndTypes, AppendProperties
  <2>2. sent' = [sent EXCEPT ![e] = Append(sent[e], data)] \/ sent' = sent
    BY DEF SendStep
  <2> QED
    BY <2>1, <2>2 DEF TypeOK
<1>17. TypeOK'
  <2>1. UNCHANGED <<conn, shut, rx, wantFin, got, finned, ended, cut>>
    BY DEF SendStep
  <2> QED
    BY <1>8, <1>9, <1>10, <1>15, <1>16, <2>1 DEF TypeOK
<1> QED
  BY <1>6, <1>9, <1>14, <1>17 DEF f

\* What send_fin() comes to: it is put off, sent, or the pipe breaks.
FinCases(e, a) ==
  \/ pend[e] # <<>> /\ a.tcp = tcp[e] /\ a.wantFin = TRUE
  \/ /\ pend[e] = <<>> /\ a.wantFin = wantFin[e] /\ ~Lost
     /\ a.tcp = (tcp[e] \ {"writable"}) \cup {"fin_sent"}
  \/ /\ pend[e] = <<>> /\ a.wantFin = wantFin[e] /\ Lost
     /\ a.tcp = TagBroken(tcp[e])

LEMMA FinIsOneOf ==
  ASSUME NEW e \in Sides, NEW a, a = AtxFin(tcp[e], pend[e], wantFin[e], ~Lost)
  PROVE  FinCases(e, a)
<1>1. CASE pend[e] # <<>>
  BY <1>1 DEF AtxFin, FinCases
<1>2. CASE pend[e] = <<>> /\ Lost
  BY <1>2 DEF AtxFin, FinCases, FlagsAfterFin
<1>3. CASE pend[e] = <<>> /\ ~Lost
  BY <1>3 DEF AtxFin, FinCases, FlagsAfterFin
<1> QED
  BY <1>1, <1>2, <1>3

LEMMA ControlOfFin ==
  ASSUME TypeOK, ControlInv, NEW e \in Sides, UserFins(e)
  PROVE  /\ ControlInv' /\ TypeOK'
         /\ \/ user'[e] = "using" /\ finned' = finned \cup {e}
            \/ user'[e] = "failed" /\ finned' = finned /\ Lost
         /\ \A o \in Sides : o # e => user'[o] = user[o]
<1> DEFINE a == AtxFin(tcp[e], pend[e], wantFin[e], ~Lost)
           f == a.tcp
           up == AtxClone(f, pend[e])
           asserts == AtxFinAsserts(tcp[e], pend[e], wantFin[e])
<1>1. /\ user[e] = "using" /\ e \notin finned /\ "ready" \in flags[e]
      /\ SetPipe(e, f, up)
      /\ wantFin' = [wantFin EXCEPT ![e] = a.wantFin]
      /\ shut' = IF "fin_sent" \in f THEN shut \cup {e} ELSE shut
      /\ finned' = IF "broken" \in f THEN finned ELSE finned \cup {e}
      /\ UserSees(e, up, asserts)
      /\ UNCHANGED <<conn, wire, rx, pend, sent, got, ended, cut>>
  BY DEF UserFins
<1>2. FinCases(e, a)
  BY FinIsOneOf
<1>3. /\ "broken" \notin tcp[e] /\ "ready" \in tcp[e] /\ tcp[e] \in SUBSET Flag
      /\ "fin_sent" \notin tcp[e] /\ ~wantFin[e] /\ e \notin cut
      /\ wantFin[e] \in BOOLEAN /\ user[e] = "using"
  BY <1>1, Using, EndTypes
<1>4. EndBits(e) /\ EndUser(e) /\ EndFin(e)
  BY ControlIsOfEnds DEF EndInv
<1>5. asserts
  BY <1>3 DEF AtxFinAsserts, AtxClone
<1> HIDE DEF a, asserts
<1>6. /\ f \in SUBSET Flag /\ "ready" \in f /\ ~({"readable", "fin_rcvd"} \subseteq f)
      /\ "broken" \in f => Lost
      /\ "fin_sent" \in f => pend[e] = <<>> /\ "broken" \notin f
      /\ "writable" \in f => "writable" \in tcp[e]
      /\ "fin_rcvd" \in tcp[e] => "fin_rcvd" \in f
  <2>1. CASE pend[e] # <<>> /\ f = tcp[e]
    BY <1>3, <1>4, <2>1 DEF EndBits
  <2>2. CASE pend[e] = <<>> /\ f = (tcp[e] \ {"writable"}) \cup {"fin_sent"}
    BY <1>3, <1>4, <2>2 DEF EndBits, Flag
  <2>3. CASE Lost /\ f = TagBroken(tcp[e])
    BY <1>3, <1>4, <2>3 DEF EndBits, TagBroken, Flag
  <2> QED
    BY <1>2, <2>1, <2>2, <2>3 DEF FinCases
<1>7. a.wantFin \in BOOLEAN /\ (a.wantFin => "broken" \notin f)
  <2>1. a.wantFin = wantFin[e] \/ (a.wantFin = TRUE /\ f = tcp[e])
    BY <1>2 DEF FinCases
  <2>2. CASE a.wantFin = wantFin[e]
    BY <1>3, <2>2
  <2>3. CASE a.wantFin = TRUE /\ f = tcp[e]
    BY <1>3, <2>3
  <2> QED
    BY <2>1, <2>2, <2>3
<1>8. up \in SUBSET Flag /\ ("broken" \in up <=> "broken" \in f)
  BY <1>6, PipeTypes DEF AtxClone
<1> HIDE DEF f, up
<1>9. EndBits(e)'
  BY <1>1, <1>4, <1>6, <1>8, BitsAfter
<1>10. /\ tcp' \in [Sides -> SUBSET Flag] /\ flags' \in [Sides -> SUBSET Flag]
       /\ mask' \in [Sides -> SUBSET SkEvent]
       /\ tcp'[e] = f /\ flags'[e] = up
       /\ \A o \in Sides : o # e => tcp'[o] = tcp[o] /\ flags'[o] = flags[o] /\ mask'[o] = mask[o]
  <2>1. SetPipe(e, f, up) /\ f \in SUBSET Flag /\ up \in SUBSET Flag
    BY <1>1, <1>6, <1>8
  <2> QED
    BY <2>1, SetPipeFacts
<1>11. /\ user' \in [Sides -> UserState]
       /\ \A o \in Sides : o # e => user'[o] = user[o]
       /\ user'[e] = IF "broken" \in up THEN "failed" ELSE "using"
  BY <1>1, <1>3, <1>5, UserAfter
<1>12. /\ wantFin' \in [Sides -> BOOLEAN] /\ wantFin'[e] = a.wantFin
       /\ \A o \in Sides : o # e => wantFin'[o] = wantFin[o]
  BY <1>1, <1>7 DEF TypeOK
<1>13. EndUser(e)'
  <2>1. "broken" \notin f => flags'[e] = AtxClone(tcp'[e], pend'[e])
    BY <1>1, <1>10 DEF up
  <2>2. user'[e] = "using" => "broken" \notin tcp'[e]
    BY <1>8, <1>10, <1>11
  <2>3. e \notin cut'
    BY <1>1, <1>3
  <2> QED
    BY <1>10, <2>1, <2>2, <2>3 DEF EndUser
<1>14. EndFin(e)'
  <2>1. /\ pend'[e] = pend[e] /\ (e \in ended' <=> e \in ended)
        /\ "broken" \notin f => e \in finned'
    BY <1>1
  <2>2. pend[e] # <<>> => {"writable", "fin_sent"} \cap f = {}
    BY <1>4, <1>6 DEF EndFin
  <2>3. "fin_sent" \in f => e \in finned'
    BY <1>6, <2>1
  <2>4. wantFin'[e] => e \in finned'
    BY <1>7, <1>12, <2>1
  <2>5. e \in shut' => pend[e] = <<>> /\ e \in finned'
    BY <1>1, <1>3, <1>4, <1>6, <2>1 DEF EndFin
  <2>6. e \in ended => "fin_rcvd" \in f
    BY <1>4, <1>6 DEF EndFin
  <2> QED
    BY <1>10, <2>1, <2>2, <2>3, <2>4, <2>5, <2>6 DEF EndFin
<1>15. \A o \in Sides : o # e => OtherRests(o)
  <2>1. UNCHANGED <<pend, ended, cut>> /\ \A o \in Sides : o # e => (o \in shut' <=> o \in shut) /\ (o \in finned' <=> o \in finned)
    BY <1>1
  <2> QED
    BY <1>10, <1>11, <1>12, <2>1 DEF OtherRests
<1>16. ControlInv'
  BY <1>9, <1>11, <1>13, <1>14, <1>15, ControlOfEnd DEF EndInv
<1>17. shut' \in SUBSET Sides /\ finned' \in SUBSET Sides
  BY <1>1 DEF TypeOK
<1>18. TypeOK'
  BY <1>1, <1>10, <1>11, <1>12, <1>17 DEF TypeOK
<1>19. \/ user'[e] = "using" /\ finned' = finned \cup {e}
       \/ user'[e] = "failed" /\ finned' = finned /\ Lost
  BY <1>1, <1>6, <1>8, <1>11
<1> QED
  BY <1>11, <1>16, <1>18, <1>19

LEMMA ControlOfDiscard ==
  ASSUME TypeOK, ControlInv, NEW e \in Sides, UserDiscards(e)
  PROVE  /\ ControlInv' /\ TypeOK'
         /\ user'[e] = "discarded"
         /\ \A o \in Sides : o # e => user'[o] = user[o]
<1>1. /\ user' = [user EXCEPT ![e] = "discarded"]
      /\ cut' = cut \/ cut' = cut \cup {e}
      /\ rx' = [rx EXCEPT ![e] = <<>>]
      /\ pend' = [pend EXCEPT ![e] = <<>>]
      /\ wantFin' = [wantFin EXCEPT ![e] = FALSE]
      /\ shut' = shut \cup {e}
      /\ conn' \in {"reset", conn}
      /\ UNCHANGED <<wire, tcp, flags, mask, sent, got, finned, ended>>
  BY DEF UserDiscards
<1>2. /\ user' \in [Sides -> UserState] /\ user'[e] = "discarded"
      /\ \A o \in Sides : o # e => user'[o] = user[o]
  BY <1>1 DEF TypeOK, UserState
<1>3. /\ rx' \in [Sides -> Seq(Octets)] /\ pend' \in [Sides -> Seq(Octets)] /\ pend'[e] = <<>>
      /\ \A o \in Sides : o # e => pend'[o] = pend[o]
  <2>1. <<>> \in Seq(Octets)
    BY OctetsAreTyped
  <2> QED
    BY <1>1, <2>1 DEF TypeOK
<1>4. /\ wantFin' \in [Sides -> BOOLEAN] /\ wantFin'[e] = FALSE
      /\ \A o \in Sides : o # e => wantFin'[o] = wantFin[o]
  BY <1>1 DEF TypeOK
<1>5. EndBits(e) /\ EndUser(e) /\ EndFin(e)
  BY ControlIsOfEnds DEF EndInv
<1>6. EndBits(e)'
  BY <1>1, <1>5 DEF EndBits
<1>7. EndUser(e)'
  BY <1>2 DEF EndUser
<1>8. EndFin(e)'
  BY <1>1, <1>2, <1>3, <1>4, <1>5 DEF EndFin
<1>9. \A o \in Sides : o # e => OtherRests(o)
  <2>1. \A o \in Sides : o # e => (o \in shut' <=> o \in shut) /\ (o \in cut' <=> o \in cut)
    BY <1>1
  <2> QED
    BY <1>1, <1>2, <1>3, <1>4, <2>1 DEF OtherRests
<1>10. ControlInv'
  BY <1>2, <1>6, <1>7, <1>8, <1>9, ControlOfEnd DEF EndInv
<1>11. conn' \in {"open", "reset"} /\ shut' \in SUBSET Sides /\ cut' \in SUBSET Sides
  BY <1>1 DEF TypeOK
<1>12. TypeOK'
  BY <1>1, <1>2, <1>3, <1>4, <1>11 DEF TypeOK
<1> QED
  BY <1>2, <1>10, <1>12

-----------------------------------------------------------------------------
(* One direction, from e to its peer.                                      *)

EndStream(e) ==
  /\ IsPrefix(got[Peer(e)], sent[e])
  /\ user[Peer(e)] = "using" =>
       /\ Cat(Coming(e), Missing(e)) = Frames(Ahead(e))
       /\ e \notin cut => Missing(e) = pend[e]
       /\ Missing(e) # <<>> => Len(Missing(e)) < Len(Frame(sent[e][Len(sent[e])]))

LEMMA StreamIsOfEnds == (DeliveryInv /\ OctetsInv) <=> \A e \in Sides : EndStream(e)
BY DEF DeliveryInv, OctetsInv, EndStream, Cat

LEMMA StreamIsOfEndsNext == (DeliveryInv' /\ OctetsInv') <=> \A e \in Sides : EndStream(e)'
BY DEF DeliveryInv, OctetsInv, EndStream, Cat

LEMMA StreamTypes ==
  ASSUME TypeOK, NEW e \in Sides
  PROVE  /\ sent[e] \in Seq(Seq(Octets)) /\ got[Peer(e)] \in Seq(Seq(Octets))
         /\ wire[e] \in Seq(Octets) /\ rx[Peer(e)] \in Seq(Octets) /\ pend[e] \in Seq(Octets)
         /\ Coming(e) \in Seq(Octets) /\ Coming(e) = Cat(rx[Peer(e)], wire[e])
         /\ Ahead(e) \in Seq(Seq(Octets)) /\ Frames(Ahead(e)) \in Seq(Octets)
         /\ Missing(e) \in Seq(Octets)
<1>1. /\ sent[e] \in Seq(Seq(Octet)) /\ got[Peer(e)] \in Seq(Seq(Octet))
      /\ wire[e] \in Seq(Octets) /\ rx[Peer(e)] \in Seq(Octets) /\ pend[e] \in Seq(Octets)
  BY PeerFacts, EndTypes
<1>2. sent[e] \in Seq(Seq(Octets)) /\ got[Peer(e)] \in Seq(Seq(Octets))
  BY <1>1, OctetsAreTyped
<1>3. Coming(e) \in Seq(Octets) /\ Coming(e) = Cat(rx[Peer(e)], wire[e])
  BY <1>1, CatType DEF Coming, Cat
<1>4. Ahead(e) \in Seq(Seq(Octets))
  <2>1. Len(got[Peer(e)]) \in Nat
    BY <1>2, LenProperties
  <2> QED
    BY <1>2, <2>1, RestType DEF Ahead
<1>5. Frames(Ahead(e)) \in Seq(Octets)
  BY <1>4, OctetsAreTyped, FramesType
<1>6. Missing(e) \in Seq(Octets)
  <2>1. Len(Coming(e)) \in Nat
    BY <1>3, LenProperties
  <2> QED
    BY <1>5, <2>1, RestType DEF Missing
<1> QED
  BY <1>1, <1>2, <1>3, <1>4, <1>5, <1>6

\* What a step has to show of a direction.
LEMMA StreamAfter ==
  ASSUME TypeOK', NEW e \in Sides, NEW c \in Seq(Octets), NEW m \in Seq(Octets),
         Cat(rx'[Peer(e)], wire'[e]) = c, Cat(c, m) = Frames(Rest(sent'[e], Len(got'[Peer(e)]))),
         e \notin cut' => m = pend'[e],
         m # <<>> => Len(m) < Len(Frame(sent'[e][Len(sent'[e])])),
         IsPrefix(got'[Peer(e)], sent'[e])
  PROVE  EndStream(e)'
<1>1. Coming(e)' = c /\ Frames(Ahead(e))' = Cat(c, m)
  BY DEF Coming, Ahead, Cat, Frames
<1>2. Missing(e)' = Rest(Cat(c, m), Len(c))
  BY <1>1 DEF Missing
<1>3. Missing(e)' = m
  BY <1>2, CatCut
<1> QED
  BY <1>1, <1>3 DEF EndStream

\* A step that does not touch it.
LEMMA StreamRests ==
  ASSUME NEW e \in Sides, EndStream(e),
         rx'[Peer(e)] = rx[Peer(e)], wire'[e] = wire[e], pend'[e] = pend[e],
         sent'[e] = sent[e], got'[Peer(e)] = got[Peer(e)],
         user'[Peer(e)] = "using" => user[Peer(e)] = "using",
         e \in cut => e \in cut'
  PROVE  EndStream(e)'
<1>1. Coming(e)' = Coming(e) /\ Ahead(e)' = Ahead(e)
  BY DEF Coming, Ahead
<1>2. Frames(Ahead(e))' = Frames(Ahead(e))
  BY <1>1 DEF Frames
<1>3. Missing(e)' = Missing(e)
  BY <1>1, <1>2 DEF Missing
<1> QED
  BY <1>1, <1>2, <1>3 DEF EndStream

LEMMA StreamInitially == Init => \A e \in Sides : EndStream(e)
<1> SUFFICES ASSUME Init, NEW e \in Sides
             PROVE  EndStream(e)
  OBVIOUS
<1>1. <<>> \in Seq(Octets) /\ Len(<<>>) = 0
  BY OctetsAreTyped, EmptySeq
<1>2. /\ sent[e] = <<>> /\ got[Peer(e)] = <<>> /\ rx[Peer(e)] = <<>> /\ wire[e] = <<>> /\ pend[e] = <<>>
  BY PeerFacts DEF Init
<1>3. Rest(<<>>, 0) = <<>> /\ Taken(<<>>, 0) = <<>> /\ Cat(<<>>, <<>>) = <<>>
  BY <1>1, CutAtEnds, CatEmpty
<1>4. Ahead(e) = <<>> /\ Coming(e) = <<>>
  BY <1>1, <1>2, <1>3 DEF Ahead, Coming, Cat
<1>5. Frames(Ahead(e)) = <<>>
  BY <1>4, FramesEmpty
<1>6. Missing(e) = <<>>
  BY <1>1, <1>3, <1>4, <1>5 DEF Missing
<1>7. IsPrefix(got[Peer(e)], sent[e])
  BY <1>1, <1>2, <1>3 DEF IsPrefix
<1> QED
  BY <1>2, <1>3, <1>4, <1>5, <1>6, <1>7 DEF EndStream

\* send() adds a datagram, and what the socket does not take of it is kept.
LEMMA StreamOfSend ==
  ASSUME TypeOK, TypeOK', ControlInv, NEW e \in Sides, EndStream(e), user[e] = "using",
         user'[Peer(e)] = user[Peer(e)],
         "writable" \in flags[e], NEW data \in Seq(Octets), NEW w \in Sends(e, data), SendStep(e, data, w)
  PROVE  EndStream(e)'
<1> DEFINE o == Peer(e)
           g == got[o]
           s == sent[e]
           q == Frame(data)
<1>1. /\ o \in Sides /\ pend[e] = <<>> /\ e \notin cut
      /\ wire' = [wire EXCEPT ![e] = Cat(wire[e], w.put)]
      /\ pend' = [pend EXCEPT ![e] = w.pend]
      /\ sent' = IF w.ok THEN [sent EXCEPT ![e] = Append(@, data)] ELSE sent
      /\ UNCHANGED <<rx, got, cut>>
  BY Using, PeerFacts DEF SendStep, Cat
<1>2. /\ wire[e] \in Seq(Octets) /\ rx[o] \in Seq(Octets)
      /\ g \in Seq(Seq(Octets)) /\ s \in Seq(Seq(Octets))
      /\ Coming(e) \in Seq(Octets) /\ Coming(e) = Cat(rx[o], wire[e])
      /\ Ahead(e) \in Seq(Seq(Octets)) /\ Frames(Ahead(e)) \in Seq(Octets)
      /\ q \in Seq(Octets) /\ Len(q) \in Nat
  BY StreamTypes, OctetsAreTyped, FrameAt, LenProperties
<1>3. /\ wire'[e] = Cat(wire[e], w.put) /\ pend'[e] = w.pend
      /\ sent'[e] = IF w.ok THEN Append(s, data) ELSE s
      /\ rx'[o] = rx[o] /\ got'[o] = g /\ cut' = cut
  BY <1>1 DEF TypeOK
<1>4. CASE Refused(e, w)
  <2>1. ~w.ok /\ w.put = <<>> /\ w.pend = <<>>
    BY <1>4 DEF Refused
  <2>2. Cat(wire[e], <<>>) = wire[e]
    BY <1>2, CatEmpty
  <2>3. wire'[e] = wire[e] /\ pend'[e] = pend[e] /\ sent'[e] = s
    BY <1>1, <1>3, <2>1, <2>2
  <2> QED
    BY <1>3, <2>3, StreamRests
<1>5. CASE Accepted(e, data, w)
  <2>1. PICK n \in 1..Len(q) : w.ok /\ w.put = Taken(q, n) /\ w.pend = Rest(q, n)
    BY <1>5 DEF Accepted, Put
  <2> DEFINE t == Taken(q, n)
             m == Rest(q, n)
             p == Append(s, data)
  <2> HIDE DEF q
  <2>2. /\ t \in Seq(Octets) /\ m \in Seq(Octets) /\ Len(m) = Len(q) - n /\ Cat(t, m) = q
        /\ Len(m) < Len(q)
    <3>1. n \in 0..Len(q) /\ Len(q) - n < Len(q)
      BY <1>2
    <3> QED
      BY ZenonT(60), <1>2, <3>1, CutFacts DEF Cat
  <2>3. IsPrefix(g, s)
    BY DEF EndStream
  <2>4. IsPrefix(g, p) /\ p[Len(p)] = data
    <3>1. p[Len(p)] = data
      BY <1>2, AppendProperties, LenProperties
    <3> QED
      BY <1>2, <2>3, <3>1, PrefixOfAppend
  <2>5. wire'[e] = Cat(wire[e], t) /\ pend'[e] = m /\ sent'[e] = p
    BY <1>3, <2>1
  <2>6. CASE user[o] # "using"
    BY <1>3, <2>4, <2>5, <2>6 DEF EndStream
  <2>7. CASE user[o] = "using"
    <3> DEFINE a == Ahead(e)
               c == Coming(e)
               d == Cat(c, t)
    <3>1. Cat(c, Missing(e)) = Frames(a) /\ Missing(e) = <<>>
      BY <1>1, <2>7 DEF EndStream
    <3>2. c = Frames(a) /\ c \in Seq(Octets) /\ a \in Seq(Seq(Octets))
      <4>1. Cat(c, <<>>) = c
        BY <1>2, CatEmpty
      <4> QED
        BY <1>2, <3>1, <4>1
    <3>3. Rest(p, Len(g)) = Append(a, data)
      <4> DEFINE k == Len(g)
      <4>1. k \in 0..Len(s) /\ a = Rest(s, k)
        BY <1>2, <2>3, AfterPrefix DEF Ahead
      <4> HIDE DEF k, a
      <4>2. Rest(Append(s, data), k) = Append(Rest(s, k), data)
        BY <1>2, <4>1, RestOfAppend
      <4> QED
        BY <4>1, <4>2 DEF k
    <3> HIDE DEF a, c, t, m, p
    <3>4. Frames(Append(a, data)) = Cat(Frames(a), q)
      BY <3>2, FramesAppend DEF q
    <3>5. d \in Seq(Octets) /\ Cat(d, m) = Cat(c, Cat(t, m))
      BY <2>2, <3>2, CatType, CatAssoc
    <3>6. Cat(d, m) = Frames(Append(a, data))
      BY <2>2, <3>2, <3>4, <3>5
    <3>7. Cat(rx'[o], wire'[e]) = d
      <4>1. Cat(Cat(rx[o], wire[e]), t) = Cat(rx[o], Cat(wire[e], t))
        BY <1>2, <2>2, CatAssoc
      <4> QED
        BY <1>2, <1>3, <2>5, <4>1 DEF c
    <3> HIDE DEF d, g, o, s
    <3>8. Cat(d, m) = Frames(Rest(sent'[e], Len(got'[o])))
      BY <1>3, <2>5, <3>3, <3>6
    <3>9. Len(m) < Len(Frame(sent'[e][Len(sent'[e])]))
      BY <2>2, <2>4, <2>5 DEF q
    <3>10. IsPrefix(got'[o], sent'[e]) /\ m = pend'[e]
      BY <1>3, <2>4, <2>5
    <3> QED
      BY <2>2, <3>5, <3>7, <3>8, <3>9, <3>10, StreamAfter DEF o
  <2> QED
    BY <2>6, <2>7
<1> QED
  BY <1>4, <1>5, SendCases

\* While octets are missing there is a datagram ahead, and the last one is as
\* long as it is.
LEMMA SomeAhead ==
  ASSUME TypeOK, NEW e \in Sides, IsPrefix(got[Peer(e)], sent[e]),
         NEW c \in Seq(Octets), NEW x \in Seq(Octets), Cat(c, x) = Frames(Ahead(e)),
         c # <<>> \/ x # <<>>
  PROVE  LET q == Frame(sent[e][Len(sent[e])])
         IN /\ Ahead(e) # <<>> /\ Len(q) \in Nat
            /\ Len(c) \in Nat /\ Len(x) \in Nat /\ Len(c) + Len(x) >= Len(q)
<1> DEFINE a == Ahead(e)
           l == Len(c)
           m == Len(x)
<1>1. /\ a \in Seq(Seq(Octets)) /\ sent[e] \in Seq(Seq(Octets)) /\ got[Peer(e)] \in Seq(Seq(Octets))
      /\ Frames(a) = Cat(c, x)
  BY StreamTypes
<1>2. l \in Nat /\ m \in Nat /\ Len(Cat(c, x)) = l + m
  BY CatAt
<1>3. ~(l = 0 /\ m = 0)
  BY EmptySeq
<1> HIDE DEF l, m
<1>4. a # <<>>
  <2>1. l + m # 0
    BY <1>2, <1>3
  <2>2. a = <<>> => Len(Frames(a)) = 0
    BY FramesEmpty, EmptySeq
  <2> HIDE DEF a
  <2> QED
    BY <1>1, <1>2, <2>1, <2>2
<1>5. a[Len(a)] = sent[e][Len(sent[e])]
  <2>1. a = Rest(sent[e], Len(got[Peer(e)]))
    BY DEF Ahead
  <2> HIDE DEF a
  <2> QED
    BY <1>1, <1>4, <2>1, AfterPrefix
<1>6. a[Len(a)] \in Seq(Octets) /\ Len(Frames(a)) >= Len(Frame(a[Len(a)]))
  <2> HIDE DEF a
  <2> QED
    BY <1>1, <1>4, OctetsAreTyped, FramesEnds
<1> DEFINE d == a[Len(a)]
<1>7. Len(Frame(d)) \in Nat
  <2>1. d \in Seq(Octets)
    BY <1>6
  <2> HIDE DEF d
  <2>2. Frame(d) \in Seq(Octets)
    BY <2>1, OctetsAreTyped, FrameAt
  <2> QED
    BY <2>2, LenProperties
<1>8. Len(Frames(a)) = l + m
  BY <1>1, <1>2
<1> HIDE DEF d, a
<1> QED
  BY <1>2, <1>4, <1>5, <1>6, <1>7, <1>8 DEF d, a, l, m

\* What the atx_pipe has kept goes out, or some of it.
LEMMA StreamOfFlush ==
  ASSUME TypeOK, TypeOK', NEW e \in Sides, EndStream(e), e \notin cut,
         user'[Peer(e)] = user[Peer(e)],
         NEW n \in 0..Len(pend[e]), wire' = [wire EXCEPT ![e] = Cat(wire[e], Taken(pend[e], n))],
         pend' = [pend EXCEPT ![e] = Rest(pend[e], n)],
         UNCHANGED <<rx, sent, got, cut>>
  PROVE  EndStream(e)'
<1> DEFINE o == Peer(e)
           c == Coming(e)
           p == pend[e]
           t == Taken(p, n)
           m == Rest(p, n)
           d == Cat(c, t)
<1>1. /\ o \in Sides /\ rx[o] \in Seq(Octets) /\ wire[e] \in Seq(Octets) /\ p \in Seq(Octets)
      /\ c \in Seq(Octets) /\ c = Cat(rx[o], wire[e]) /\ Len(p) \in Nat
  BY PeerFacts, StreamTypes, LenProperties
<1>2. /\ wire'[e] = Cat(wire[e], t) /\ pend'[e] = m
      /\ rx'[o] = rx[o] /\ sent'[e] = sent[e] /\ got'[o] = got[o] /\ cut' = cut
  BY DEF TypeOK
<1>3. t \in Seq(Octets) /\ m \in Seq(Octets) /\ Cat(t, m) = p /\ Len(m) = Len(p) - n
  <2> HIDE DEF p
  <2> QED
    BY ZenonT(60), <1>1, CutFacts DEF Cat, p
<1>4. IsPrefix(got[o], sent[e])
  BY DEF EndStream
<1>5. CASE user[o] # "using"
  BY <1>2, <1>4, <1>5 DEF EndStream
<1>6. CASE user[o] = "using"
  <2>1. /\ Cat(c, p) = Frames(Rest(sent[e], Len(got[o])))
        /\ p # <<>> => Len(p) < Len(Frame(sent[e][Len(sent[e])]))
    BY <1>6 DEF EndStream, Ahead
  <2> HIDE DEF o, c, t, m
  <2>2. Cat(d, m) = Cat(c, p) /\ d \in Seq(Octets)
    <3>1. c \in Seq(Octets) /\ t \in Seq(Octets) /\ m \in Seq(Octets)
      BY <1>1, <1>3
    <3>2. Cat(Cat(c, t), m) = Cat(c, Cat(t, m)) /\ Cat(c, t) \in Seq(Octets)
      BY <3>1, CatType, CatAssoc
    <3> QED
      BY <1>3, <3>2
  <2>3. Cat(rx'[o], wire'[e]) = d
    <3>1. Cat(Cat(rx[o], wire[e]), t) = Cat(rx[o], Cat(wire[e], t))
      BY <1>1, <1>3, CatAssoc
    <3> QED
      BY <1>1, <1>2, <3>1
  <2>4. m # <<>> => Len(m) < Len(Frame(sent[e][Len(sent[e])]))
    <3> SUFFICES ASSUME m # <<>>
                 PROVE  Len(m) < Len(Frame(sent[e][Len(sent[e])]))
      OBVIOUS
    <3> DEFINE l == Len(Frame(sent[e][Len(sent[e])]))
               i == Len(p)
               j == Len(m)
    <3>1. i \in Nat /\ j = i - n /\ n \in 0..i
      BY <1>1, <1>3
    <3>2. j # 0
      BY <1>3, EmptySeq
    <3>3. p # <<>>
      <4>1. i # 0
        <5> HIDE DEF i, j
        <5> QED
          BY <3>1, <3>2
      <4> QED
        BY <4>1, EmptySeq
    <3>4. i < l
      BY <2>1, <3>3
    <3>5. l \in Nat
      <4>1. Cat(c, p) = Frames(Ahead(e)) /\ IsPrefix(got[Peer(e)], sent[e])
        BY <1>4, <2>1 DEF o, Ahead
      <4> HIDE DEF p
      <4> QED
        BY <1>1, <3>3, <4>1, SomeAhead
    <3> HIDE DEF i, j, l
    <3>6. j < l
      BY <3>1, <3>4, <3>5
    <3> QED
      BY <3>6 DEF j, l
  <2>5. IsPrefix(got'[o], sent'[e]) /\ m = pend'[e]
    BY <1>2, <1>4
  <2>6. Cat(d, m) = Frames(Rest(sent'[e], Len(got'[o])))
    BY <1>2, <2>1, <2>2
  <2>7. m # <<>> => Len(m) < Len(Frame(sent'[e][Len(sent'[e])]))
    BY <1>2, <2>4
  <2> HIDE DEF d, p
  <2> QED
    BY <1>3, <2>2, <2>3, <2>5, <2>6, <2>7, StreamAfter DEF o
<1> QED
  BY <1>5, <1>6

\* discard() of the sender may throw away what is missing, for ever.
LEMMA StreamOfDiscard ==
  ASSUME TypeOK, TypeOK', NEW e \in Sides, EndStream(e), UserDiscards(e)
  PROVE  EndStream(e)'
<1> DEFINE o == Peer(e)
<1>1. /\ user' = [user EXCEPT ![e] = "discarded"]
      /\ cut' = IF pend[e] # <<>> THEN cut \cup {e} ELSE cut
      /\ rx' = [rx EXCEPT ![e] = <<>>] /\ pend' = [pend EXCEPT ![e] = <<>>]
      /\ UNCHANGED <<wire, sent, got>>
  BY DEF UserDiscards, AtxDiscardCuts
<1>2. /\ o \in Sides /\ o # e /\ rx'[o] = rx[o] /\ user'[o] = user[o] /\ pend'[e] = <<>>
      /\ wire' = wire /\ sent' = sent /\ got' = got
  BY <1>1, PeerFacts DEF TypeOK
<1>3. CASE user[o] # "using"
  BY <1>2, <1>3 DEF EndStream
<1>4. CASE user[o] = "using"
  <2> DEFINE c == Coming(e)
             m == Missing(e)
  <2>1. /\ c \in Seq(Octets) /\ m \in Seq(Octets) /\ c = Cat(rx[o], wire[e])
        /\ Cat(c, m) = Frames(Rest(sent[e], Len(got[o])))
        /\ e \notin cut => m = pend[e]
        /\ m # <<>> => Len(m) < Len(Frame(sent[e][Len(sent[e])]))
        /\ IsPrefix(got[o], sent[e])
    BY <1>4, StreamTypes DEF EndStream, Ahead
  <2>2. e \notin cut' => m = pend'[e]
    BY <1>1, <1>2, <2>1
  <2> HIDE DEF c, m
  <2> QED
    BY <1>2, <2>1, <2>2, StreamAfter
<1> QED
  BY <1>3, <1>4

\* What the dgm_pipe makes of the octets of the stream is what its user awaits.
LEMMA LookedIsNext ==
  ASSUME TypeOK, NEW o \in Sides, user[o] = "using", EndStream(Peer(o)),
         NEW n \in 0..Len(wire[Peer(o)]), NEW q, q = Cat(rx[o], Taken(wire[Peer(o)], n)),
         ProcessRx(q).is \in {"bad", "dgm"}
  PROVE  LET s == sent[Peer(o)]
             k == Len(got[o]) + 1
         IN /\ k \in 1..Len(s) /\ s[k] \in Seq(Octet)
            /\ ProcessRx(q).is = "bad" => Len(s[k]) > MaxDgm
            /\ ProcessRx(q).is = "dgm" =>
                 /\ ProcessRx(q).data = s[k] /\ Len(s[k]) <= MaxDgm
                 /\ ProcessRx(q).rest \in Seq(Octets)
                 /\ Cat(Cat(ProcessRx(q).rest, Rest(wire[Peer(o)], n)), Missing(Peer(o)))
                      = Frames(Rest(s, k))
<1> DEFINE e == Peer(o)
           w == wire[e]
           t == Taken(w, n)
           v == Rest(w, n)
           m == Missing(e)
           x == Cat(v, m)
           a == Ahead(e)
           s == sent[e]
           g == got[o]
           k == Len(g) + 1
<1>1. e \in Sides /\ Peer(e) = o
  BY PeerFacts
<1>2. /\ s \in Seq(Seq(Octets)) /\ g \in Seq(Seq(Octets)) /\ w \in Seq(Octets) /\ rx[o] \in Seq(Octets)
      /\ Coming(e) \in Seq(Octets) /\ Coming(e) = Cat(rx[o], w)
      /\ a \in Seq(Seq(Octets)) /\ m \in Seq(Octets)
  BY <1>1, StreamTypes
<1>3. t \in Seq(Octets) /\ v \in Seq(Octets) /\ Cat(t, v) = w
  <2>1. n \in 0..Len(w)
    OBVIOUS
  <2> HIDE DEF w
  <2> QED
    BY <1>2, <2>1, CutFacts DEF Cat
<1>4. Cat(Coming(e), m) = Frames(a) /\ IsPrefix(g, s)
  BY <1>1 DEF EndStream
<1>5. a = Rest(s, Len(g))
  BY <1>1 DEF Ahead
<1>6. q = Cat(rx[o], t)
  OBVIOUS
<1> HIDE DEF e, w, t, v, m, a, s, g
<1>7. q \in Seq(Octets) /\ x \in Seq(Octets)
  BY <1>2, <1>3, <1>6, CatType
<1>8. Cat(q, x) = Frames(a)
  <2>1. Cat(Cat(q, v), m) = Cat(q, x)
    BY <1>2, <1>3, <1>7, CatAssoc
  <2>2. Cat(Cat(rx[o], t), v) = Cat(rx[o], Cat(t, v))
    BY <1>2, <1>3, CatAssoc
  <2>3. Cat(q, v) = Coming(e)
    BY <1>2, <1>3, <1>6, <2>2
  <2> QED
    BY <1>4, <2>1, <2>3
<1>9. q # <<>>
  BY DEF ProcessRx, Short
<1>10. a # <<>>
  <2> HIDE DEF x
  <2>1. Len(Cat(q, x)) = Len(q) + Len(x) /\ Len(q) \in Nat /\ Len(x) \in Nat
    BY <1>7, CatAt
  <2>2. Len(q) # 0
    BY <1>7, <1>9, EmptySeq
  <2>3. Len(Cat(q, x)) # 0
    BY <2>1, <2>2
  <2>4. a = <<>> => Len(Frames(a)) = 0
    BY FramesEmpty, EmptySeq
  <2> QED
    BY <1>8, <2>3, <2>4
<1>11. k \in 1..Len(s) /\ a[1] = s[k] /\ Rest(a, 1) = Rest(s, k)
  BY <1>2, <1>4, <1>5, <1>10, AfterPrefix
<1> DEFINE d == a[1]
           y == Frames(Rest(a, 1))
<1>12. d \in Seq(Octets) /\ y \in Seq(Octets) /\ Frames(a) = Cat(Frame(d), y)
  <2>1. d \in Seq(Octets) /\ Rest(a, 1) \in Seq(Seq(Octets)) /\ Frames(a) = Cat(Frame(d), y)
    BY <1>2, <1>10, OctetsAreTyped, FramesEnds
  <2> QED
    BY <2>1, OctetsAreTyped, FramesType
<1> HIDE DEF d, y, x
<1>13. /\ ProcessRx(q).is = "bad" => Len(d) > MaxDgm
       /\ ProcessRx(q).is = "dgm" =>
            ProcessRx(q).data = d /\ Len(d) <= MaxDgm /\ Cat(ProcessRx(q).rest, x) = y
  <2>1. Cat(q, x) = Cat(Frame(d), y)
    BY <1>8, <1>12
  <2> QED
    BY <1>7, <1>12, <2>1, OctetsAreTyped, ParsesFirst
<1> DEFINE r == ProcessRx(q).rest
<1>14. r \in Seq(Octets)
  BY <1>7, OctetsAreTyped, ProcessRxTypes
<1> HIDE DEF r
<1>15. Cat(Cat(r, v), m) = Cat(r, x)
  BY <1>2, <1>3, <1>14, CatAssoc DEF x
<1>16. s[k] \in Seq(Octet)
  <2>1. s \in Seq(Seq(Octet))
    BY <1>1, EndTypes DEF s
  <2> QED
    BY <1>11, <2>1, ElementOfSeq
<1>17. d = s[k] /\ y = Frames(Rest(s, k))
  BY <1>11 DEF d, y
<1> HIDE DEF k
<1>18. ProcessRx(q).is = "bad" => Len(s[k]) > MaxDgm
  BY <1>13, <1>17
<1>19. ProcessRx(q).is = "dgm" =>
         ProcessRx(q).data = s[k] /\ Len(s[k]) <= MaxDgm /\ Cat(Cat(r, v), m) = Frames(Rest(s, k))
  BY <1>13, <1>15, <1>17 DEF r
<1> QED
  BY <1>11, <1>14, <1>16, <1>18, <1>19 DEF e, w, v, m, s, g, k, r

\* Once the peer has sent FIN and its octets are here, nothing is missing of
\* the datagrams ahead if the last of them began to arrive, or none did.
LEMMA AtTheEnd ==
  ASSUME TypeOK, ControlInv, NEW e \in Sides, user[Peer(e)] = "using", EndStream(e),
         e \in shut, wire[e] = <<>>
  PROVE  /\ rx[Peer(e)] = <<>> => got[Peer(e)] = sent[e]
         /\ rx[Peer(e)] # <<>> /\ ProcessRx(rx[Peer(e)]).is = "short" => e \in cut
<1> DEFINE o == Peer(e)
           q == rx[o]
           m == Missing(e)
           a == Ahead(e)
<1>1. /\ q \in Seq(Octets) /\ m \in Seq(Octets) /\ a \in Seq(Seq(Octets))
      /\ sent[e] \in Seq(Seq(Octets)) /\ got[o] \in Seq(Seq(Octets))
  BY StreamTypes
<1>2. Coming(e) = q
  <2>1. Coming(e) = Cat(q, <<>>)
    BY StreamTypes
  <2>2. Cat(q, <<>>) = q
    BY <1>1, CatEmpty
  <2> QED
    BY <2>1, <2>2
<1>3. pend[e] = <<>> /\ IsPrefix(got[o], sent[e])
  BY DEF ControlInv, FinInv, EndStream
<1>4. /\ Cat(q, m) = Frames(a)
      /\ e \notin cut => m = <<>>
      /\ m # <<>> => Len(m) < Len(Frame(sent[e][Len(sent[e])]))
  BY <1>2, <1>3 DEF EndStream
<1>5. ASSUME q = <<>>
      PROVE  got[o] = sent[e]
  <2>1. m = <<>>
    <3> SUFFICES ASSUME m # <<>>
                 PROVE  FALSE
      OBVIOUS
    <3> DEFINE i == Len(m)
               j == Len(Frame(sent[e][Len(sent[e])]))
    <3>1. j \in Nat /\ i \in Nat /\ Len(q) \in Nat /\ Len(q) + i >= j
      <4>1. IsPrefix(got[Peer(e)], sent[e]) /\ Cat(q, m) = Frames(Ahead(e))
        BY <1>3, <1>4
      <4> HIDE DEF q, m
      <4> QED
        BY <1>1, <4>1, SomeAhead
    <3>2. i < j /\ Len(q) = 0
      BY <1>4, <1>5, EmptySeq
    <3> HIDE DEF i, j
    <3> QED
      BY <3>1, <3>2
  <2>2. Frames(a) = <<>>
    <3>1. Cat(<<>>, <<>>) = <<>>
      BY OctetsAreTyped, CatEmpty
    <3> QED
      BY <1>4, <1>5, <2>1, <3>1
  <2>3. a = <<>>
    <3> SUFFICES ASSUME a # <<>>
                 PROVE  FALSE
      OBVIOUS
    <3> DEFINE d == a[1]
               y == Frames(Rest(a, 1))
    <3> HIDE DEF a
    <3>1. d \in Seq(Octets) /\ Rest(a, 1) \in Seq(Seq(Octets)) /\ Frames(a) = Cat(Frame(d), y)
      BY <1>1, OctetsAreTyped, FramesEnds
    <3>2. y \in Seq(Octets)
      BY <3>1, OctetsAreTyped, FramesType
    <3> HIDE DEF d, y
    <3>3. Frame(d) \in Seq(Octets) /\ Len(Frame(d)) = HdrLen(Len(d)) + Len(d) /\ Len(d) \in Nat
          /\ HdrLen(Len(d)) \in {1, 2}
      BY <3>1, OctetsAreTyped, FrameAt
    <3>4. Len(Cat(Frame(d), y)) = Len(Frame(d)) + Len(y) /\ Len(y) \in Nat
      BY ZenonT(60), <3>2, <3>3, CatAt
    <3>5. Len(Frames(a)) = 0
      BY <2>2, EmptySeq
    <3> QED
      BY <3>1, <3>3, <3>4, <3>5
  <2>4. Rest(sent[e], Len(got[o])) = <<>>
    BY <2>3 DEF Ahead
  <2> QED
    BY <1>1, <1>3, <2>4, AfterPrefix
<1>6. ASSUME q # <<>>, ProcessRx(q).is = "short", e \notin cut
      PROVE  FALSE
  <2>1. Cat(q, m) = Frames(a) /\ m = <<>> /\ Cat(q, <<>>) = q
    BY <1>1, <1>4, <1>6, CatEmpty
  <2>2. a # <<>>
    <3>1. a = <<>> => Frames(a) = <<>>
      BY FramesEmpty
    <3> QED
      BY <1>6, <2>1, <3>1
  <2> DEFINE d == a[1]
             y == Frames(Rest(a, 1))
  <2> HIDE DEF a, m, q
  <2>3. d \in Seq(Octets) /\ Rest(a, 1) \in Seq(Seq(Octets)) /\ Frames(a) = Cat(Frame(d), y)
    BY <1>1, <2>2, OctetsAreTyped, FramesEnds
  <2>4. y \in Seq(Octets)
    BY <2>3, OctetsAreTyped, FramesType
  <2> HIDE DEF d, y
  <2>5. Len(q) < Len(Frame(d))
    <3>1. Cat(q, m) = Cat(Frame(d), y)
      BY <2>1, <2>3
    <3> QED
      BY <1>1, <1>6, <2>3, <2>4, <3>1, OctetsAreTyped, ParsesFirst
  <2>6. Frame(d) \in Seq(Octets)
    BY <2>3, OctetsAreTyped, FrameAt
  <2>7. /\ Len(Cat(Frame(d), y)) = Len(Frame(d)) + Len(y)
        /\ Len(y) \in Nat /\ Len(Frame(d)) \in Nat
    BY <2>4, <2>6, CatAt
  <2>8. q = Cat(Frame(d), y)
    BY <2>1, <2>3
  <2> DEFINE i == Len(Frame(d))
             j == Len(y)
  <2>9. i + j < i /\ i \in Nat /\ j \in Nat
    BY <2>5, <2>7, <2>8
  <2> HIDE DEF i, j
  <2> QED
    BY <2>9
<1> QED
  BY <1>5, <1>6

\* What recv() tells its user, and what it leaves of the stream.
LEMMA RecvTells ==
  ASSUME TypeOK, ControlInv, NEW o \in Sides, user[o] = "using", "readable" \in flags[o],
         EndStream(Peer(o)), NEW r \in Recvs(o)
  PROVE  LET e == Peer(o)
             s == sent[e]
             k == Len(got[o]) + 1
             c == Cat(r.rx, Rest(wire[e], r.read))
         IN /\ r.is = "data" =>
                 /\ k \in 1..Len(s) /\ s[k] \in Seq(Octet) /\ r.data = s[k] /\ Len(s[k]) <= MaxDgm
                 /\ Cat(c, Missing(e)) = Frames(Rest(s, k)) /\ "broken" \notin r.up
            /\ r.is # "data" => "broken" \in r.up \/ c = Coming(e)
            /\ "broken" \in r.up => Lost \/ e \in cut \/ (k \in 1..Len(s) /\ Len(s[k]) > MaxDgm)
            /\ r.is = "fin" => got[o] = s /\ e \in shut /\ "broken" \notin r.up
<1> DEFINE e == Peer(o)
           w == wire[e]
           s == sent[e]
           k == Len(got[o]) + 1
<1>1. /\ e \in Sides /\ Peer(e) = o /\ w \in Seq(Octets) /\ rx[o] \in Seq(Octets)
      /\ Coming(e) = Cat(rx[o], w)
  BY PeerFacts, StreamTypes
<1>2. "broken" \notin tcp[o] /\ Rest(w, 0) = w
  BY <1>1, Using, CutAtEnds
<1>3. ASSUME NEW n \in 0..Len(w), Looked(o, n, r)
      PROVE  /\ r.is = "data" =>
                  /\ k \in 1..Len(s) /\ s[k] \in Seq(Octet) /\ r.data = s[k] /\ Len(s[k]) <= MaxDgm
                  /\ Cat(Cat(r.rx, Rest(w, r.read)), Missing(e)) = Frames(Rest(s, k)) /\ "broken" \notin r.up
             /\ r.is # "data" => "broken" \in r.up \/ Cat(r.rx, Rest(w, r.read)) = Coming(e)
             /\ "broken" \in r.up => k \in 1..Len(s) /\ Len(s[k]) > MaxDgm
             /\ r.is # "fin"
  <2> DEFINE t == Taken(w, n)
             v == Rest(w, n)
             q == Cat(rx[o], t)
  <2>1. /\ \/ ProcessRx(q).is = "bad" /\ r = Received("nothing", <<>>, n, <<>>, tcp[o], TagBroken(flags[o]))
           \/ ProcessRx(q).is = "short"
              /\ r = Received("nothing", ProcessRx(q).data, n, ProcessRx(q).rest, tcp[o], AtxClone(tcp[o], pend[o]))
           \/ ProcessRx(q).is = "dgm"
              /\ r = Received("data", ProcessRx(q).data, n, ProcessRx(q).rest, tcp[o], AtxClone(tcp[o], pend[o]))
    BY <1>3 DEF Looked
  <2>2. ProcessRx(q).is \in {"bad", "dgm"} =>
          /\ k \in 1..Len(s) /\ s[k] \in Seq(Octet)
          /\ ProcessRx(q).is = "bad" => Len(s[k]) > MaxDgm
          /\ ProcessRx(q).is = "dgm" =>
               /\ ProcessRx(q).data = s[k] /\ Len(s[k]) <= MaxDgm
               /\ Cat(Cat(ProcessRx(q).rest, v), Missing(e)) = Frames(Rest(s, k))
    BY LookedIsNext
  <2>3. ProcessRx(q).is = "short" => ProcessRx(q).rest = q
    <3> HIDE DEF q
    <3> QED
      BY DEF ProcessRx, Short, Bad
  <2>4. Cat(q, v) = Coming(e)
    <3>1. t \in Seq(Octets) /\ v \in Seq(Octets) /\ Cat(t, v) = w
      <4> HIDE DEF w
      <4> QED
        BY <1>1, CutFacts DEF Cat
    <3> HIDE DEF t, v
    <3>2. Cat(Cat(rx[o], t), v) = Cat(rx[o], Cat(t, v))
      BY <1>1, <3>1, CatAssoc
    <3> QED
      BY <1>1, <3>1, <3>2
  <2>5. "broken" \notin AtxClone(tcp[o], pend[o]) /\ "broken" \in TagBroken(flags[o])
    BY <1>2 DEF AtxClone, TagBroken
  <2> HIDE DEF q, s, k, e, w
  <2>6. CASE ProcessRx(q).is = "bad" /\ r = Received("nothing", <<>>, n, <<>>, tcp[o], TagBroken(flags[o]))
    BY <2>2, <2>5, <2>6 DEF Received
  <2>7. CASE /\ ProcessRx(q).is = "short"
             /\ r = Received("nothing", ProcessRx(q).data, n, ProcessRx(q).rest, tcp[o], AtxClone(tcp[o], pend[o]))
    BY <2>3, <2>4, <2>5, <2>7 DEF Received
  <2>8. CASE /\ ProcessRx(q).is = "dgm"
             /\ r = Received("data", ProcessRx(q).data, n, ProcessRx(q).rest, tcp[o], AtxClone(tcp[o], pend[o]))
    BY <2>2, <2>5, <2>8 DEF Received
  <2> QED
    BY <2>1, <2>6, <2>7, <2>8
<1>4. CASE \E n \in 0..Len(w) : Looked(o, n, r)
  BY <1>3, <1>4
<1>5. CASE AtFin(o, r)
  <2> DEFINE f == (tcp[o] \ {"readable"}) \cup {"fin_rcvd"}
  <2>1. /\ w = <<>> /\ e \in shut
        /\ \/ rx[o] = <<>> /\ r = Received("fin", <<>>, 0, <<>>, f, AtxClone(f, pend[o]))
           \/ /\ rx[o] # <<>> /\ ProcessRx(rx[o]).is = "short"
              /\ r = Received("nothing", <<>>, 0, <<>>, f, TagBroken(flags[o]))
    BY <1>5 DEF AtFin
  <2>2. /\ rx[o] = <<>> => got[o] = s
        /\ rx[o] # <<>> /\ ProcessRx(rx[o]).is = "short" => e \in cut
    BY <1>1, <2>1, AtTheEnd
  <2>3. "broken" \notin AtxClone(f, pend[o]) /\ "broken" \in TagBroken(flags[o])
    BY <1>2 DEF AtxClone, TagBroken
  <2> HIDE DEF f, s, k, e, w
  <2>6. /\ r.is # "data" /\ ("broken" \in r.up \/ Cat(r.rx, Rest(w, r.read)) = Coming(e))
        /\ "broken" \in r.up => e \in cut
        /\ r.is = "fin" => got[o] = s /\ e \in shut /\ "broken" \notin r.up
    <3>1. CASE rx[o] = <<>> /\ r = Received("fin", <<>>, 0, <<>>, f, AtxClone(f, pend[o]))
      <4>1. r.is = "fin" /\ r.rx = rx[o] /\ r.read = 0 /\ "broken" \notin r.up
        BY <2>3, <3>1 DEF Received
      <4> QED
        BY <1>1, <1>2, <2>1, <2>2, <3>1, <4>1
    <3>2. CASE /\ rx[o] # <<>> /\ ProcessRx(rx[o]).is = "short"
               /\ r = Received("nothing", <<>>, 0, <<>>, f, TagBroken(flags[o]))
      <4>1. r.is = "nothing" /\ "broken" \in r.up
        BY <2>3, <3>2 DEF Received
      <4> QED
        BY <2>2, <3>2, <4>1
    <3> QED
      BY <2>1, <3>1, <3>2
  <2> QED
    BY <2>6 DEF e, s, w
<1>6. CASE NotNow(o, r) \/ NoMore(o, r)
  <2> DEFINE f == tcp[o] \ {"readable"}
  <2>1. /\ r.is = "nothing" /\ r.rx = rx[o] /\ r.read = 0
        /\ r.up = AtxClone(f, pend[o]) \/ Lost
    BY <1>6 DEF NotNow, NoMore, Received
  <2>2. "broken" \notin AtxClone(f, pend[o])
    BY <1>2 DEF AtxClone
  <2> QED
    BY <1>1, <1>2, <2>1, <2>2
<1> QED
  BY <1>4, <1>5, <1>6, RecvCases

LEMMA GotTypes ==
  ASSUME TypeOK, ControlInv, NEW o \in Sides, user[o] = "using", "readable" \in flags[o],
         EndStream(Peer(o)), NEW r \in Recvs(o), RecvStep(o, r)
  PROVE  got' \in [Sides -> Seq(Seq(Octet))]
<1>1. got' = IF r.is = "data" THEN [got EXCEPT ![o] = Append(got[o], r.data)] ELSE got
  BY DEF RecvStep
<1>2. r.is = "data" => r.data \in Seq(Octet)
  BY RecvTells
<1>3. r.is = "data" => Append(got[o], r.data) \in Seq(Seq(Octet))
  <2>1. got[o] \in Seq(Seq(Octet))
    BY EndTypes
  <2> QED
    BY <1>2, <2>1, AppendProperties
<1> QED
  BY <1>1, <1>3 DEF TypeOK

\* recv() takes the datagram that comes next, or leaves the stream alone.
LEMMA StreamOfRecv ==
  ASSUME TypeOK, TypeOK', ControlInv, NEW o \in Sides, user[o] = "using", "readable" \in flags[o],
         NEW e \in Sides, e = Peer(o), EndStream(e), NEW r \in Recvs(o), RecvStep(o, r),
         user'[o] = IF "broken" \in r.up THEN "failed" ELSE "using"
  PROVE  EndStream(e)'
<1> DEFINE s == sent[e]
           g == got[o]
           k == Len(g) + 1
           w == wire[e]
           v == Rest(w, r.read)
           c == Cat(r.rx, v)
           m == Missing(e)
<1>1. /\ Peer(e) = o /\ w \in Seq(Octets) /\ Coming(e) \in Seq(Octets)
      /\ m \in Seq(Octets) /\ s \in Seq(Seq(Octets)) /\ g \in Seq(Seq(Octets))
  BY PeerFacts, StreamTypes
<1>2. /\ rx' = [rx EXCEPT ![o] = r.rx] /\ wire' = [wire EXCEPT ![e] = v]
      /\ got' = IF r.is = "data" THEN [got EXCEPT ![o] = Append(got[o], r.data)] ELSE got
      /\ UNCHANGED <<pend, sent, cut>>
  BY DEF RecvStep
<1>3. /\ rx'[o] = r.rx /\ wire'[e] = v /\ sent'[e] = s /\ pend'[e] = pend[e] /\ cut' = cut
      /\ got'[o] = IF r.is = "data" THEN Append(g, r.data) ELSE g
  BY <1>2 DEF TypeOK
<1>4. r.rx \in Seq(Octets) /\ v \in Seq(Octets)
  <2>1. r.rx \in Seq(Octets) /\ r.read \in 0..Len(w)
    BY RecvFacts
  <2> DEFINE n == r.read
  <2> HIDE DEF n, w
  <2>2. Rest(w, n) \in Seq(Octets)
    BY <1>1, <2>1, CutFacts DEF n
  <2> QED
    BY <2>1, <2>2 DEF n
<1>5. c \in Seq(Octets)
  <2> HIDE DEF v
  <2> QED
    BY <1>4, CatType
<1>6. /\ Cat(Coming(e), m) = Frames(Rest(s, Len(g)))
      /\ e \notin cut => m = pend[e]
      /\ m # <<>> => Len(m) < Len(Frame(s[Len(s)]))
      /\ IsPrefix(g, s)
  BY <1>1 DEF EndStream, Ahead
<1>7. /\ r.is = "data" =>
           /\ k \in 1..Len(s) /\ r.data = s[k]
           /\ Cat(c, m) = Frames(Rest(s, k)) /\ "broken" \notin r.up
      /\ r.is # "data" => "broken" \in r.up \/ c = Coming(e)
  BY RecvTells
<1> HIDE DEF s, g, w, v, c, m
<1>8. CASE r.is = "data"
  <2> DEFINE h == Append(g, s[k])
  <2>1. IsPrefix(h, s) /\ Len(h) = k
    <3>1. s[k] \in Seq(Octets)
      BY <1>1, <1>7, <1>8, ElementOfSeq
    <3> QED
      BY <1>1, <1>6, <1>7, <1>8, <3>1, TakenNext, AppendProperties
  <2>2. got'[o] = h
    BY <1>3, <1>7, <1>8
  <2> HIDE DEF h, k
  <2>3. Cat(rx'[Peer(e)], wire'[e]) = c
    BY <1>1, <1>3 DEF c
  <2>4. Cat(c, m) = Frames(Rest(sent'[e], Len(got'[Peer(e)])))
    BY <1>1, <1>3, <1>7, <1>8, <2>1, <2>2
  <2>5. IsPrefix(got'[Peer(e)], sent'[e])
    BY <1>1, <1>3, <2>1, <2>2
  <2> QED
    BY <1>1, <1>3, <1>5, <1>6, <2>3, <2>4, <2>5, StreamAfter
<1>9. CASE r.is # "data" /\ "broken" \in r.up
  <2>1. IsPrefix(got'[Peer(e)], sent'[e]) /\ user'[Peer(e)] = "failed"
    BY <1>1, <1>3, <1>6, <1>9
  <2> QED
    BY <2>1 DEF EndStream
<1>10. CASE r.is # "data" /\ c = Coming(e)
  <2>1. Cat(rx'[Peer(e)], wire'[e]) = c
    BY <1>1, <1>3 DEF c
  <2>2. Cat(c, m) = Frames(Rest(sent'[e], Len(got'[Peer(e)])))
    BY <1>1, <1>3, <1>6, <1>10
  <2>3. IsPrefix(got'[Peer(e)], sent'[e])
    BY <1>1, <1>3, <1>6, <1>10
  <2> QED
    BY <1>1, <1>3, <1>5, <1>6, <2>1, <2>2, <2>3, StreamAfter
<1> QED
  BY <1>7, <1>8, <1>9, <1>10

-----------------------------------------------------------------------------
(* The invariant.                                                          *)

LEMMA IndIs == IndInv <=> TypeOK /\ ControlInv /\ \A e \in Sides : EndStream(e)
BY StreamIsOfEnds DEF IndInv

LEMMA IndIsNext == IndInv' <=> TypeOK' /\ ControlInv' /\ \A e \in Sides : EndStream(e)'
BY StreamIsOfEndsNext DEF IndInv

\* A step of e, if each direction survives it.
LEMMA IndAfter ==
  ASSUME TypeOK', ControlInv', NEW e \in Sides, EndStream(e)', EndStream(Peer(e))'
  PROVE  IndInv'
<1>1. \A o \in Sides : EndStream(o)'
  BY TwoSides
<1> QED
  BY <1>1, IndIsNext

LEMMA InvariantInitially == Init => IndInv
<1> SUFFICES ASSUME Init
             PROVE  IndInv
  OBVIOUS
<1>1. TypeOK
  BY TypesInitially
<1>2. ASSUME NEW e \in Sides
      PROVE  EndInv(e)
  <2>1. /\ tcp[e] = {} /\ flags[e] = {} /\ mask[e] = InitialMask /\ pend[e] = <<>>
        /\ wantFin[e] = FALSE /\ user[e] = "using"
        /\ shut = {} /\ finned = {} /\ ended = {} /\ cut = {}
    BY DEF Init, InitialFlags
  <2> QED
    BY <2>1 DEF EndInv, EndBits, EndUser, EndFin, AtxClone
<1>3. ControlInv
  BY <1>2, ControlIsOfEnds
<1> QED
  BY <1>1, <1>3, StreamInitially, IndIs

LEMMA InvariantOfActivity ==
  ASSUME IndInv, NEW e \in Sides, Activity(e)
  PROVE  IndInv'
<1>1. TypeOK /\ ControlInv /\ \A o \in Sides : EndStream(o)
  BY IndIs
<1>2. /\ ControlInv' /\ TypeOK'
      /\ user'[e] = user[e] \/ (user'[e] = "failed" /\ Lost)
      /\ \A o \in Sides : o # e => user'[o] = user[o]
  BY <1>1, ControlOfActivity
<1>3. pend' = pend
  BY <1>1 DEF Activity, AtxCalls, AtxNothingToFlush, TypeOK
<1>4. UNCHANGED <<wire, rx, sent, got, cut>>
  BY DEF Activity, netVars
<1>5. ASSUME NEW o \in Sides
      PROVE  EndStream(o)'
  <2>1. Peer(o) \in Sides /\ (user'[Peer(o)] = "using" => user[Peer(o)] = "using")
    BY <1>2, PeerFacts
  <2> QED
    BY <1>1, <1>3, <1>4, <2>1, StreamRests
<1> QED
  BY <1>2, <1>5, IndIsNext

LEMMA InvariantOfFlush ==
  ASSUME IndInv, NEW e \in Sides, Flush(e)
  PROVE  IndInv'
<1>1. TypeOK /\ ControlInv /\ \A o \in Sides : EndStream(o)
  BY IndIs
<1>2. /\ ControlInv' /\ TypeOK'
      /\ user'[e] = user[e] \/ (user'[e] = "failed" /\ Lost)
      /\ \A o \in Sides : o # e => user'[o] = user[o]
  BY <1>1, ControlOfFlush
<1>3. PICK n \in 0..Len(pend[e]) :
        /\ wire' = [wire EXCEPT ![e] = Cat(wire[e], Taken(pend[e], n))]
        /\ pend' = [pend EXCEPT ![e] = Rest(pend[e], n)]
  BY <1>1, ControlOfFlush
<1>4. UNCHANGED <<rx, sent, got, cut>> /\ user[e] \in {"using", "failed"}
  BY DEF Flush, Wakes
<1>5. e \notin cut
  BY <1>1, <1>4 DEF ControlInv, UserInv
<1>6. Peer(e) \in Sides /\ Peer(e) # e /\ Peer(Peer(e)) = e
  BY PeerFacts
<1>7. EndStream(e)'
  BY <1>1, <1>2, <1>3, <1>4, <1>5, <1>6, StreamOfFlush
<1>8. EndStream(Peer(e))'
  <2> DEFINE o == Peer(e)
  <2>1. /\ wire'[o] = wire[o] /\ pend'[o] = pend[o] /\ rx'[Peer(o)] = rx[Peer(o)] /\ sent'[o] = sent[o]
        /\ got'[Peer(o)] = got[Peer(o)]
        /\ user'[Peer(o)] = "using" => user[Peer(o)] = "using"
    BY <1>1, <1>2, <1>3, <1>4, <1>6 DEF TypeOK
  <2> QED
    BY <1>1, <1>4, <1>6, <2>1, StreamRests
<1> QED
  BY <1>2, <1>7, <1>8, IndAfter

LEMMA InvariantOfRecv ==
  ASSUME IndInv, NEW o \in Sides, UserRecvs(o)
  PROVE  IndInv'
<1> DEFINE e == Peer(o)
<1>1. TypeOK /\ ControlInv /\ \A s \in Sides : EndStream(s)
  BY IndIs
<1>2. PICK r \in Recvs(o) : RecvStep(o, r)
  BY DEF UserRecvs, RecvStep
<1>3. user[o] = "using" /\ "readable" \in flags[o]
  BY DEF UserRecvs
<1>4. e \in Sides /\ e # o /\ Peer(e) = o /\ EndStream(e)
  BY <1>1, PeerFacts
<1>5. got' \in [Sides -> Seq(Seq(Octet))]
  BY <1>1, <1>2, <1>3, <1>4, GotTypes
<1>6. /\ ControlInv' /\ TypeOK'
      /\ user'[o] = IF "broken" \in r.up THEN "failed" ELSE "using"
      /\ \A s \in Sides : s # o => user'[s] = user[s]
  BY <1>1, <1>2, <1>3, <1>5, ControlOfRecv
<1>7. EndStream(e)'
  BY <1>1, <1>2, <1>3, <1>4, <1>6, StreamOfRecv
<1>8. EndStream(o)'
  <2>1. /\ rx' = [rx EXCEPT ![o] = r.rx] /\ wire' = [wire EXCEPT ![e] = Rest(@, r.read)]
        /\ got' = IF r.is = "data" THEN [got EXCEPT ![o] = Append(@, r.data)] ELSE got
        /\ UNCHANGED <<pend, sent, cut>>
    BY <1>2 DEF RecvStep
  <2>2. /\ wire'[o] = wire[o] /\ rx'[e] = rx[e] /\ got'[e] = got[e]
        /\ user'[e] = "using" => user[e] = "using"
    BY <1>1, <1>4, <1>6, <2>1 DEF TypeOK
  <2> QED
    BY <1>1, <1>4, <2>1, <2>2, StreamRests
<1> QED
  BY <1>4, <1>6, <1>7, <1>8, IndAfter

LEMMA InvariantOfSend ==
  ASSUME IndInv, NEW e \in Sides, UserSends(e)
  PROVE  IndInv'
<1>1. TypeOK /\ ControlInv /\ \A o \in Sides : EndStream(o)
  BY IndIs
<1>2. PICK n \in DgmSizes : \E w \in Sends(e, DatagramOf(e, n)) : SendStep(e, DatagramOf(e, n), w)
  BY DEF UserSends, SendStep
<1> DEFINE data == DatagramOf(e, n)
<1>3. /\ user[e] = "using" /\ e \notin finned /\ "writable" \in flags[e]
      /\ Len(sent["l"]) + Len(sent["r"]) < MaxDgms
  BY DEF UserSends
<1>4. data \in Seq(Octet) /\ data \in Seq(Octets)
  BY <1>1, <1>3, DatagramTypes
<1> HIDE DEF data
<1>5. PICK w \in Sends(e, data) : SendStep(e, data, w)
  BY <1>2 DEF data
<1>6. /\ ControlInv' /\ TypeOK'
      /\ user'[e] = IF "broken" \in w.tcp THEN "failed" ELSE "using"
      /\ \A o \in Sides : o # e => user'[o] = user[o]
  BY <1>1, <1>3, <1>4, <1>5, ControlOfSend
<1>7. Peer(e) \in Sides /\ Peer(e) # e /\ Peer(Peer(e)) = e
  BY PeerFacts
<1>8. EndStream(e)'
  BY <1>1, <1>3, <1>4, <1>5, <1>6, <1>7, StreamOfSend
<1>9. EndStream(Peer(e))'
  <2> DEFINE o == Peer(e)
  <2>1. /\ wire' = [wire EXCEPT ![e] = @ \o w.put] /\ pend' = [pend EXCEPT ![e] = w.pend]
        /\ sent' = IF w.ok THEN [sent EXCEPT ![e] = Append(@, data)] ELSE sent
        /\ UNCHANGED <<rx, got, cut>>
    BY <1>5 DEF SendStep
  <2>2. /\ wire'[o] = wire[o] /\ pend'[o] = pend[o] /\ sent'[o] = sent[o]
        /\ user'[Peer(o)] = "using" => user[Peer(o)] = "using"
    BY <1>1, <1>3, <1>7, <2>1 DEF TypeOK
  <2> QED
    BY <1>1, <1>7, <2>1, <2>2, StreamRests
<1> QED
  BY <1>6, <1>8, <1>9, IndAfter

LEMMA InvariantOfFin ==
  ASSUME IndInv, NEW e \in Sides, UserFins(e)
  PROVE  IndInv'
<1>1. TypeOK /\ ControlInv /\ \A o \in Sides : EndStream(o)
  BY IndIs
<1>2. /\ ControlInv' /\ TypeOK'
      /\ user'[e] = "using" \/ user'[e] = "failed"
      /\ \A o \in Sides : o # e => user'[o] = user[o]
  BY <1>1, ControlOfFin
<1>3. user[e] = "using" /\ UNCHANGED <<wire, rx, pend, sent, got, cut>>
  BY DEF UserFins
<1>4. ASSUME NEW o \in Sides
      PROVE  EndStream(o)'
  <2>1. Peer(o) \in Sides /\ (user'[Peer(o)] = "using" => user[Peer(o)] = "using")
    BY <1>2, <1>3, PeerFacts
  <2> QED
    BY <1>1, <1>3, <2>1, StreamRests
<1> QED
  BY <1>2, <1>4, IndIsNext

LEMMA InvariantOfDiscard ==
  ASSUME IndInv, NEW e \in Sides, UserDiscards(e)
  PROVE  IndInv'
<1>1. TypeOK /\ ControlInv /\ \A o \in Sides : EndStream(o)
  BY IndIs
<1>2. /\ ControlInv' /\ TypeOK' /\ user'[e] = "discarded"
      /\ \A o \in Sides : o # e => user'[o] = user[o]
  BY <1>1, ControlOfDiscard
<1>3. Peer(e) \in Sides /\ Peer(e) # e /\ Peer(Peer(e)) = e
  BY PeerFacts
<1>4. EndStream(e)'
  BY <1>1, <1>2, StreamOfDiscard
<1>5. EndStream(Peer(e))'
  <2>1. got' = got /\ sent' = sent /\ IsPrefix(got[e], sent[Peer(e)])
    BY <1>1, <1>3 DEF UserDiscards, EndStream
  <2> QED
    BY <1>2, <1>3, <2>1 DEF EndStream
<1> QED
  BY <1>2, <1>4, <1>5, IndAfter

\* The network fails, or nothing happens.
LEMMA InvariantOfNetwork ==
  ASSUME IndInv, ConnectionLost \/ UNCHANGED vars
  PROVE  IndInv'
<1>1. TypeOK /\ ControlInv /\ \A o \in Sides : EndStream(o)
  BY IndIs
<1>2. conn' \in {"open", "reset"} /\ UNCHANGED <<wire, shut, pipeVars, userVars>>
  BY <1>1 DEF ConnectionLost, vars, netVars, TypeOK
<1>3. TypeOK'
  BY <1>1, <1>2 DEF TypeOK, pipeVars, userVars
<1>4. ASSUME NEW e \in Sides
      PROVE  EndInv(e)'
  <2>1. EndInv(e)
    BY <1>1, ControlIsOfEnds
  <2> QED
    BY <1>2, <2>1 DEF EndInv, EndBits, EndUser, EndFin, pipeVars, userVars
<1>5. ControlInv'
  BY <1>4, ControlIsOfEndsNext
<1>6. ASSUME NEW e \in Sides
      PROVE  EndStream(e)'
  BY <1>1, <1>2, StreamRests DEF pipeVars, userVars
<1> QED
  BY <1>3, <1>5, <1>6, IndIsNext

LEMMA InvariantOfStep ==
  ASSUME IndInv, [Next]_vars
  PROVE  IndInv'
<1>1. ASSUME NEW e \in Sides, Activity(e)
      PROVE  IndInv'
  BY <1>1, InvariantOfActivity
<1>2. ASSUME NEW e \in Sides, Flush(e)
      PROVE  IndInv'
  BY <1>2, InvariantOfFlush
<1>3. ASSUME NEW e \in Sides, UserRecvs(e)
      PROVE  IndInv'
  BY <1>3, InvariantOfRecv
<1>4. ASSUME NEW e \in Sides, UserSends(e)
      PROVE  IndInv'
  BY <1>4, InvariantOfSend
<1>5. ASSUME NEW e \in Sides, UserFins(e)
      PROVE  IndInv'
  BY <1>5, InvariantOfFin
<1>6. ASSUME NEW e \in Sides, UserDiscards(e)
      PROVE  IndInv'
  BY <1>6, InvariantOfDiscard
<1>7. CASE ConnectionLost \/ Terminated \/ UNCHANGED vars
  BY <1>7, InvariantOfNetwork DEF Terminated
<1> QED
  BY <1>1, <1>2, <1>3, <1>4, <1>5, <1>6, <1>7 DEF Next

\* The datagrams that are on their way, in the socket buffers, in the receive
\* buffer of a dgm_pipe and in the atx_pipe, are at all times the frames of
\* those that were sent and not yet received, but for octets that discard()
\* has thrown away; and the bits of the three pipes belong together.
THEOREM InvariantHolds == Spec => []IndInv
<1>1. IndInv /\ [Next]_vars => IndInv'
  BY InvariantOfStep
<1> QED
  BY <1>1, InvariantInitially, PTL DEF Spec

\* Every variable stays within its type: what moves between two users of
\* datagram pipes are octets of their datagrams, and headers.
THEOREM TypeCorrect == Spec => []TypeOK
<1>1. IndInv => TypeOK
  BY DEF IndInv
<1> QED
  BY <1>1, InvariantHolds, PTL

\* No assert() of io_pipe_dgm.c, io_pipe_atx.c or io_pipe_tcp.c fires, whatever
\* sizes the users send, and whenever they receive, end their stream or leave.
THEOREM NoAssertFails == Spec => []NoAbort
<1>1. IndInv => NoAbort
  BY DEF IndInv, ControlInv
<1> QED
  BY <1>1, InvariantHolds, PTL

-----------------------------------------------------------------------------
(* What the two users can observe: every step is one of DgmChannel.        *)

Gone == {e \in Sides : user[e] = "discarded"}
Broken == {e \in Sides : user[e] = "failed"}
Hurt == Lost \/ cut # {}

\* DgmChannel has its own copies of what it takes from IoPipe.
LEMMA SameNames == Channel!Sides = Sides /\ \A s : Channel!Peer(s) = Peer(s)
BY DEF Channel!Sides, Sides, Channel!Peer, Peer

LEMMA UsersOf ==
  ASSUME NEW e \in Sides, \A o \in Sides : o # e => user'[o] = user[o]
  PROVE  /\ user'[e] = user[e] => Gone' = Gone /\ Broken' = Broken
         /\ user[e] = "using" /\ user'[e] = "failed" => Gone' = Gone /\ Broken' = Broken \cup {e}
         /\ user'[e] = "discarded" => Gone' = Gone \cup {e} /\ Broken' = Broken \ {e}
BY DEF Gone, Broken

LEMMA ChannelStutter ==
  ASSUME UNCHANGED <<sent, finned, Gone, got, ended, Broken, Hurt>>
  PROVE  UNCHANGED Channel!vars
BY DEF Channel!vars, Gone, Broken, Hurt

LEMMA ChannelFails ==
  ASSUME NEW e \in Sides, user[e] = "using", user'[e] = "failed",
         \A o \in Sides : o # e => user'[o] = user[o],
         UNCHANGED <<conn, sent, finned, got, ended, cut>>,
         LET s == sent[Peer(e)]
             k == Len(got[e]) + 1
         IN Hurt \/ (k \in 1..Len(s) /\ Len(s[k]) > MaxDgm),
         TypeOK
  PROVE  Channel!Next
<1>1. Gone' = Gone /\ Broken' = Broken \cup {e}
  BY UsersOf
<1>2. Hurt' = Hurt
  BY DEF Hurt, Lost
<1>3. Len(got[e]) \in Nat /\ Len(sent[Peer(e)]) \in Nat
  BY PeerFacts, EndTypes, LenProperties
<1>4. Channel!Awaited(e) = sent[Peer(e)][Len(got[e]) + 1]
  BY SameNames DEF Channel!Awaited
<1>5. Channel!Fail(e)
  BY <1>1, <1>2, <1>3, <1>4, SameNames DEF Channel!Fail, Gone, Broken, Hurt
<1> QED
  BY <1>5, SameNames DEF Channel!Next

\* A step of e that moves no datagram.
LEMMA ChannelRests ==
  ASSUME TypeOK, NEW e \in Sides, user[e] \in {"using", "failed"},
         user'[e] = user[e] \/ (user'[e] = "failed" /\ Lost),
         \A o \in Sides : o # e => user'[o] = user[o],
         UNCHANGED <<conn, sent, finned, got, ended, cut>>
  PROVE  [Channel!Next]_(Channel!vars)
<1>1. CASE user'[e] = user[e]
  <2>1. Gone' = Gone /\ Broken' = Broken /\ Hurt' = Hurt
    BY <1>1, UsersOf DEF Hurt, Lost
  <2> QED
    BY <2>1, ChannelStutter
<1>2. CASE user'[e] # user[e]
  <2>1. user[e] = "using" /\ user'[e] = "failed" /\ Hurt
    BY <1>2 DEF Hurt
  <2> QED
    BY <2>1, ChannelFails
<1> QED
  BY <1>1, <1>2

LEMMA ChannelOfRecv ==
  ASSUME IndInv, NEW o \in Sides, UserRecvs(o)
  PROVE  [Channel!Next]_(Channel!vars)
<1> DEFINE e == Peer(o)
           s == sent[e]
           k == Len(got[o]) + 1
<1>1. TypeOK /\ ControlInv /\ \A t \in Sides : EndStream(t)
  BY IndIs
<1>2. PICK r \in Recvs(o) : RecvStep(o, r)
  BY DEF UserRecvs, RecvStep
<1>3. user[o] = "using" /\ "readable" \in flags[o]
  BY DEF UserRecvs
<1>4. e \in Sides /\ e # o /\ Peer(e) = o /\ EndStream(e)
  BY <1>1, PeerFacts
<1>5. got' \in [Sides -> Seq(Seq(Octet))]
  BY <1>1, <1>2, <1>3, <1>4, GotTypes
<1>6. /\ user'[o] = IF "broken" \in r.up THEN "failed" ELSE "using"
      /\ \A t \in Sides : t # o => user'[t] = user[t]
  BY <1>1, <1>2, <1>3, <1>5, ControlOfRecv
<1>7. /\ r.is = "data" =>
           k \in 1..Len(s) /\ r.data = s[k] /\ Len(s[k]) <= MaxDgm /\ "broken" \notin r.up
      /\ "broken" \in r.up => Lost \/ e \in cut \/ (k \in 1..Len(s) /\ Len(s[k]) > MaxDgm)
      /\ r.is = "fin" => got[o] = s /\ e \in shut /\ "broken" \notin r.up
  BY <1>1, <1>3, <1>4, RecvTells
<1>8. /\ got' = IF r.is = "data" THEN [got EXCEPT ![o] = Append(@, r.data)] ELSE got
      /\ ended' = IF r.is = "fin" THEN ended \cup {o} ELSE ended
      /\ UNCHANGED <<conn, sent, finned, cut>>
  BY <1>2 DEF RecvStep
<1>9. r.is \in {"data", "fin", "nothing"}
  BY <1>1, <1>3, RecvFacts
<1>10. o \notin Gone \cup Broken /\ o \notin ended /\ Hurt' = Hurt
  <2>1. o \notin ended
    BY <1>1, <1>3, Using DEF ControlInv, FinInv
  <2> QED
    BY <1>3, <1>8, <2>1 DEF Gone, Broken, Hurt, Lost
<1>11. "broken" \notin r.up => Gone' = Gone /\ Broken' = Broken
  BY <1>3, <1>6, UsersOf
<1>12. CASE r.is = "data"
  <2>1. Len(got[o]) < Len(s)
    <3>1. Len(got[o]) \in Nat /\ Len(s) \in Nat
      BY <1>1, <1>4, EndTypes, LenProperties
    <3> QED
      BY <1>7, <1>12, <3>1
  <2>2. Channel!Awaited(o) = s[k]
    BY SameNames DEF Channel!Awaited
  <2>3. Channel!Receive(o)
    BY <1>7, <1>8, <1>10, <1>11, <1>12, <2>1, <2>2, SameNames
    DEF Channel!Receive, Channel!Usable, Gone, Broken, Hurt
  <2> QED
    BY <2>3, SameNames DEF Channel!Next
<1>13. CASE r.is = "fin"
  <2>1. e \in finned \cup Gone
    BY <1>1, <1>4, <1>7, <1>13 DEF ControlInv, FinInv, Gone
  <2>2. Channel!End(o)
    BY <1>7, <1>8, <1>10, <1>11, <1>13, <2>1, SameNames
    DEF Channel!End, Channel!Usable, Gone, Broken, Hurt
  <2> QED
    BY <2>2, SameNames DEF Channel!Next
<1>14. CASE r.is = "nothing" /\ "broken" \in r.up
  <2>1. Hurt \/ (k \in 1..Len(s) /\ Len(s[k]) > MaxDgm)
    BY <1>7, <1>14 DEF Hurt
  <2> QED
    BY <1>1, <1>3, <1>6, <1>8, <1>14, <2>1, ChannelFails
<1>15. CASE r.is = "nothing" /\ "broken" \notin r.up
  BY <1>8, <1>10, <1>11, <1>15, ChannelStutter
<1> QED
  BY <1>9, <1>12, <1>13, <1>14, <1>15

LEMMA SendableIs ==
  ASSUME NEW n \in DgmSizes, NEW e \in Sides, NEW k \in 1..MaxDgms
  PROVE  [i \in 1..n |-> <<e, k, i>>] \in Sendable
BY DEF Sendable

LEMMA ChannelOfSend ==
  ASSUME IndInv, NEW e \in Sides, UserSends(e)
  PROVE  [Channel!Next]_(Channel!vars)
<1>1. TypeOK /\ ControlInv
  BY IndIs
<1>2. PICK n \in DgmSizes : \E w \in Sends(e, DatagramOf(e, n)) : SendStep(e, DatagramOf(e, n), w)
  BY DEF UserSends, SendStep
<1> DEFINE data == DatagramOf(e, n)
<1>3. /\ user[e] = "using" /\ e \notin finned /\ "writable" \in flags[e]
      /\ Len(sent["l"]) + Len(sent["r"]) < MaxDgms
  BY DEF UserSends
<1>4. /\ data \in Seq(Octet) /\ data \in Seq(Octets)
      /\ \E k \in 1..MaxDgms : data = [i \in 1..n |-> <<e, k, i>>]
  BY <1>1, <1>3, DatagramTypes
<1> HIDE DEF data
<1>5. PICK w \in Sends(e, data) : SendStep(e, data, w)
  BY <1>2 DEF data
<1>6. /\ user'[e] = IF "broken" \in w.tcp THEN "failed" ELSE "using"
      /\ \A o \in Sides : o # e => user'[o] = user[o]
  BY <1>1, <1>3, <1>4, <1>5, ControlOfSend
<1>7. "broken" \in w.tcp => ~w.ok /\ Lost
  BY <1>1, <1>3, <1>4, <1>5, SendFacts
<1>8. /\ sent' = IF w.ok THEN [sent EXCEPT ![e] = Append(@, data)] ELSE sent
      /\ UNCHANGED <<conn, got, finned, ended, cut>>
  BY <1>5 DEF SendStep
<1>9. CASE ~w.ok
  BY <1>1, <1>3, <1>6, <1>7, <1>8, <1>9, ChannelRests
<1>10. CASE w.ok
  <2>1. user'[e] = user[e] /\ e \notin Gone \cup Broken
    BY <1>3, <1>6, <1>7, <1>10 DEF Gone, Broken
  <2>2. Gone' = Gone /\ Broken' = Broken /\ Hurt' = Hurt
    BY <1>6, <1>8, <2>1, UsersOf DEF Hurt, Lost
  <2>3. data \in Sendable
    <3>1. PICK k \in 1..MaxDgms : data = [i \in 1..n |-> <<e, k, i>>]
      BY <1>4
    <3> QED
      BY <3>1, SendableIs
  <2>4. \E d \in Sendable : sent' = [sent EXCEPT ![e] = Append(@, d)]
    BY <1>8, <1>10, <2>3
  <2>5. UNCHANGED <<finned, got, ended>>
    BY <1>8
  <2>6. Channel!Usable(e)
    BY <2>1 DEF Channel!Usable, Gone, Broken
  <2>7. Channel!Send(e)
    BY <1>3, <2>2, <2>4, <2>5, <2>6 DEF Channel!Send, Gone, Broken, Hurt
  <2> QED
    BY <2>7, SameNames DEF Channel!Next
<1> QED
  BY <1>9, <1>10

LEMMA ChannelOfFin ==
  ASSUME IndInv, NEW e \in Sides, UserFins(e)
  PROVE  [Channel!Next]_(Channel!vars)
<1>1. TypeOK /\ ControlInv
  BY IndIs
<1>2. /\ \/ user'[e] = "using" /\ finned' = finned \cup {e}
         \/ user'[e] = "failed" /\ finned' = finned /\ Lost
      /\ \A o \in Sides : o # e => user'[o] = user[o]
  BY <1>1, ControlOfFin
<1>3. user[e] = "using" /\ UNCHANGED <<conn, sent, got, ended, cut>>
  BY DEF UserFins
<1>4. CASE user'[e] = "using" /\ finned' = finned \cup {e}
  <2>1. e \notin Gone \cup Broken /\ Gone' = Gone /\ Broken' = Broken /\ Hurt' = Hurt
    BY <1>2, <1>3, <1>4, UsersOf DEF Gone, Broken, Hurt, Lost
  <2>2. Channel!Close(e)
    BY <1>3, <1>4, <2>1 DEF Channel!Close, Channel!Usable, Gone, Broken, Hurt
  <2> QED
    BY <2>2, SameNames DEF Channel!Next
<1>5. CASE user'[e] = "failed" /\ finned' = finned /\ Lost
  BY <1>1, <1>2, <1>3, <1>5, ChannelRests
<1> QED
  BY <1>2, <1>4, <1>5

LEMMA ChannelOfDiscard ==
  ASSUME IndInv, NEW e \in Sides, UserDiscards(e)
  PROVE  [Channel!Next]_(Channel!vars)
<1>1. TypeOK /\ ControlInv
  BY IndIs
<1>2. user'[e] = "discarded" /\ \A o \in Sides : o # e => user'[o] = user[o]
  BY <1>1, ControlOfDiscard
<1>3. /\ cut' = cut \/ cut' = cut \cup {e}
      /\ conn' = "reset" \/ conn' = conn
      /\ UNCHANGED <<sent, got, finned, ended>>
  BY DEF UserDiscards
<1>4. Gone' = Gone \cup {e} /\ Broken' = Broken \ {e}
  BY <1>2, UsersOf
<1>5. Hurt' \in {Hurt, TRUE}
  <2>1. Hurt => Hurt'
    BY <1>3 DEF Hurt, Lost
  <2>2. Hurt \in BOOLEAN /\ Hurt' \in BOOLEAN
    BY DEF Hurt, Lost
  <2> QED
    BY <2>1, <2>2
<1>6. Channel!Discard(e)
  BY <1>3, <1>4, <1>5 DEF Channel!Discard, Gone, Broken, Hurt
<1> QED
  BY <1>6, SameNames DEF Channel!Next

LEMMA ChannelOfNetwork ==
  ASSUME ConnectionLost \/ UNCHANGED vars
  PROVE  [Channel!Next]_(Channel!vars)
<1>1. UNCHANGED <<user, sent, finned, got, ended, cut>>
  BY DEF ConnectionLost, vars, userVars
<1>2. Gone' = Gone /\ Broken' = Broken
  BY <1>1 DEF Gone, Broken
<1>3. CASE ConnectionLost
  <2>1. Hurt'
    BY <1>3 DEF ConnectionLost, Hurt, Lost
  <2>2. Channel!Lose
    BY <1>1, <1>2, <2>1 DEF Channel!Lose, Gone, Broken, Hurt
  <2> QED
    BY <2>2 DEF Channel!Next
<1>4. CASE UNCHANGED vars
  <2>1. Hurt' = Hurt
    BY <1>1, <1>4 DEF vars, netVars, Hurt, Lost
  <2> QED
    BY <1>1, <1>2, <2>1, ChannelStutter
<1> QED
  BY <1>3, <1>4

LEMMA ChannelOfStep ==
  ASSUME IndInv, [Next]_vars
  PROVE  [Channel!Next]_(Channel!vars)
<1>0. TypeOK /\ ControlInv
  BY IndIs
<1>1. ASSUME NEW e \in Sides, Activity(e) \/ Flush(e)
      PROVE  [Channel!Next]_(Channel!vars)
  <2>1. /\ user'[e] = user[e] \/ (user'[e] = "failed" /\ Lost)
        /\ \A o \in Sides : o # e => user'[o] = user[o]
    BY <1>0, <1>1, ControlOfActivity, ControlOfFlush
  <2>2. user[e] \in {"using", "failed"} /\ UNCHANGED <<conn, sent, finned, got, ended, cut>>
    BY <1>1 DEF Activity, Flush, Wakes, netVars
  <2> QED
    BY <1>0, <2>1, <2>2, ChannelRests
<1>2. ASSUME NEW e \in Sides, UserRecvs(e)
      PROVE  [Channel!Next]_(Channel!vars)
  BY <1>2, ChannelOfRecv
<1>3. ASSUME NEW e \in Sides, UserSends(e)
      PROVE  [Channel!Next]_(Channel!vars)
  BY <1>3, ChannelOfSend
<1>4. ASSUME NEW e \in Sides, UserFins(e)
      PROVE  [Channel!Next]_(Channel!vars)
  BY <1>4, ChannelOfFin
<1>5. ASSUME NEW e \in Sides, UserDiscards(e)
      PROVE  [Channel!Next]_(Channel!vars)
  BY <1>5, ChannelOfDiscard
<1>6. CASE ConnectionLost \/ Terminated \/ UNCHANGED vars
  BY <1>6, ChannelOfNetwork DEF Terminated
<1> QED
  BY <1>1, <1>2, <1>3, <1>4, <1>5, <1>6 DEF Next

\* Datagrams of any sizes arrive whole, in order and once, whatever pieces the
\* connection carries them in; FIN comes after the last of them, also if it
\* was put off; and a pipe breaks for no other reason than a lost connection,
\* a stream that discard() has cut off, or a datagram that is too long.
THEOREM PipesImplementChannel == Spec => ImplementsChannel
<1>1. Init => Channel!Init
  <2> SUFFICES ASSUME Init
               PROVE  Channel!Init
    OBVIOUS
  <2>1. Gone = {} /\ Broken = {}
    BY DEF Init, Gone, Broken
  <2>2. Hurt = FALSE
    BY DEF Init, Hurt, Lost
  <2> QED
    BY <2>1, <2>2, SameNames DEF Channel!Init, Init, Gone, Broken, Hurt
<1>2. IndInv /\ [Next]_vars => [Channel!Next]_(Channel!vars)
  BY ChannelOfStep
<1> QED
  BY <1>1, <1>2, InvariantHolds, PTL DEF Spec, ImplementsChannel, Channel!Spec

=============================================================================
