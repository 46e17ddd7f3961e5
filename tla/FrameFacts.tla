----------------------------- MODULE FrameFacts -----------------------------
(***************************************************************************)
(* Facts that the proofs of several modules use.  First about the helpers  *)
(* of IoPipe: the two sides, and cutting and joining streams of octets.    *)
(* Then about the framing of DgmPipe: what the payload of a stream is, and *)
(* that whole datagrams can be joined and taken off one by one.            *)
(*                                                                         *)
(* The induction theorems of the library take operators as parameters and  *)
(* cannot be used; NatBySteps is induction over a set instead.             *)
(***************************************************************************)
EXTENDS DgmPipe, SequenceTheorems, WellFoundedInduction, TLAPS

\* The two sides are each other's peers.
LEMMA PeerFacts ==
  ASSUME NEW s \in Sides
  PROVE  Peer(s) \in Sides /\ Peer(s) # s /\ Peer(Peer(s)) = s
BY DEF Sides, Peer

\* A side is one of the two, whichever of them is called s.
LEMMA TwoSides ==
  ASSUME NEW s \in Sides, NEW t \in Sides
  PROVE  t = s \/ t = Peer(s)
BY DEF Sides, Peer

\* Cutting a stream yields two streams, of the lengths expected.
LEMMA CutFacts ==
  ASSUME NEW S, NEW q \in Seq(S), NEW n \in 0..Len(q)
  PROVE  /\ Taken(q, n) \in Seq(S) /\ Len(Taken(q, n)) = n
         /\ Rest(q, n) \in Seq(S) /\ Len(Rest(q, n)) = Len(q) - n
         /\ Taken(q, n) \o Rest(q, n) = q
<1>1. Len(q) \in Nat /\ \A i \in 1..Len(q) : q[i] \in S
  BY LenProperties, ElementOfSeq
<1>2. Taken(q, n) \in Seq(S) /\ Len(Taken(q, n)) = n
  <2>1. \A i \in 1..n : q[i] \in S
    BY <1>1
  <2> QED
    BY <1>1, <2>1, SubSeqProperties DEF Taken
<1>3. Rest(q, n) \in Seq(S) /\ Len(Rest(q, n)) = Len(q) - n
  <2>1. \A i \in n + 1..Len(q) : q[i] \in S
    BY <1>1
  <2>2. n + 1 \in Int /\ Len(q) \in Int
    BY <1>1
  <2> QED
    BY <1>1, <2>1, <2>2, SubSeqProperties DEF Rest
<1>4. SubSeq(q, 1, n) \o SubSeq(q, n + 1, Len(q)) = SubSeq(q, 1, Len(q))
  <2>1. 1 \in 1..Len(q) + 1 /\ n \in 1 - 1..Len(q) /\ Len(q) \in n..Len(q)
    BY <1>1
  <2> QED
    BY <2>1, ConcatAdjacentSubSeq
<1> QED
  BY <1>2, <1>3, <1>4, SubSeqFull DEF Taken, Rest

\* The whole and the empty part of a stream.
LEMMA CutAtEnds ==
  ASSUME NEW S, NEW q \in Seq(S)
  PROVE  /\ Taken(q, Len(q)) = q /\ Rest(q, Len(q)) = <<>>
         /\ Taken(q, 0) = <<>> /\ Rest(q, 0) = q
<1>1. Len(q) \in Nat
  BY LenProperties
<1>2. Taken(q, Len(q)) = q /\ Rest(q, 0) = q
  BY SubSeqFull DEF Taken, Rest
<1>3. Taken(q, 0) = <<>>
  BY SubSeqEmpty DEF Taken
<1>4. Rest(q, Len(q)) = <<>>
  BY <1>1, SubSeqEmpty DEF Rest
<1> QED
  BY <1>2, <1>3, <1>4

\* Whatever a stream is continued with, it remains its beginning.
LEMMA PrefixOfConcat ==
  ASSUME NEW S, NEW p \in Seq(S), NEW q \in Seq(S)
  PROVE  IsPrefix(p, p \o q)
<1>1. Len(p) \in Nat /\ Len(q) \in Nat /\ p \o q \in Seq(S)
      /\ Len(p \o q) = Len(p) + Len(q)
  BY LenProperties, ConcatProperties
<1>2. Taken(p \o q, Len(p)) = p
  <2>1. CASE p = <<>>
    BY <2>1, <1>1, CutAtEnds, EmptySeq, ConcatEmptySeq
  <2>2. CASE p # <<>>
    <3>1. 1 \in 1..Len(p) /\ Len(p) \in 1..Len(p)
      BY <1>1, <2>2, EmptySeq
    <3> QED
      BY <3>1, SubSeqOfConcat1, SubSeqFull DEF Taken
  <2> QED
    BY <2>1, <2>2
<1> QED
  BY <1>1, <1>2 DEF IsPrefix

\* A prefix of a stream stays one when the stream grows.
LEMMA PrefixOfAppend ==
  ASSUME NEW S, NEW p \in Seq(S), NEW q \in Seq(S), NEW e \in S, IsPrefix(p, q)
  PROVE  IsPrefix(p, Append(q, e))
<1>1. Len(p) \in Nat /\ Len(q) \in Nat /\ Len(p) <= Len(q) /\ p = SubSeq(q, 1, Len(p))
  BY LenProperties DEF IsPrefix, Taken
<1>2. <<e>> \in Seq(S) /\ Append(q, e) = q \o <<e>> /\ Len(Append(q, e)) = Len(q) + 1
  BY AppendIsConcat, AppendProperties
<1>3. CASE p = <<>>
  <2>1. Taken(Append(q, e), 0) = <<>>
    BY SubSeqEmpty DEF Taken
  <2> QED
    BY <1>1, <1>2, <1>3, <2>1, EmptySeq DEF IsPrefix
<1>4. CASE p # <<>>
  <2>1. 1 \in 1..Len(q) /\ Len(p) \in 1..Len(q)
    BY <1>1, <1>4, EmptySeq
  <2>2. SubSeq(q \o <<e>>, 1, Len(p)) = SubSeq(q, 1, Len(p))
    BY <1>2, <2>1, SubSeqOfConcat1
  <2> QED
    BY <1>1, <1>2, <2>2 DEF IsPrefix, Taken
<1> QED
  BY <1>3, <1>4

-----------------------------------------------------------------------------
(* The provers do not see through quantified facts about \o, so streams    *)
(* are joined under a name of their own wherever they are rearranged.      *)

Cat(p, q) == p \o q

\* Joining streams gives a stream.
LEMMA CatType ==
  ASSUME NEW S, NEW p \in Seq(S), NEW q \in Seq(S)
  PROVE  Cat(p, q) \in Seq(S)
BY ConcatProperties DEF Cat

\* Where the brackets are does not matter.
LEMMA CatAssoc ==
  ASSUME NEW S, NEW p \in Seq(S), NEW q \in Seq(S), NEW r \in Seq(S)
  PROVE  Cat(Cat(p, q), r) = Cat(p, Cat(q, r))
BY ConcatAssociative DEF Cat

\* Nor does an empty stream.
LEMMA CatEmpty ==
  ASSUME NEW S, NEW p \in Seq(S)
  PROVE  Cat(p, <<>>) = p /\ Cat(<<>>, p) = p
BY ConcatEmptySeq DEF Cat

\* Taking nothing adds nothing.
LEMMA TakenNone ==
  ASSUME NEW S, NEW o \in Seq(S), NEW q \in Seq(S)
  PROVE  o \o Taken(q, 0) = o
<1>1. Taken(q, 0) = <<>>
  BY CutAtEnds
<1>2. Cat(o, <<>>) = o
  BY CatEmpty
<1> QED
  BY <1>1, <1>2 DEF Cat

\* A stream begins whatever it is continued to.
LEMMA CatPrefix ==
  ASSUME NEW S, NEW p \in Seq(S), NEW q \in Seq(S)
  PROVE  IsPrefix(p, Cat(p, q))
BY PrefixOfConcat DEF Cat

\* Octets t that move from the front of a queue p = t \o r to the end of the
\* queue ahead of it, o, stay where they were between g and i.
LEMMA Moved ==
  ASSUME NEW S, NEW g \in Seq(S), NEW o \in Seq(S), NEW t \in Seq(S), NEW r \in Seq(S), NEW i \in Seq(S)
  PROVE  /\ Cat(Cat(Cat(g, Cat(o, t)), r), i) = Cat(Cat(Cat(g, o), Cat(t, r)), i)
         /\ IsPrefix(Cat(g, Cat(o, t)), Cat(Cat(Cat(g, Cat(o, t)), r), i))
<1>1. Cat(g, o) \in Seq(S) /\ Cat(o, t) \in Seq(S) /\ Cat(r, i) \in Seq(S)
  BY CatType
<1>2. Cat(g, Cat(o, t)) = Cat(Cat(g, o), t) /\ Cat(g, Cat(o, t)) \in Seq(S)
  BY <1>1, CatType, CatAssoc
<1>3. Cat(Cat(Cat(g, o), t), r) = Cat(Cat(g, o), Cat(t, r))
  BY <1>1, CatAssoc
<1>4. Cat(Cat(Cat(g, Cat(o, t)), r), i) = Cat(Cat(g, Cat(o, t)), Cat(r, i))
  BY <1>2, CatAssoc
<1>5. IsPrefix(Cat(g, Cat(o, t)), Cat(Cat(g, Cat(o, t)), Cat(r, i)))
  BY <1>1, <1>2, CatPrefix
<1> QED
  BY <1>2, <1>3, <1>4, <1>5

\* The same when p was taken from the front of the stream p \o i, with
\* nothing between it and o.
LEMMA MovedThrough ==
  ASSUME NEW S, NEW g \in Seq(S), NEW o \in Seq(S), NEW p \in Seq(S), NEW i \in Seq(S)
  PROVE  Cat(Cat(Cat(g, o), <<>>), Cat(p, i)) = Cat(Cat(Cat(g, o), p), i)
<1>1. Cat(g, o) \in Seq(S)
  BY CatType
<1>2. Cat(Cat(g, o), <<>>) = Cat(g, o)
  BY <1>1, CatEmpty
<1> QED
  BY <1>1, <1>2, CatAssoc

\* The octet between two streams may be counted with either of them.
LEMMA ShiftOne ==
  ASSUME NEW S, NEW a \in Seq(S), NEW e \in S, NEW b \in Seq(S)
  PROVE  Cat(Append(a, e), b) = Cat(a, Cat(<<e>>, b))
<1> DEFINE one == <<e>>
<1>1. one \in Seq(S) /\ Append(a, e) = Cat(a, one)
  BY AppendIsConcat DEF Cat
<1> HIDE DEF one
<1>2. Cat(Cat(a, one), b) = Cat(a, Cat(one, b))
  BY <1>1, CatAssoc
<1>3. Cat(Append(a, e), b) = Cat(a, Cat(one, b))
  BY <1>1, <1>2
<1> QED
  BY <1>3 DEF one

\* Moving the first octet of a queue to the end of what was read.
LEMMA ReadOne ==
  ASSUME NEW S, NEW g \in Seq(S), NEW o \in Seq(S), o # <<>>
  PROVE  Cat(Append(g, Head(o)), Tail(o)) = Cat(g, o)
<1> DEFINE h == Head(o)
           rest == Tail(o)
<1>1. h \in S /\ rest \in Seq(S) /\ <<h>> \in Seq(S) /\ Len(o) \in Nat \ {0}
  BY HeadTailProperties, EmptySeq
<1>2. Cat(<<h>>, rest) = o
  BY <1>1 DEF Cat
<1> HIDE DEF h, rest
<1>3. Cat(Append(g, h), rest) = Cat(g, Cat(<<h>>, rest))
  BY <1>1, ShiftOne
<1>4. Cat(Append(g, h), rest) = Cat(g, o)
  BY <1>2, <1>3
<1> QED
  BY <1>4 DEF h, rest

\* Appending to the last part of a stream is appending to the stream.
LEMMA AppendLast ==
  ASSUME NEW S, NEW a \in Seq(S), NEW i \in Seq(S), NEW e \in S
  PROVE  Cat(a, Append(i, e)) = Append(Cat(a, i), e)
<1> DEFINE one == <<e>>
<1>1. one \in Seq(S) /\ Append(i, e) = Cat(i, one)
  BY AppendIsConcat DEF Cat
<1>2. Cat(a, i) \in Seq(S)
  BY CatType
<1>3. Append(Cat(a, i), e) = Cat(Cat(a, i), one)
  BY <1>2, AppendIsConcat DEF Cat
<1> HIDE DEF one
<1>4. Cat(Cat(a, i), one) = Cat(a, Cat(i, one))
  BY <1>1, CatAssoc
<1> QED
  BY <1>1, <1>3, <1>4

\* A prefix of a stream stays one whatever follows.
LEMMA PrefixGrows ==
  ASSUME NEW S, NEW p \in Seq(S), NEW q \in Seq(S), NEW r \in Seq(S), IsPrefix(p, q)
  PROVE  IsPrefix(p, Cat(q, r))
<1>1. Len(p) \in 0..Len(q) /\ p = Taken(q, Len(p))
  BY LenProperties DEF IsPrefix
<1> DEFINE rest == Rest(q, Len(p))
<1>2. rest \in Seq(S) /\ Cat(p, rest) = q
  <2>1. rest \in Seq(S) /\ Taken(q, Len(p)) \o rest = q
    BY <1>1, CutFacts
  <2> QED
    BY <1>1, <2>1 DEF Cat
<1> HIDE DEF rest
<1>3. Cat(rest, r) \in Seq(S) /\ Cat(Cat(p, rest), r) = Cat(p, Cat(rest, r))
  BY <1>2, CatType, CatAssoc
<1> QED
  BY <1>2, <1>3, CatPrefix

\* The octets of two streams after they are joined.
LEMMA CatAt ==
  ASSUME NEW S, NEW p \in Seq(S), NEW q \in Seq(S)
  PROVE  /\ Len(p) \in Nat /\ Len(q) \in Nat
         /\ Cat(p, q) \in Seq(S) /\ Len(Cat(p, q)) = Len(p) + Len(q)
         /\ \A i \in 1..Len(p) : Cat(p, q)[i] = p[i]
         /\ \A i \in 1..Len(q) : Cat(p, q)[Len(p) + i] = q[i]
<1>1. Len(p) \in Nat /\ Len(q) \in Nat
  BY LenProperties
<1>2. /\ p \o q \in Seq(S) /\ Len(p \o q) = Len(p) + Len(q)
      /\ \A i \in 1..Len(p) + Len(q) : (p \o q)[i] = IF i <= Len(p) THEN p[i] ELSE q[i - Len(p)]
  BY ConcatProperties
<1>3. ASSUME NEW i \in 1..Len(p)
      PROVE  (p \o q)[i] = p[i]
  BY <1>1, <1>2
<1>4. ASSUME NEW i \in 1..Len(q)
      PROVE  (p \o q)[Len(p) + i] = q[i]
  <2>1. Len(p) + i \in 1..Len(p) + Len(q) /\ ~(Len(p) + i <= Len(p)) /\ (Len(p) + i) - Len(p) = i
    BY <1>1
  <2> QED
    BY <1>2, <2>1
<1> QED
  BY <1>1, <1>2, <1>3, <1>4 DEF Cat

\* The second of them, when the length of the first is known.
LEMMA CatRight ==
  ASSUME NEW S, NEW p \in Seq(S), NEW q \in Seq(S), NEW l, l = Len(p), NEW i \in 1..Len(q)
  PROVE  Cat(p, q)[l + i] = q[i]
BY CatAt

\* Cutting two streams apart where they were joined.
LEMMA CatCut ==
  ASSUME NEW S, NEW p \in Seq(S), NEW q \in Seq(S)
  PROVE  Rest(Cat(p, q), Len(p)) = q
<1>1. Len(p) \in Nat /\ Len(q) \in Nat /\ Len(Cat(p, q)) = Len(p) + Len(q)
  BY CatAt
<1>2. SubSeq(Cat(p, q), Len(p) + 1, Len(p) + Len(q)) = q
  BY SubSeqOfConcat2, ConcatProperties DEF Cat
<1> QED
  BY <1>1, <1>2 DEF Rest

-----------------------------------------------------------------------------
(* What of a sequence comes after a prefix of it.                          *)

\* What comes behind any number of octets is a stream.
LEMMA RestType ==
  ASSUME NEW S, NEW q \in Seq(S), NEW n \in Nat
  PROVE  Rest(q, n) \in Seq(S)
<1> DEFINE l == Len(q)
<1>1. l \in Nat /\ n + 1 \in Int
  BY LenProperties
<1>2. CASE n + 1 > l
  <2>1. Rest(q, n) = <<>>
    BY <1>1, <1>2, SubSeqEmpty DEF Rest
  <2> QED
    BY <2>1, EmptySeq
<1>3. CASE ~(n + 1 > l)
  <2>1. n \in 0..l
    BY <1>1, <1>3
  <2> QED
    BY <2>1, CutFacts
<1> QED
  BY <1>2, <1>3

\* An octet added at the end is added to what comes behind a prefix.
LEMMA RestOfAppend ==
  ASSUME NEW S, NEW q \in Seq(S), NEW d \in S, NEW k \in 0..Len(q)
  PROVE  Rest(Append(q, d), k) = Append(Rest(q, k), d)
<1> DEFINE t == Taken(q, k)
           r == Rest(q, k)
<1>1. t \in Seq(S) /\ Len(t) = k /\ r \in Seq(S) /\ Cat(t, r) = q
  BY CutFacts DEF Cat
<1> HIDE DEF t, r
<1>2. Append(q, d) = Cat(t, Append(r, d)) /\ Append(r, d) \in Seq(S)
  BY <1>1, AppendLast, AppendProperties
<1>3. Rest(Cat(t, Append(r, d)), Len(t)) = Append(r, d)
  BY <1>1, <1>2, CatCut
<1> QED
  BY <1>1, <1>2, <1>3 DEF r

\* The octets behind a prefix.
LEMMA RestAt ==
  ASSUME NEW S, NEW q \in Seq(S), NEW k \in 0..Len(q), NEW i \in 1..(Len(q) - k)
  PROVE  Rest(q, k)[i] = q[k + i]
<1> DEFINE t == Taken(q, k)
           r == Rest(q, k)
<1>1. t \in Seq(S) /\ Len(t) = k /\ r \in Seq(S) /\ Cat(t, r) = q /\ Len(r) = Len(q) - k
  BY CutFacts DEF Cat
<1> HIDE DEF t, r
<1>2. i \in 1..Len(r) /\ k = Len(t)
  BY <1>1
<1>3. Cat(t, r)[k + i] = r[i]
  <2>1. \A j \in 1..Len(r) : Cat(t, r)[Len(t) + j] = r[j]
    <3>1. t \in Seq(S) /\ r \in Seq(S)
      BY <1>1
    <3> QED
      BY <3>1, CatAt
  <2> QED
    BY <1>2, <2>1
<1> QED
  BY <1>1, <1>3 DEF r

\* Cutting off twice is cutting off once.
LEMMA RestOfRest ==
  ASSUME NEW S, NEW q \in Seq(S), NEW k \in 0..Len(q), NEW n \in 0..(Len(q) - k)
  PROVE  Rest(Rest(q, k), n) = Rest(q, k + n)
<1> DEFINE t == Taken(q, k)
           r == Rest(q, k)
           u == Taken(r, n)
           v == Rest(r, n)
<1>1. t \in Seq(S) /\ Len(t) = k /\ r \in Seq(S) /\ Cat(t, r) = q /\ Len(r) = Len(q) - k
  BY CutFacts DEF Cat
<1> HIDE DEF t, r
<1>2. u \in Seq(S) /\ Len(u) = n /\ v \in Seq(S) /\ Cat(u, v) = r
  <2>1. n \in 0..Len(r)
    BY <1>1
  <2> QED
    BY <1>1, <2>1, CutFacts DEF Cat
<1> HIDE DEF u, v
<1>3. Cat(t, u) \in Seq(S) /\ Len(Cat(t, u)) = k + n
  <2>1. Cat(t, u) \in Seq(S) /\ Len(Cat(t, u)) = Len(t) + Len(u)
    <3>1. t \in Seq(S) /\ u \in Seq(S)
      BY <1>1, <1>2
    <3> QED
      BY <3>1, CatAt
  <2> QED
    BY <1>1, <1>2, <2>1
<1>4. Cat(Cat(t, u), v) = q
  BY <1>1, <1>2, CatAssoc
<1>5. Rest(Cat(Cat(t, u), v), Len(Cat(t, u))) = v
  BY <1>2, <1>3, CatCut
<1> QED
  BY <1>3, <1>4, <1>5 DEF v, r

\* A prefix and the octet behind it are a prefix.
LEMMA TakenNext ==
  ASSUME NEW S, NEW g \in Seq(S), NEW q \in Seq(S), IsPrefix(g, q), Len(g) + 1 \in 1..Len(q)
  PROVE  IsPrefix(Append(g, q[Len(g) + 1]), q)
<1> DEFINE n == Len(g) + 1
           p == Append(g, q[n])
<1>1. /\ q[n] \in S /\ n \in 0..Len(q) /\ Len(g) \in Nat /\ g = Taken(q, Len(g))
  BY ElementOfSeq, LenProperties DEF IsPrefix
<1>2. p \in Seq(S) /\ Len(p) = n /\ p[n] = q[n] /\ \A i \in 1..Len(g) : p[i] = g[i]
  BY <1>1, AppendProperties
<1>3. Taken(q, n) \in Seq(S) /\ Len(Taken(q, n)) = n
  BY <1>1, CutFacts
<1>4. \A i \in 1..n : Taken(q, n)[i] = q[i]
  BY <1>1, SubSeqProperties DEF Taken
<1>5. \A i \in 1..Len(g) : g[i] = q[i]
  <2>1. \A i \in 1..Len(g) : Taken(q, Len(g))[i] = q[i]
    <3> DEFINE l == Len(g)
    <3>1. l \in Nat /\ l \in 0..Len(q)
      BY <1>1
    <3>2. \A i \in 1..l : i \in 1..Len(q) /\ q[i] \in S
      BY <3>1, ElementOfSeq
    <3> HIDE DEF l
    <3>3. \A i \in 1..l : SubSeq(q, 1, l)[i] = q[i]
      BY <3>1, <3>2, SubSeqProperties
    <3> QED
      BY <3>3 DEF l, Taken
  <2> QED
    BY <1>1, <2>1
<1> HIDE DEF p
<1>6. \A i \in 1..Len(p) : p[i] = Taken(q, n)[i]
  <2> SUFFICES ASSUME NEW i \in 1..Len(p)
               PROVE  p[i] = Taken(q, n)[i]
    OBVIOUS
  <2>1. i \in 1..n /\ (i = n \/ i \in 1..Len(g))
    BY <1>1, <1>2
  <2> QED
    BY <1>2, <1>4, <1>5, <2>1
<1> HIDE DEF n
<1>7. p = Taken(q, n)
  BY <1>2, <1>3, <1>6, SeqEqual
<1> QED
  BY <1>1, <1>2, <1>7 DEF IsPrefix, p, n

\* What of a stream comes after its prefix g, and the first element of that.
LEMMA AfterPrefix ==
  ASSUME NEW S, NEW g \in Seq(S), NEW q \in Seq(S), IsPrefix(g, q)
  PROVE  LET a == Rest(q, Len(g))
             k == Len(g) + 1
         IN /\ Len(g) \in 0..Len(q) /\ a \in Seq(S)
            /\ a = <<>> => g = q
            /\ a # <<>> => /\ k \in 1..Len(q) /\ a[1] = q[k] /\ a[Len(a)] = q[Len(q)]
                           /\ Rest(a, 1) = Rest(q, k)
                           /\ IsPrefix(Append(g, q[k]), q) /\ Len(Append(g, q[k])) = k
<1> DEFINE l == Len(g)
           m == Len(q)
           a == Rest(q, l)
<1>1. l \in Nat /\ m \in Nat /\ l <= m /\ l \in 0..m /\ g = Taken(q, l)
  BY LenProperties DEF IsPrefix
<1>2. a \in Seq(S) /\ Len(a) = m - l
  <2> HIDE DEF l
  <2> QED
    BY <1>1, CutFacts
<1>3. a = <<>> => g = q
  <2>1. CASE m = l
    BY <1>1, <2>1, CutAtEnds
  <2>2. CASE m # l
    <3>1. Len(a) # 0
      BY <1>1, <1>2, <2>2
    <3> QED
      BY <3>1, EmptySeq
  <2> QED
    BY <2>1, <2>2
<1>4. ASSUME a # <<>>
      PROVE  /\ l + 1 \in 1..m /\ a[1] = q[l + 1] /\ a[m - l] = q[m]
             /\ Rest(a, 1) = Rest(q, l + 1)
             /\ IsPrefix(Append(g, q[l + 1]), q) /\ Len(Append(g, q[l + 1])) = l + 1
  <2>1. Len(a) # 0
    <3> HIDE DEF a
    <3> QED
      BY <1>2, <1>4, EmptySeq
  <2>2. l < m /\ l + 1 \in 1..m /\ 1 \in 1..(m - l) /\ m - l \in 1..(m - l) /\ l + (m - l) = m
    BY <1>1, <1>2, <2>1
  <2>3. a[1] = q[l + 1] /\ a[m - l] = q[m]
    <3> HIDE DEF l
    <3>1. \A i \in 1..(Len(q) - l) : Rest(q, l)[i] = q[l + i]
      BY <1>1, RestAt
    <3> QED
      BY <2>2, <3>1
  <2>4. Rest(a, 1) = Rest(q, l + 1)
    <3> HIDE DEF l
    <3>1. 1 \in 0..(Len(q) - l)
      BY <1>1, <2>2
    <3> QED
      BY <1>1, <3>1, RestOfRest
  <2>5. IsPrefix(Append(g, q[l + 1]), q)
    BY <2>2, TakenNext
  <2>6. Len(Append(g, q[l + 1])) = l + 1
    <3>1. q[l + 1] \in S
      BY <2>2, ElementOfSeq
    <3> QED
      BY <3>1, AppendProperties
  <2> QED
    BY <2>2, <2>3, <2>4, <2>5, <2>6
<1> QED
  BY <1>1, <1>2, <1>3, <1>4
-----------------------------------------------------------------------------
(* Prefixes of prefixes, and the front of two streams joined.              *)

\* What a stream begins with, followed by the rest, is the stream.
LEMMA PrefixSplit ==
  ASSUME NEW S, NEW p \in Seq(S), NEW q \in Seq(S), IsPrefix(p, q)
  PROVE  \E r \in Seq(S) : q = Cat(p, r)
<1>1. Len(p) \in 0..Len(q) /\ p = Taken(q, Len(p))
  BY LenProperties DEF IsPrefix
<1> DEFINE rest == Rest(q, Len(p))
<1>2. rest \in Seq(S) /\ Taken(q, Len(p)) \o rest = q
  BY <1>1, CutFacts
<1> HIDE DEF rest
<1> QED
  BY <1>1, <1>2 DEF Cat

LEMMA PrefixTrans ==
  ASSUME NEW S, NEW p \in Seq(S), NEW q \in Seq(S), NEW r \in Seq(S), IsPrefix(p, q), IsPrefix(q, r)
  PROVE  IsPrefix(p, r)
<1>1. PICK t \in Seq(S) : r = Cat(q, t)
  BY PrefixSplit
<1> QED
  BY <1>1, PrefixGrows

\* The elements of a prefix are those of the stream.
LEMMA PrefixAt ==
  ASSUME NEW S, NEW p \in Seq(S), NEW q \in Seq(S), IsPrefix(p, q)
  PROVE  Len(p) <= Len(q) /\ \A i \in 1..Len(p) : q[i] = p[i]
<1>1. PICK t \in Seq(S) : q = Cat(p, t)
  BY PrefixSplit
<1> QED
  BY <1>1, CatAt DEF IsPrefix

\* The first octet of two streams joined is that of the first one.
LEMMA FrontOfCat ==
  ASSUME NEW S, NEW o \in Seq(S), NEW p \in Seq(S), o # <<>>
  PROVE  /\ Cat(o, p) # <<>> /\ Head(Cat(o, p)) = Head(o)
         /\ Tail(Cat(o, p)) = Cat(Tail(o), p)
<1> DEFINE h == Head(o)
           t == Tail(o)
           b == Cat(t, p)
<1>1. h \in S /\ t \in Seq(S) /\ <<h>> \in Seq(S)
  BY HeadTailProperties, EmptySeq
<1>2. o = Cat(<<h>>, t)
  <2>1. Cat(Append(<<>>, h), t) = Cat(<<>>, o)
    BY EmptySeq, ReadOne
  <2>2. Append(<<>>, h) = <<h>> /\ Cat(<<>>, o) = o
    BY CatEmpty
  <2> QED
    BY <2>1, <2>2
<1> HIDE DEF h, t
<1> DEFINE one == <<h>>
<1>3. one \in Seq(S) /\ b \in Seq(S) /\ Cat(o, p) = Cat(one, b) /\ Len(one) = 1 /\ one[1] = h
  <2>1. one \in Seq(S) /\ o = Cat(one, t) /\ Len(one) = 1 /\ one[1] = h
    BY <1>1, <1>2
  <2> HIDE DEF one
  <2>2. b \in Seq(S)
    BY <1>1, CatType
  <2>3. Cat(Cat(one, t), p) = Cat(one, Cat(t, p))
    BY <1>1, <2>1, CatAssoc
  <2> QED
    BY <2>1, <2>2, <2>3
<1> HIDE DEF b, one
<1>4. Cat(one, b) # <<>> /\ Head(Cat(one, b)) = h /\ Tail(Cat(one, b)) = b
  <2> DEFINE q == Cat(one, b)
  <2>1. one \in Seq(S) /\ b \in Seq(S)
    BY <1>3
  <2>2. q \in Seq(S) /\ Len(b) \in Nat /\ Len(q) = Len(one) + Len(b)
    BY <2>1, CatAt
  <2>3. q[1] = h /\ q # <<>>
    <3>1. 1 \in 1..Len(one)
      BY <1>3
    <3>2. q[1] = one[1]
      BY <2>1, <3>1, CatAt
    <3>3. Len(q) # 0
      BY <1>3, <2>2
    <3> QED
      BY <1>3, <3>2, <3>3, EmptySeq
  <2>4. Rest(q, Len(one)) = b
    BY <2>1, CatCut
  <2> HIDE DEF q
  <2>5. Head(q) = h
    BY <2>3
  <2>6. Tail(q) = b
    <3>1. Tail(q) = SubSeq(q, 2, Len(q))
      BY <2>2, <2>3, TailIsSubSeq
    <3>2. Rest(q, 1) = b
      BY <1>3, <2>4
    <3> QED
      BY <3>1, <3>2 DEF Rest
  <2> QED
    BY <2>3, <2>5, <2>6 DEF q
<1> QED
  BY <1>3, <1>4 DEF h, b, t

-----------------------------------------------------------------------------
(* Streams of frames.                                                      *)


\* Induction: a set with zero and all successors holds every natural number.
LEMMA NatBySteps ==
  ASSUME NEW S, 0 \in S, \A n \in Nat : n \in S => n + 1 \in S
  PROVE  \A n \in Nat : n \in S
<1> DEFINE R == OpToRel(<, Nat)
           T == Nat \ S
<1>1. IsWellFoundedOn(R, Nat)
  BY NatLessThanWellFounded
<1>2. \A m, n \in Nat : <<m, n>> \in R <=> m < n
  BY DEF OpToRel
<1>3. SUFFICES ASSUME T # {}
               PROVE  FALSE
  OBVIOUS
<1>4. PICK m \in T : \A n \in T : ~(<<n, m>> \in R)
  <2> HIDE DEF R
  <2> QED
    BY <1>1, <1>3, WFMin
<1>5. m \in Nat /\ m # 0 /\ m \notin S
  BY <1>4
<1>6. m - 1 \in Nat /\ m - 1 < m /\ (m - 1) + 1 = m
  BY <1>5
<1>7. m - 1 \notin T
  <2> HIDE DEF R, T
  <2>1. T \subseteq Nat
    BY DEF T
  <2> QED
    BY <1>2, <1>4, <1>6, <2>1
<1> QED
  BY <1>5, <1>6, <1>7

-----------------------------------------------------------------------------
(* Payload() is defined by recursion over the stream.                      *)

\* f is that recursion, up to the n-th octet of q.
Carries(q, m, f) ==
  f = [n \in 0..m |->
         IF n = 0 THEN <<>>
         ELSE IF IsHeader(q[n]) THEN f[n - 1] ELSE Append(f[n - 1], q[n])]

LEMMA CarriesExists ==
  ASSUME NEW q, NEW m \in Nat
  PROVE  \E f : Carries(q, m, f)
<1> DEFINE S == {n \in Nat : \E f : Carries(q, n, f)}
<1>1. 0 \in S
  <2>1. Carries(q, 0, [n \in 0..0 |-> <<>>])
    BY DEF Carries
  <2> QED
    BY <2>1
<1>2. ASSUME NEW n \in Nat, n \in S
      PROVE  n + 1 \in S
  <2>1. PICK f : Carries(q, n, f)
    BY <1>2
  <2> DEFINE next == IF IsHeader(q[n + 1]) THEN f[n] ELSE Append(f[n], q[n + 1])
             g == [i \in 0..n + 1 |-> IF i = n + 1 THEN next ELSE f[i]]
             h == [i \in 0..n + 1 |->
                     IF i = 0 THEN <<>>
                     ELSE IF IsHeader(q[i]) THEN g[i - 1] ELSE Append(g[i - 1], q[i])]
  <2>2. ASSUME NEW i \in 0..n + 1
        PROVE  g[i] = h[i]
    <3>1. CASE i = n + 1
      <4>1. g[i] = next /\ i # 0 /\ i - 1 = n /\ n \in 0..n + 1 /\ n # n + 1
        BY <3>1
      <4>2. g[n] = f[n]
        BY <4>1
      <4>3. h[i] = IF IsHeader(q[i]) THEN g[n] ELSE Append(g[n], q[i])
        BY <4>1
      <4> QED
        BY <3>1, <4>1, <4>2, <4>3
    <3>2. CASE i # n + 1
      <4>1. i \in 0..n /\ g[i] = f[i]
        BY <3>2
      <4>2. f[i] = IF i = 0 THEN <<>>
                   ELSE IF IsHeader(q[i]) THEN f[i - 1] ELSE Append(f[i - 1], q[i])
        BY <2>1, <4>1 DEF Carries
      <4>3. i # 0 => i - 1 \in 0..n + 1 /\ i - 1 # n + 1
        BY <4>1
      <4>4. i # 0 => g[i - 1] = f[i - 1]
        BY <4>3
      <4>5. h[i] = IF i = 0 THEN <<>>
                   ELSE IF IsHeader(q[i]) THEN g[i - 1] ELSE Append(g[i - 1], q[i])
        OBVIOUS
      <4> HIDE DEF g, h
      <4> QED
        BY <4>1, <4>2, <4>4, <4>5
    <3> QED
      BY <3>1, <3>2
  <2>3. g = h
    <3>1. DOMAIN g = 0..n + 1 /\ DOMAIN h = 0..n + 1
      OBVIOUS
    <3>2. g = [i \in DOMAIN g |-> g[i]] /\ h = [i \in DOMAIN h |-> h[i]]
      OBVIOUS
    <3> HIDE DEF g, h
    <3> QED
      BY <2>2, <3>1, <3>2
  <2>4. Carries(q, n + 1, g)
    <3> HIDE DEF next
    <3> QED
      BY <2>3 DEF Carries
  <2> QED
    BY <2>4
<1> HIDE DEF S
<1>3. m \in S
  BY <1>1, <1>2, NatBySteps
<1> QED
  BY <1>3 DEF S

\* Its values depend on the octets up to there only.
LEMMA CarriesAgree ==
  ASSUME NEW p, NEW q, NEW m \in Nat, NEW k \in Nat, m <= k, NEW f, NEW g,
         Carries(p, m, f), Carries(q, k, g), \A i \in 1..m : p[i] = q[i]
  PROVE  f[m] = g[m]
<1> DEFINE S == {n \in Nat : n <= m => f[n] = g[n]}
<1>1. \A n \in 0..m : f[n] = IF n = 0 THEN <<>>
                             ELSE IF IsHeader(p[n]) THEN f[n - 1] ELSE Append(f[n - 1], p[n])
  BY DEF Carries
<1>2. \A n \in 0..k : g[n] = IF n = 0 THEN <<>>
                             ELSE IF IsHeader(q[n]) THEN g[n - 1] ELSE Append(g[n - 1], q[n])
  BY DEF Carries
<1>3. 0 \in S
  BY <1>1, <1>2
<1>4. ASSUME NEW n \in Nat, n \in S
      PROVE  n + 1 \in S
  <2>1. SUFFICES ASSUME n + 1 <= m
                 PROVE  f[n + 1] = g[n + 1]
    OBVIOUS
  <2>2. /\ n + 1 \in 0..m /\ n + 1 \in 0..k /\ n + 1 \in 1..m /\ n + 1 # 0
        /\ (n + 1) - 1 = n /\ f[n] = g[n]
    BY <1>4, <2>1
  <2> QED
    BY <1>1, <1>2, <2>2
<1> HIDE DEF S
<1>5. m \in S
  BY <1>3, <1>4, NatBySteps
<1> QED
  BY <1>5 DEF S

\* So Payload() is the value of any such recursion.
LEMMA PayloadIs ==
  ASSUME NEW S, NEW q \in Seq(S), NEW f, Carries(q, Len(q), f)
  PROVE  Payload(q) = f[Len(q)]
<1> DEFINE c == CHOOSE g : Carries(q, Len(q), g)
<1>1. Len(q) \in Nat
  BY LenProperties
<1>2. Carries(q, Len(q), c)
  BY <1>1, CarriesExists
<1>3. Payload(q) = c[Len(q)]
  BY DEF Payload, Carries
<1> HIDE DEF c
<1>4. c[Len(q)] = f[Len(q)]
  BY <1>1, <1>2, CarriesAgree
<1> QED
  BY <1>3, <1>4

\* An empty stream carries nothing.
LEMMA PayloadEmpty == Payload(<<>>) = <<>>
<1>1. <<>> \in Seq({}) /\ Len(<<>>) = 0
  BY EmptySeq
<1>2. PICK f : Carries(<<>>, 0, f)
  BY CarriesExists
<1>3. f[0] = <<>>
  BY <1>2 DEF Carries
<1>4. Payload(<<>>) = f[0]
  BY <1>1, <1>2, PayloadIs
<1> QED
  BY <1>3, <1>4

\* One octet more is carried unless it is part of a header.
LEMMA PayloadAppend ==
  ASSUME NEW S, NEW q \in Seq(S), NEW e \in S
  PROVE  Payload(Append(q, e)) = IF IsHeader(e) THEN Payload(q) ELSE Append(Payload(q), e)
<1> DEFINE n == Len(q)
           p == Append(q, e)
<1>1. /\ n \in Nat /\ p \in Seq(S) /\ Len(p) = n + 1 /\ p[n + 1] = e
      /\ \A i \in 1..n : q[i] = p[i]
  BY LenProperties, AppendProperties
<1> HIDE DEF p
<1>2. PICK f : Carries(q, n, f)
  BY <1>1, CarriesExists
<1>3. PICK g : Carries(p, n + 1, g)
  BY <1>1, CarriesExists
<1>4. Payload(q) = f[n]
  BY <1>2, PayloadIs
<1>5. Payload(p) = g[n + 1]
  BY <1>1, <1>3, PayloadIs
<1>6. f[n] = g[n]
  <2> HIDE DEF n
  <2>1. n <= n + 1 /\ n + 1 \in Nat
    BY <1>1
  <2> QED
    BY <1>1, <1>2, <1>3, <2>1, CarriesAgree
<1>7. g[n + 1] = IF IsHeader(e) THEN g[n] ELSE Append(g[n], e)
  <2> HIDE DEF n
  <2>1. n + 1 \in 0..n + 1 /\ n + 1 # 0 /\ (n + 1) - 1 = n
    BY <1>1
  <2>2. g[n + 1] = IF n + 1 = 0 THEN <<>>
                   ELSE IF IsHeader(p[n + 1]) THEN g[(n + 1) - 1] ELSE Append(g[(n + 1) - 1], p[n + 1])
    BY <1>3, <2>1 DEF Carries
  <2> QED
    BY <1>1, <2>1, <2>2
<1> QED
  BY <1>4, <1>5, <1>6, <1>7 DEF p

\* The payload holds octets of the stream, and no header.
LEMMA PayloadType ==
  ASSUME NEW S, NEW q \in Seq(S)
  PROVE  Payload(q) \in Seq({e \in S : ~IsHeader(e)})
<1> DEFINE T == {e \in S : ~IsHeader(e)}
           N == {n \in Nat : \A p \in Seq(S) : Len(p) = n => Payload(p) \in Seq(T)}
<1>1. 0 \in N
  <2>1. \A p \in Seq(S) : Len(p) = 0 => p = <<>>
    BY EmptySeq
  <2> QED
    BY <2>1, PayloadEmpty, EmptySeq
<1>2. ASSUME NEW n \in Nat, n \in N
      PROVE  n + 1 \in N
  <2> SUFFICES ASSUME NEW p \in Seq(S), Len(p) = n + 1
               PROVE  Payload(p) \in Seq(T)
    OBVIOUS
  <2>1. p # <<>>
    BY EmptySeq
  <2>2. PICK r \in Seq(S), e \in S : p = Append(r, e)
    BY <2>1, SequenceEmptyOrAppend
  <2>3. Len(r) = n
    BY <2>2, AppendProperties, LenProperties
  <2>4. Payload(r) \in Seq(T)
    BY <1>2, <2>3
  <2> HIDE DEF T
  <2>5. CASE IsHeader(e)
    BY <2>2, <2>4, <2>5, PayloadAppend
  <2>6. CASE ~IsHeader(e)
    <3>1. e \in T
      BY <2>6 DEF T
    <3>2. Append(Payload(r), e) \in Seq(T)
      BY <2>4, <3>1, AppendProperties
    <3> QED
      BY <2>2, <2>6, <3>2, PayloadAppend
  <2> QED
    BY <2>5, <2>6
<1> HIDE DEF N, T
<1>3. Len(q) \in N
  BY <1>1, <1>2, NatBySteps, LenProperties
<1> QED
  BY <1>3 DEF N, T

LEMMA PayloadSeq ==
  ASSUME NEW S, NEW q \in Seq(S)
  PROVE  Payload(q) \in Seq(S)
<1> DEFINE T == {e \in S : ~IsHeader(e)}
<1>1. Payload(q) \in Seq(T) /\ T \subseteq S
  BY PayloadType
<1> HIDE DEF T
<1> QED
  BY <1>1, SeqMonotonic

\* What two streams carry, they carry when they are joined.
LEMMA PayloadCat ==
  ASSUME NEW S, NEW p \in Seq(S), NEW q \in Seq(S)
  PROVE  Payload(p \o q) = Payload(p) \o Payload(q)
<1> DEFINE N == {n \in Nat : \A r \in Seq(S) : Len(r) = n =>
                                Payload(Cat(p, r)) = Cat(Payload(p), Payload(r))}
<1>1. 0 \in N
  <2>1. \A r \in Seq(S) : Len(r) = 0 => r = <<>>
    BY EmptySeq
  <2>2. Cat(p, <<>>) = p /\ Cat(Payload(p), <<>>) = Payload(p)
    BY CatEmpty, PayloadSeq
  <2> QED
    BY <2>1, <2>2, PayloadEmpty
<1>2. ASSUME NEW n \in Nat, n \in N
      PROVE  n + 1 \in N
  <2> SUFFICES ASSUME NEW r \in Seq(S), Len(r) = n + 1
               PROVE  Payload(Cat(p, r)) = Cat(Payload(p), Payload(r))
    OBVIOUS
  <2>1. r # <<>>
    BY EmptySeq
  <2>2. PICK t \in Seq(S), e \in S : r = Append(t, e)
    BY <2>1, SequenceEmptyOrAppend
  <2>3. Len(t) = n
    BY <2>2, AppendProperties, LenProperties
  <2>4. Payload(Cat(p, t)) = Cat(Payload(p), Payload(t))
    BY <1>2, <2>3
  <2> HIDE DEF N
  <2>5. Cat(p, t) \in Seq(S) /\ Cat(p, r) = Append(Cat(p, t), e)
    BY <2>2, CatType, AppendLast
  <2>6. Payload(p) \in Seq(S) /\ Payload(t) \in Seq(S)
    BY PayloadSeq
  <2>7. Cat(Payload(p), Append(Payload(t), e)) = Append(Cat(Payload(p), Payload(t)), e)
    BY <2>6, AppendLast
  <2>8. Payload(Cat(p, r)) = IF IsHeader(e) THEN Payload(Cat(p, t)) ELSE Append(Payload(Cat(p, t)), e)
    BY <2>5, PayloadAppend
  <2>9. Payload(r) = IF IsHeader(e) THEN Payload(t) ELSE Append(Payload(t), e)
    BY <2>2, PayloadAppend
  <2> QED
    BY <2>4, <2>7, <2>8, <2>9
<1> HIDE DEF N
<1>3. Len(q) \in N
  BY <1>1, <1>2, NatBySteps, LenProperties
<1>4. Payload(Cat(p, q)) = Cat(Payload(p), Payload(q))
  BY <1>3 DEF N
<1> QED
  BY <1>4 DEF Cat

\* A stream without headers is its own payload.
LEMMA PayloadOfPlain ==
  ASSUME NEW S, NEW q \in Seq(S), \A i \in DOMAIN q : ~IsHeader(q[i])
  PROVE  Payload(q) = q
<1> DEFINE P(r) == \A i \in 1..Len(r) : ~IsHeader(r[i])
           N == {n \in Nat : \A r \in Seq(S) : Len(r) = n /\ P(r) => Payload(r) = r}
<1>1. 0 \in N
  <2>1. \A r \in Seq(S) : Len(r) = 0 => r = <<>>
    BY EmptySeq
  <2> QED
    BY <2>1, PayloadEmpty
<1>2. ASSUME NEW n \in Nat, n \in N
      PROVE  n + 1 \in N
  <2> SUFFICES ASSUME NEW r \in Seq(S), Len(r) = n + 1, P(r)
               PROVE  Payload(r) = r
    OBVIOUS
  <2>1. r # <<>>
    BY EmptySeq
  <2>2. PICK t \in Seq(S), e \in S : r = Append(t, e)
    BY <2>1, SequenceEmptyOrAppend
  <2>3. Len(t) = n /\ r[n + 1] = e /\ \A i \in 1..n : r[i] = t[i]
    BY <2>2, AppendProperties, LenProperties
  <2>4. ~IsHeader(e) /\ P(t)
    BY <2>3
  <2>5. Payload(t) = t
    BY <1>2, <2>3, <2>4
  <2> QED
    BY <2>2, <2>4, <2>5, PayloadAppend
<1>3. P(q)
  BY LenProperties
<1> HIDE DEF N, P
<1>4. Len(q) \in N
  BY <1>1, <1>2, NatBySteps, LenProperties
<1> QED
  BY <1>3, <1>4 DEF N

-----------------------------------------------------------------------------
(* Streams of whole datagrams.                                             *)

\* A header: its length and its octets.
LEMMA HeaderFacts ==
  ASSUME NEW n \in Nat
  PROVE  /\ HdrLen(n) \in {1, 2} /\ Len(Header(n)) = HdrLen(n)
         /\ Header(n)[HdrLen(n)] = <<"last", n>>
         /\ HdrLen(n) = 2 => Header(n)[1] = <<"more", n>>
         /\ \A i \in 1..HdrLen(n) : IsHeader(Header(n)[i])
         /\ Header(n) \in Seq(HeaderOctet)
<1> DEFINE a == <<"more", n>>
           b == <<"last", n>>
<1>1. a \in HeaderOctet /\ b \in HeaderOctet /\ IsHeader(a) /\ IsHeader(b)
  BY DEF HeaderOctet, IsHeader
<1> HIDE DEF a, b
<1>2. <<a, b>> \in Seq(HeaderOctet) /\ <<b>> \in Seq(HeaderOctet)
  BY <1>1
<1>3. CASE HdrLen(n) = 2
  <2>1. Header(n) = <<a, b>>
    BY <1>3 DEF Header, a, b
  <2>2. 1..2 = {1, 2}
    OBVIOUS
  <2> QED
    BY <1>1, <1>2, <1>3, <2>1, <2>2 DEF a, b
<1>4. CASE HdrLen(n) = 1
  <2>1. Header(n) = <<b>>
    BY <1>4 DEF Header, a, b
  <2>2. 1..1 = {1}
    OBVIOUS
  <2> QED
    BY <1>1, <1>2, <1>4, <2>1, <2>2 DEF a, b
<1> QED
  BY <1>3, <1>4 DEF HdrLen

\* Octets that begin with "more" or "last" are octets of headers.
TypedHeaders(S) == HeaderOctet \subseteq S /\ \A e \in S : IsHeader(e) => e \in HeaderOctet

LEMMA HeaderOctetParts ==
  ASSUME NEW S, TypedHeaders(S), NEW e \in S, IsHeader(e)
  PROVE  e[2] \in Nat /\ e[1] \in {"more", "last"} /\ e = <<e[1], e[2]>>
BY DEF TypedHeaders, HeaderOctet

\* The octets of a datagram with its header.
LEMMA FrameAt ==
  ASSUME NEW S, TypedHeaders(S), NEW data \in Seq(S)
  PROVE  LET n == Len(data)
             h == HdrLen(n)
             f == Frame(data)
         IN /\ n \in Nat /\ h \in {1, 2} /\ f \in Seq(S) /\ Len(f) = h + n
            /\ f[h] = <<"last", n>> /\ (h = 2 => f[1] = <<"more", n>>)
            /\ \A i \in 1..h : IsHeader(f[i])
            /\ \A i \in 1..n : f[h + i] = data[i]
            /\ f = Cat(Header(n), data)
<1> DEFINE n == Len(data)
           h == HdrLen(n)
<1>1. n \in Nat
  BY LenProperties
<1>2. Header(n) \in Seq(HeaderOctet) /\ HeaderOctet \subseteq S
  BY <1>1, HeaderFacts DEF TypedHeaders
<1>3. Header(n) \in Seq(S)
  BY <1>2, SeqMonotonic
<1>4. Frame(data) = Cat(Header(n), data)
  BY DEF Frame, Cat
<1>5. /\ h \in {1, 2} /\ Len(Header(n)) = h
      /\ Header(n)[h] = <<"last", n>> /\ (h = 2 => Header(n)[1] = <<"more", n>>)
      /\ \A i \in 1..h : IsHeader(Header(n)[i])
  BY <1>1, HeaderFacts
<1> HIDE DEF n, h
<1> DEFINE hdr == Header(n)
<1>6. /\ Cat(hdr, data) \in Seq(S) /\ Len(Cat(hdr, data)) = h + n
      /\ \A i \in 1..h : Cat(hdr, data)[i] = hdr[i]
      /\ \A i \in 1..n : Cat(hdr, data)[h + i] = data[i]
  <2>1. hdr \in Seq(S) /\ Len(hdr) = h
    BY <1>3, <1>5
  <2> HIDE DEF hdr
  <2>2. Cat(hdr, data) \in Seq(S) /\ Len(Cat(hdr, data)) = h + n
    BY <2>1, CatAt DEF n
  <2>3. \A i \in 1..h : Cat(hdr, data)[i] = hdr[i]
    BY <2>1, CatAt
  <2>4. \A i \in 1..n : Cat(hdr, data)[h + i] = data[i]
    BY <2>1, CatRight DEF n
  <2> QED
    BY <2>2, <2>3, <2>4
<1>7. h \in 1..h /\ (h = 2 => 1 \in 1..h)
  BY <1>5
<1> QED
  BY <1>1, <1>4, <1>5, <1>6, <1>7 DEF n, h

\* A datagram with its header carries just the datagram.
LEMMA PayloadOfFrame ==
  ASSUME NEW S, TypedHeaders(S), NEW data \in Seq(S), \A i \in DOMAIN data : ~IsHeader(data[i])
  PROVE  Payload(Frame(data)) = data
<1> DEFINE n == Len(data)
           hdr == Header(n)
<1>1. n \in Nat
  BY LenProperties
<1>2. hdr \in Seq(HeaderOctet) /\ hdr \in Seq(S)
  <2>1. Header(n) \in Seq(HeaderOctet) /\ HeaderOctet \subseteq S
    BY <1>1, HeaderFacts DEF TypedHeaders
  <2> QED
    BY <2>1, SeqMonotonic
<1>3. Payload(hdr) = <<>>
  <2> DEFINE T == {e \in HeaderOctet : ~IsHeader(e)}
  <2>1. T = {}
    BY DEF HeaderOctet, IsHeader
  <2>2. Payload(hdr) \in Seq(T)
    BY <1>2, PayloadType
  <2>3. Payload(hdr) \in Seq({})
    BY <2>1, <2>2
  <2> HIDE DEF hdr
  <2>4. Len(Payload(hdr)) \in Nat /\ \A i \in 1..Len(Payload(hdr)) : Payload(hdr)[i] \in {}
    BY <2>3, LenProperties, ElementOfSeq
  <2>5. Payload(hdr) # <<>> => Len(Payload(hdr)) \in Nat \ {0}
    BY <2>3, EmptySeq
  <2> QED
    BY <2>4, <2>5
<1>4. Payload(data) = data
  BY PayloadOfPlain
<1>5. Payload(hdr \o data) = Payload(hdr) \o Payload(data)
  BY <1>2, PayloadCat
<1>6. <<>> \o data = data
  BY ConcatEmptySeq
<1> QED
  BY <1>3, <1>4, <1>5, <1>6 DEF Frame

\* A datagram joins whole datagrams.
LEMMA JoinFrame ==
  ASSUME NEW S, TypedHeaders(S), NEW q \in Seq(S), NEW data \in Seq(S),
         \A i \in DOMAIN data : ~IsHeader(data[i]), WellFramed(q)
  PROVE  WellFramed(q \o Frame(data))
<1> DEFINE l == Len(q)
           n == Len(data)
           h == HdrLen(n)
           f == Frame(data)
           p == Cat(q, f)
<1>1. /\ n \in Nat /\ h \in {1, 2} /\ f \in Seq(S) /\ Len(f) = h + n
      /\ f[h] = <<"last", n>> /\ (h = 2 => f[1] = <<"more", n>>)
      /\ \A i \in 1..h : IsHeader(f[i])
      /\ \A i \in 1..n : f[h + i] = data[i]
  BY FrameAt
<1>2. \A i \in 1..n : ~IsHeader(data[i])
  BY LenProperties
<1> HIDE DEF n, h, f
<1>3. /\ l \in Nat /\ p \in Seq(S) /\ Len(p) = l + h + n
      /\ \A i \in 1..l : p[i] = q[i]
      /\ \A i \in 1..h + n : p[l + i] = f[i]
  <2>6. f \in Seq(S)
    BY <1>1
  <2>1. l \in Nat /\ p \in Seq(S) /\ Len(p) = l + Len(f)
    BY <2>6, CatAt
  <2>2. \A i \in 1..l : p[i] = q[i]
    BY <2>6, CatAt
  <2>7. \A i \in 1..Len(f) : Cat(q, f)[Len(q) + i] = f[i]
    <3> HIDE DEF p, l
    <3> QED
      BY <2>6, CatAt
  <2>3. \A i \in 1..Len(f) : p[l + i] = f[i]
    BY <2>7
  <2>4. Len(f) = h + n
    BY <1>1
  <2> HIDE DEF p, l
  <2>5. l + (h + n) = l + h + n
    BY <1>1, <2>1
  <2> QED
    BY <2>1, <2>2, <2>3, <2>4, <2>5
<1>4. /\ \A i \in 1..l : q[i] \in S
      /\ DOMAIN p = 1..l + h + n /\ DOMAIN q = 1..l
  <2> HIDE DEF p
  <2> QED
    BY <1>3, LenProperties, ElementOfSeq
<1> HIDE DEF p
<1>5. IsHeader(p[1]) /\ IsHeader(p[l + 1])
  <2>1. 1 \in 1..h /\ 1 \in 1..h + n
    BY <1>1
  <2>2. IsHeader(p[l + 1])
    BY <1>1, <1>3, <2>1
  <2>3. CASE l = 0
    BY <1>3, <2>2, <2>3
  <2>4. CASE l # 0
    <3>1. 1 \in 1..l /\ q # <<>>
      BY <1>3, <2>4, EmptySeq
    <3> QED
      BY <1>3, <2>2, <3>1 DEF WellFramed
  <2> QED
    BY <2>3, <2>4
<1>6. ASSUME NEW i \in DOMAIN p
      PROVE  /\ p[i][1] = "more" => i < Len(p) /\ p[i + 1] = <<"last", p[i][2]>>
             /\ p[i][1] = "last" =>
                  LET end == i + p[i][2]
                  IN /\ end <= Len(p)
                     /\ \A j \in (i + 1)..end : ~IsHeader(p[j])
                     /\ end < Len(p) => IsHeader(p[end + 1])
  <2>1. CASE i <= l
    <3>1. i \in 1..l /\ p[i] = q[i] /\ q # <<>>
      BY <1>3, <1>4, <2>1, EmptySeq
    <3>2. /\ q[i][1] = "more" => i < l /\ q[i + 1] = <<"last", q[i][2]>>
          /\ q[i][1] = "last" =>
               /\ i + q[i][2] <= l
               /\ \A j \in (i + 1)..(i + q[i][2]) : ~IsHeader(q[j])
               /\ i + q[i][2] < l => IsHeader(q[i + q[i][2] + 1])
      BY <1>4, <3>1 DEF WellFramed
    <3>3. CASE p[i][1] = "more"
      <4>1. i + 1 \in 1..l
        BY <1>3, <3>1, <3>2, <3>3
      <4> QED
        BY <1>1, <1>3, <3>1, <3>2, <3>3, <4>1
    <3>4. CASE p[i][1] = "last"
      <4> DEFINE k == q[i][2]
      <4>1. k \in Nat
        <5>1. IsHeader(q[i])
          BY <3>1, <3>4 DEF IsHeader
        <5> QED
          BY <1>4, <3>1, <5>1, HeaderOctetParts
      <4>2. /\ i + k <= l /\ (i + k < l => IsHeader(q[i + k + 1]))
            /\ \A j \in (i + 1)..(i + k) : ~IsHeader(q[j])
        BY <3>1, <3>2, <3>4
      <4>3. p[i][2] = k
        BY <3>1
      <4> HIDE DEF k
      <4>4. \A j \in (i + 1)..(i + k) : ~IsHeader(p[j])
        <5> SUFFICES ASSUME NEW j \in (i + 1)..(i + k)
                     PROVE  ~IsHeader(p[j])
          OBVIOUS
        <5>1. j \in 1..l
          BY <1>3, <3>1, <4>1, <4>2
        <5> QED
          BY <1>3, <4>2, <5>1
      <4>5. IsHeader(p[i + k + 1])
        <5>1. CASE i + k = l
          BY <1>5, <5>1
        <5>2. CASE i + k < l
          <6>1. i + k + 1 \in 1..l
            BY <1>3, <3>1, <4>1, <5>2
          <6> QED
            BY <1>3, <4>2, <5>2, <6>1
        <5> QED
          BY <1>3, <3>1, <4>1, <4>2, <5>1, <5>2
      <4>6. i + k <= Len(p)
        BY <1>1, <1>3, <3>1, <4>1, <4>2
      <4> QED
        BY <3>4, <4>3, <4>4, <4>5, <4>6
    <3> QED
      BY <3>3, <3>4
  <2>2. CASE i > l
    <3> DEFINE j == i - l
    <3>1. j \in 1..h + n /\ i = l + j /\ p[i] = f[j]
      BY <1>1, <1>3, <1>4, <2>2
    <3> HIDE DEF j
    <3>2. CASE j > h
      <4> DEFINE k == j - h
      <4>1. k \in 1..n /\ j = h + k
        BY <1>1, <3>1, <3>2
      <4> HIDE DEF k
      <4>2. ~IsHeader(p[i])
        BY <1>1, <1>2, <3>1, <4>1
      <4> QED
        BY <4>2 DEF IsHeader
    <3>3. CASE j = h
      <4>1. p[i] = <<"last", n>> /\ i + n = Len(p)
        BY <1>1, <1>3, <3>1, <3>3
      <4>2. ASSUME NEW m \in (i + 1)..(i + n)
            PROVE  ~IsHeader(p[m])
        <5> DEFINE k == m - i
        <5>1. k \in 1..n /\ m = l + (h + k) /\ h + k \in 1..h + n
          BY <1>1, <1>3, <3>1, <3>3
        <5> HIDE DEF k
        <5> QED
          BY <1>1, <1>2, <1>3, <5>1
      <4>3. p[i][1] = "last" /\ p[i][2] = n /\ p[i][1] # "more"
        BY <4>1
      <4>4. i + n <= Len(p) /\ ~(i + n < Len(p))
        BY <1>1, <1>3, <4>1
      <4> QED
        BY <4>2, <4>3, <4>4
    <3>4. CASE j < h
      <4>1. j = 1 /\ h = 2
        BY <1>1, <3>1, <3>4
      <4>2. p[i] = <<"more", n>>
        BY <1>1, <3>1, <4>1
      <4>3. i < Len(p) /\ i + 1 = l + 2 /\ 2 \in 1..h + n
        BY <1>1, <1>3, <3>1, <4>1
      <4>4. p[i + 1] = <<"last", n>>
        BY <1>1, <1>3, <4>1, <4>3
      <4>5. p[i][1] = "more" /\ p[i][2] = n /\ p[i][1] # "last"
        BY <4>2
      <4> QED
        BY <4>3, <4>4, <4>5
    <3> QED
      BY <1>1, <3>1, <3>2, <3>3, <3>4
  <2> QED
    BY <1>3, <1>4, <2>1, <2>2
<1>7. WellFramed(p)
  BY <1>5, <1>6 DEF WellFramed
<1> QED
  BY <1>7 DEF p, f, Cat

\* So does one of a size and with a header that the other end accepts.
LEMMA JoinInStep ==
  ASSUME NEW S, TypedHeaders(S), NEW q \in Seq(S), NEW data \in Seq(S),
         \A i \in DOMAIN data : ~IsHeader(data[i]), Len(data) \in 1..MaxDgm, InStep(q)
  PROVE  InStep(q \o Frame(data))
<1> DEFINE l == Len(q)
           n == Len(data)
           h == HdrLen(n)
           f == Frame(data)
           p == Cat(q, f)
<1>1. /\ n \in Nat /\ h \in {1, 2} /\ f \in Seq(S) /\ Len(f) = h + n
      /\ f[h] = <<"last", n>> /\ (h = 2 => f[1] = <<"more", n>>)
      /\ \A i \in 1..n : f[h + i] = data[i]
  BY FrameAt
<1>2. \A i \in 1..n : ~IsHeader(data[i])
  BY LenProperties
<1>3. n \in 1..MaxDgm
  OBVIOUS
<1>4. h = HdrLen(n)
  OBVIOUS
<1>5. WellFramed(p)
  BY JoinFrame DEF InStep, Cat
<1> HIDE DEF n, h, f
<1>6. f \in Seq(S) /\ Len(f) = h + n
  BY <1>1
<1>7. l \in Nat /\ p \in Seq(S) /\ Len(p) = l + (h + n)
  BY <1>6, CatAt
<1>8. \A i \in 1..l : p[i] = q[i]
  BY <1>6, CatAt
<1>9. \A i \in 1..h + n : p[l + i] = f[i]
  <2>1. f \in Seq(S)
    BY <1>6
  <2>2. \A i \in 1..Len(f) : Cat(q, f)[Len(q) + i] = f[i]
    <3> HIDE DEF p, l
    <3> QED
      BY <2>1, CatAt
  <2> QED
    BY <1>6, <2>2
<1>10. DOMAIN p = 1..(l + (h + n)) /\ DOMAIN q = 1..l
  <2> HIDE DEF p
  <2> QED
    BY <1>7, LenProperties
<1> HIDE DEF p, l
<1>11. ASSUME NEW i \in DOMAIN p
       PROVE  /\ IsHeader(p[i]) => p[i][2] \in 1..MaxDgm
              /\ p[i][1] = "more" => HdrLen(p[i][2]) = 2
              /\ p[i][1] = "last" /\ HdrLen(p[i][2]) = 2 => i > 1 /\ p[i - 1] = <<"more", p[i][2]>>
  <2>1. CASE i <= l
    <3>1. i \in 1..l /\ p[i] = q[i] /\ (i > 1 => p[i - 1] = q[i - 1])
      BY <1>7, <1>8, <1>10, <2>1
    <3>2. /\ IsHeader(q[i]) => q[i][2] \in 1..MaxDgm
          /\ q[i][1] = "more" => HdrLen(q[i][2]) = 2
          /\ q[i][1] = "last" /\ HdrLen(q[i][2]) = 2 => i > 1 /\ q[i - 1] = <<"more", q[i][2]>>
      BY <1>10, <3>1 DEF InStep
    <3> QED
      BY <3>1, <3>2
  <2>2. CASE i > l
    <3> DEFINE j == i - l
    <3>1. j \in 1..h + n /\ i = l + j /\ p[i] = f[j]
      BY <1>1, <1>7, <1>9, <1>10, <2>2
    <3> HIDE DEF j
    <3>2. CASE j > h
      <4> DEFINE k == j - h
      <4>1. k \in 1..n /\ j = h + k
        BY <1>1, <3>1, <3>2
      <4> HIDE DEF k
      <4>2. ~IsHeader(p[i])
        BY <1>1, <1>2, <3>1, <4>1
      <4> QED
        BY <4>2 DEF IsHeader
    <3>3. CASE j = h
      <4>1. p[i] = <<"last", n>>
        BY <1>1, <3>1, <3>3
      <4>2. p[i][1] = "last" /\ p[i][2] = n /\ p[i][1] # "more"
        BY <4>1
      <4>3. h = 2 => i > 1 /\ p[i - 1] = <<"more", n>>
        <5>1. h = 2 => i = l + 2 /\ i - 1 = l + 1 /\ 1 \in 1..h + n
          BY <1>1, <1>7, <3>1, <3>3
        <5>2. h = 2 => p[l + 1] = <<"more", n>>
          BY <1>1, <1>9, <5>1
        <5> QED
          BY <1>7, <5>1, <5>2
      <4> QED
        BY <1>3, <1>4, <4>2, <4>3
    <3>4. CASE j < h
      <4>1. j = 1 /\ h = 2
        BY <1>1, <3>1, <3>4
      <4>2. p[i] = <<"more", n>>
        BY <1>1, <3>1, <4>1
      <4>3. p[i][1] = "more" /\ p[i][2] = n /\ p[i][1] # "last"
        BY <4>2
      <4> QED
        BY <1>3, <1>4, <4>1, <4>3
    <3> QED
      BY <1>1, <3>1, <3>2, <3>3, <3>4
  <2> QED
    BY <1>7, <1>10, <2>1, <2>2
<1>12. InStep(p)
  BY <1>5, <1>11 DEF InStep
<1> QED
  BY <1>12 DEF p, f, Cat

\* Whole datagrams remain when the first is taken off, which holds no header
\* but its own.
LEMMA DropFrame ==
  ASSUME NEW S, TypedHeaders(S), NEW q \in Seq(S), NEW data \in Seq(S), InStep(Frame(data) \o q)
  PROVE  InStep(q) /\ \A i \in DOMAIN data : ~IsHeader(data[i])
<1> DEFINE n == Len(data)
           h == HdrLen(n)
           f == Frame(data)
           l == h + n
           p == Cat(f, q)
<1>1. /\ n \in Nat /\ h \in {1, 2} /\ f \in Seq(S) /\ Len(f) = l
      /\ f[h] = <<"last", n>>
      /\ \A i \in 1..n : f[h + i] = data[i]
  BY FrameAt
<1>2. InStep(p)
  BY DEF Cat
<1>3. f \in Seq(S) /\ Len(f) = l
  BY <1>1
<1>4. DOMAIN data = 1..n
  BY LenProperties
<1> HIDE DEF n, h, f
<1>5. p \in Seq(S) /\ Len(p) = l + Len(q) /\ Len(q) \in Nat
  BY <1>3, CatAt
<1>6. \A i \in 1..l : p[i] = f[i]
  <2>1. \A i \in 1..Len(f) : Cat(f, q)[i] = f[i]
    <3> HIDE DEF p, l
    <3> QED
      BY <1>3, CatAt
  <2> QED
    BY <1>3, <2>1
<1>7. \A i \in 1..Len(q) : p[l + i] = q[i]
  <2> HIDE DEF l
  <2> QED
    BY <1>3, CatRight
<1>8. DOMAIN p = 1..(l + Len(q)) /\ DOMAIN q = 1..Len(q) /\ p # <<>>
  <2> HIDE DEF p
  <2>1. 1 \in 1..l
    BY <1>1
  <2> QED
    BY <1>1, <1>5, <2>1, LenProperties, EmptySeq
<1>9. \A i \in 1..Len(q) : q[i] \in S
  BY ElementOfSeq
<1> HIDE DEF p
<1>10. p[h] = <<"last", n>> /\ h \in DOMAIN p /\ h \in 1..l
  BY <1>1, <1>5, <1>6, <1>8
<1>11. /\ \A j \in (h + 1)..(h + n) : ~IsHeader(p[j])
       /\ h + n < Len(p) => IsHeader(p[h + n + 1])
  <2>1. p[h][1] = "last" /\ p[h][2] = n
    BY <1>10
  <2> QED
    BY <1>2, <1>8, <1>10, <2>1 DEF InStep, WellFramed
<1>12. ASSUME NEW i \in 1..n
       PROVE  ~IsHeader(data[i])
  <2>1. h + i \in (h + 1)..(h + n) /\ h + i \in 1..l
    BY <1>1
  <2> QED
    BY <1>1, <1>6, <1>11, <2>1
<1>13. p[l] # <<"more", n>> /\ p[l][1] # "more"
  <2>1. CASE n = 0
    <3>1. l = h
      BY <1>1, <2>1
    <3> QED
      BY <1>10, <3>1
  <2>2. CASE n # 0
    <3>1. l \in (h + 1)..(h + n)
      BY <1>1, <2>2
    <3>2. ~IsHeader(p[l])
      BY <1>11, <3>1
    <3> QED
      BY <3>2 DEF IsHeader
  <2> QED
    BY <2>1, <2>2
<1>14. q # <<>> => IsHeader(q[1])
  <2> SUFFICES ASSUME q # <<>>
               PROVE  IsHeader(q[1])
    OBVIOUS
  <2>1. 1 \in 1..Len(q) /\ h + n < Len(p) /\ l + 1 = h + n + 1
    BY <1>1, <1>5, EmptySeq
  <2> QED
    BY <1>7, <1>11, <2>1
<1> HIDE DEF l
<1>15. l \in Nat
  BY <1>1 DEF l
<1>16. ASSUME NEW i \in 1..Len(q)
       PROVE  /\ q[i][1] = "more" => i < Len(q) /\ q[i + 1] = <<"last", q[i][2]>>
              /\ q[i][1] = "last" =>
                   LET end == i + q[i][2]
                   IN /\ end <= Len(q)
                      /\ \A j \in (i + 1)..end : ~IsHeader(q[j])
                      /\ end < Len(q) => IsHeader(q[end + 1])
              /\ IsHeader(q[i]) => q[i][2] \in 1..MaxDgm
              /\ q[i][1] = "more" => HdrLen(q[i][2]) = 2
              /\ q[i][1] = "last" /\ HdrLen(q[i][2]) = 2 => i > 1 /\ q[i - 1] = <<"more", q[i][2]>>
  <2>1. p[l + i] = q[i] /\ l + i \in DOMAIN p
    BY <1>5, <1>7, <1>8, <1>15
  <2>2. /\ q[i][1] = "more" => l + i < Len(p) /\ p[l + i + 1] = <<"last", q[i][2]>>
        /\ q[i][1] = "last" =>
             /\ l + i + q[i][2] <= Len(p)
             /\ \A j \in (l + i + 1)..(l + i + q[i][2]) : ~IsHeader(p[j])
             /\ l + i + q[i][2] < Len(p) => IsHeader(p[l + i + q[i][2] + 1])
    BY <1>2, <1>8, <2>1 DEF InStep, WellFramed
  <2>3. /\ IsHeader(q[i]) => q[i][2] \in 1..MaxDgm
        /\ q[i][1] = "more" => HdrLen(q[i][2]) = 2
        /\ q[i][1] = "last" /\ HdrLen(q[i][2]) = 2 => p[l + i - 1] = <<"more", q[i][2]>>
    <3> DEFINE m == l + i
    <3>1. p[m] = q[i] /\ m \in DOMAIN p
      BY <2>1
    <3> HIDE DEF m
    <3>2. /\ IsHeader(p[m]) => p[m][2] \in 1..MaxDgm
          /\ p[m][1] = "more" => HdrLen(p[m][2]) = 2
          /\ p[m][1] = "last" /\ HdrLen(p[m][2]) = 2 => p[m - 1] = <<"more", p[m][2]>>
      BY <1>2, <3>1 DEF InStep
    <3>3. /\ IsHeader(q[i]) => q[i][2] \in 1..MaxDgm
          /\ q[i][1] = "more" => HdrLen(q[i][2]) = 2
          /\ q[i][1] = "last" /\ HdrLen(q[i][2]) = 2 => p[m - 1] = <<"more", q[i][2]>>
      BY <3>1, <3>2
    <3>4. m - 1 = l + i - 1
      BY <1>5, <1>15 DEF m
    <3> QED
      BY <3>3, <3>4
  <2>4. CASE q[i][1] = "more"
    <3>1. i < Len(q) /\ l + i + 1 = l + (i + 1) /\ i + 1 \in 1..Len(q)
      BY <1>5, <1>15, <2>2, <2>4
    <3>2. q[i + 1] = <<"last", q[i][2]>>
      BY <1>7, <2>2, <2>4, <3>1
    <3> QED
      BY <2>3, <2>4, <3>1, <3>2
  <2>5. CASE q[i][1] = "last"
    <3> DEFINE k == q[i][2]
    <3>1. k \in Nat
      <4>1. IsHeader(q[i])
        BY <2>5 DEF IsHeader
      <4> QED
        BY <1>9, <4>1, HeaderOctetParts
    <3>2. /\ l + i + k <= Len(p)
          /\ \A j \in (l + i + 1)..(l + i + k) : ~IsHeader(p[j])
          /\ l + i + k < Len(p) => IsHeader(p[l + i + k + 1])
      BY <2>2, <2>5
    <3> HIDE DEF k
    <3>3. i + k <= Len(q)
      BY <1>5, <1>15, <3>1, <3>2
    <3>4. ASSUME NEW j \in (i + 1)..(i + k)
          PROVE  ~IsHeader(q[j])
      <4>1. l + j \in (l + i + 1)..(l + i + k) /\ j \in 1..Len(q)
        BY <1>5, <1>15, <3>1, <3>3
      <4> QED
        BY <1>7, <3>2, <4>1
    <3>5. ASSUME i + k < Len(q)
          PROVE  IsHeader(q[i + k + 1])
      <4>1. l + i + k < Len(p) /\ i + k + 1 \in 1..Len(q) /\ l + i + k + 1 = l + (i + k + 1)
        BY <1>5, <1>15, <3>1, <3>5
      <4> QED
        BY <1>7, <3>2, <4>1
    <3>6. ASSUME HdrLen(k) = 2
          PROVE  i > 1 /\ q[i - 1] = <<"more", k>>
      <4>1. p[l + i - 1] = <<"more", k>>
        BY <2>3, <2>5, <3>6 DEF k
      <4>2. i # 1
        <5>1. i = 1 => l + i - 1 = l
          BY <1>15
        <5>2. p[l + i - 1][1] = "more"
          BY <4>1
        <5> QED
          BY <1>13, <5>1, <5>2
      <4>3. i > 1 /\ i - 1 \in 1..Len(q) /\ l + i - 1 = l + (i - 1)
        BY <1>5, <1>15, <4>2
      <4> QED
        BY <1>7, <4>1, <4>3
    <3> QED
      BY <2>3, <2>5, <3>3, <3>4, <3>5, <3>6 DEF k
  <2> QED
    BY <2>3, <2>4, <2>5
<1>17. InStep(q)
  BY <1>8, <1>14, <1>16 DEF InStep, WellFramed
<1> QED
  BY <1>4, <1>12, <1>17

-----------------------------------------------------------------------------
(* process_rx()                                                            *)

\* What it may return, whatever is in the receive buffer; short of a whole
\* datagram the buffer has room for more.
LEMMA ProcessRxTypes ==
  ASSUME NEW S, TypedHeaders(S), NEW rx \in Seq(S)
  PROVE  /\ ProcessRx(rx).is \in {"bad", "short", "dgm"}
         /\ ProcessRx(rx).data \in Seq(S) /\ ProcessRx(rx).rest \in Seq(S)
         /\ ProcessRx(rx).is # "dgm" => ProcessRx(rx).data = <<>> /\ ProcessRx(rx).rest = rx
         /\ ProcessRx(rx).is = "short" => Len(rx) < 2 + MaxDgm
<1> USE DgmAssumption
<1> DEFINE n == rx[1][2]
           h == HdrLen(n)
           dgm == [is |-> "dgm", data |-> SubSeq(rx, h + 1, h + n), rest |-> Rest(rx, h + n)]
<1>1. <<>> \in Seq(S) /\ Len(<<>>) = 0 /\ Len(rx) \in Nat
  BY EmptySeq, LenProperties
<1>2. CASE rx = <<>>
  <2>1. ProcessRx(rx) = Short(rx) /\ Len(rx) = 0
    BY <1>1, <1>2 DEF ProcessRx
  <2> QED
    BY <1>1, <2>1 DEF Short
<1>3. CASE rx # <<>> /\ ~IsHeader(rx[1])
  BY <1>1, <1>3 DEF ProcessRx, Bad
<1>4. CASE rx # <<>> /\ IsHeader(rx[1])
  <2>1. 1 \in 1..Len(rx)
    BY <1>1, <1>4, EmptySeq
  <2>2. n \in Nat /\ h \in {1, 2}
    <3>1. rx[1] \in S
      BY <2>1, ElementOfSeq
    <3> QED
      BY <1>4, <3>1, HeaderOctetParts DEF HdrLen
  <2>3. ProcessRx(rx) = IF Len(rx) < h THEN Short(rx)
                        ELSE IF n > MaxDgm THEN Bad(rx)
                        ELSE IF Len(rx) < h + n THEN Short(rx) ELSE dgm
    BY <1>4 DEF ProcessRx
  <2> HIDE DEF n, h
  <2>4. CASE Len(rx) < h
    BY <1>1, <2>2, <2>3, <2>4 DEF Short
  <2>5. CASE ~(Len(rx) < h) /\ n > MaxDgm
    BY <1>1, <2>3, <2>5 DEF Bad
  <2>6. CASE ~(Len(rx) < h) /\ ~(n > MaxDgm) /\ Len(rx) < h + n
    BY <1>1, <2>2, <2>3, <2>6 DEF Short
  <2>7. CASE ~(Len(rx) < h) /\ ~(n > MaxDgm) /\ ~(Len(rx) < h + n)
    <3>1. h + n \in 0..Len(rx) /\ h + 1 \in Int /\ h + n \in Int
      BY <1>1, <2>2, <2>7
    <3>2. \A i \in (h + 1)..(h + n) : rx[i] \in S
      <4>1. \A i \in (h + 1)..(h + n) : i \in 1..Len(rx)
        BY <1>1, <2>2, <3>1
      <4> QED
        BY <4>1, ElementOfSeq
    <3>3. SubSeq(rx, h + 1, h + n) \in Seq(S)
      BY <3>1, <3>2, SubSeqProperties
    <3>4. Rest(rx, h + n) \in Seq(S)
      BY <3>1, CutFacts
    <3> QED
      BY <2>3, <2>7, <3>3, <3>4
  <2> QED
    BY <2>4, <2>5, <2>6, <2>7
<1> QED
  BY <1>2, <1>3, <1>4

\* A datagram found in the buffer is the one that begins there, if what is in
\* the buffer and what follows it are whole datagrams, in step.
LEMMA ProcessRxTakesFirst ==
  ASSUME NEW S, TypedHeaders(S), NEW rx \in Seq(S), NEW later \in Seq(S),
         InStep(rx \o later), ProcessRx(rx).is # "short"
  PROVE  /\ ProcessRx(rx).is = "dgm"
         /\ rx = Cat(Frame(ProcessRx(rx).data), ProcessRx(rx).rest)
<1> USE DgmAssumption
<1> DEFINE n == rx[1][2]
           h == HdrLen(n)
           data == SubSeq(rx, h + 1, h + n)
           rest == Rest(rx, h + n)
           q == Cat(rx, later)
<1>1. rx # <<>> /\ Len(rx) \in Nat /\ 1 \in 1..Len(rx)
  <2>1. rx # <<>>
    BY DEF ProcessRx, Short
  <2> QED
    BY <2>1, EmptySeq
<1>2. InStep(q)
  BY DEF Cat
<1>3. q \in Seq(S) /\ Len(q) = Len(rx) + Len(later) /\ Len(later) \in Nat
  BY CatAt
<1>4. \A i \in 1..Len(rx) : q[i] = rx[i]
  BY CatAt
<1> HIDE DEF q
<1>5. DOMAIN q = 1..Len(q) /\ q # <<>> /\ \A i \in 1..Len(rx) : i \in DOMAIN q
  <2>1. DOMAIN q = 1..Len(q)
    BY <1>3, LenProperties
  <2>2. Len(<<>>) = 0 /\ Len(q) # 0
    BY <1>1, <1>3, EmptySeq
  <2> QED
    BY <1>1, <1>3, <2>1, <2>2
<1>6. IsHeader(rx[1]) /\ n \in 1..MaxDgm
  BY <1>1, <1>2, <1>4, <1>5 DEF InStep, WellFramed
<1>7. rx[1] = <<rx[1][1], n>> /\ rx[1][1] \in {"more", "last"} /\ h \in {1, 2}
  <2>1. rx[1] \in S
    BY <1>1, ElementOfSeq
  <2> QED
    BY <1>6, <2>1, HeaderOctetParts DEF HdrLen
<1>8. /\ rx[1][1] = "more" => h = 2 /\ q[2] = <<"last", n>>
      /\ rx[1][1] = "last" => h # 2
  <2>1. q[1] = rx[1] /\ 1 \in DOMAIN q
    BY <1>1, <1>4, <1>5
  <2>2. /\ q[1][1] = "more" => HdrLen(q[1][2]) = 2
        /\ q[1][1] = "last" /\ HdrLen(q[1][2]) = 2 => 1 > 1
    BY <1>2, <2>1 DEF InStep
  <2>3. q[1][1] = "more" => q[1 + 1] = <<"last", q[1][2]>>
    BY <1>2, <1>5, <2>1 DEF InStep, WellFramed
  <2> QED
    BY <2>1, <2>2, <2>3
<1>9. /\ ProcessRx(rx) = [is |-> "dgm", data |-> data, rest |-> rest]
      /\ h + n <= Len(rx)
  <2>1. ProcessRx(rx) = IF Len(rx) < h THEN Short(rx)
                        ELSE IF n > MaxDgm THEN Bad(rx)
                        ELSE IF Len(rx) < h + n THEN Short(rx)
                        ELSE [is |-> "dgm", data |-> data, rest |-> rest]
    BY <1>1, <1>6 DEF ProcessRx
  <2>2. Short(rx).is = "short"
    BY DEF Short
  <2>3. ~(n > MaxDgm)
    BY <1>6
  <2> HIDE DEF n, h, data, rest
  <2>4. ~(Len(rx) < h) /\ ~(Len(rx) < h + n)
    BY <2>1, <2>2, <2>3
  <2> QED
    BY <1>1, <1>6, <1>7, <2>1, <2>3, <2>4
<1>10. data \in Seq(S) /\ Len(data) = n
  <2> HIDE DEF n, h
  <2>1. h + 1 \in Int /\ h + n \in Int /\ h + 1 <= h + n /\ (h + n) - (h + 1) + 1 = n
    BY <1>6, <1>7
  <2>2. \A i \in (h + 1)..(h + n) : i \in 1..Len(rx)
    BY <1>1, <1>6, <1>7, <1>9
  <2>3. \A i \in (h + 1)..(h + n) : rx[i] \in S
    BY <2>2, ElementOfSeq
  <2> QED
    BY <2>1, <2>3, SubSeqProperties
<1>11. Header(n) = Taken(rx, h)
  <2>1. /\ Header(n) \in Seq(HeaderOctet) /\ Len(Header(n)) = h
        /\ Header(n)[h] = <<"last", n>> /\ (h = 2 => Header(n)[1] = <<"more", n>>)
    <3>1. n \in Nat /\ h = HdrLen(n)
      BY <1>6
    <3> HIDE DEF n, h
    <3> QED
      BY <3>1, HeaderFacts
  <2>2. Header(n) \in Seq(S)
    BY <2>1, SeqMonotonic DEF TypedHeaders
  <2> DEFINE hdr == Header(n)
             t == Taken(rx, h)
  <2>3. h \in 0..Len(rx)
    BY <1>1, <1>6, <1>7, <1>9
  <2>4. t \in Seq(S) /\ Len(t) = h
    BY <2>3, CutFacts
  <2>5. \A i \in 1..h : t[i] = rx[i]
    <3> HIDE DEF n, h
    <3>1. \A i \in 1..h : i \in 1..Len(rx)
      BY <1>1, <2>3
    <3>2. \A i \in 1..h : rx[i] \in S
      BY <3>1, ElementOfSeq
    <3>3. h \in Int /\ h - 1 + 1 = h /\ \A i \in 1..h : 1 + i - 1 = i
      BY <2>3
    <3> QED
      BY <3>2, <3>3, SubSeqProperties DEF Taken
  <2>6. \A i \in 1..h : hdr[i] = rx[i]
    <3>1. CASE rx[1][1] = "last"
      <4>1. h = 1 /\ rx[1] = <<"last", n>>
        BY <1>7, <1>8, <3>1
      <4>2. \A i \in 1..h : i = 1
        BY <4>1
      <4> QED
        BY <2>1, <4>1, <4>2
    <3>2. CASE rx[1][1] = "more"
      <4>1. h = 2 /\ rx[1] = <<"more", n>>
        BY <1>7, <1>8, <3>2
      <4>2. rx[2] = <<"last", n>>
        <5>1. 2 \in 1..Len(rx)
          BY <2>3, <4>1
        <5> QED
          BY <1>4, <1>8, <3>2, <5>1
      <4>3. \A i \in 1..h : i = 1 \/ i = 2
        BY <4>1
      <4> QED
        BY <2>1, <4>1, <4>2, <4>3
    <3> QED
      BY <1>7, <3>1, <3>2
  <2> HIDE DEF hdr, t, n, h
  <2>7. hdr \in Seq(S) /\ Len(hdr) = h
    BY <2>1, <2>2 DEF hdr
  <2>8. hdr = t
    BY <2>4, <2>5, <2>6, <2>7, SeqEqual
  <2> QED
    BY <2>8 DEF hdr, t
<1>12. Rest(rx, h) = Cat(data, rest)
  <2>1. h + 1 \in 1..Len(rx) + 1 /\ h + n \in (h + 1) - 1..Len(rx) /\ Len(rx) \in (h + n)..Len(rx)
    BY <1>1, <1>6, <1>7, <1>9
  <2> HIDE DEF n, h
  <2> QED
    BY <2>1, ConcatAdjacentSubSeq DEF Rest, Cat
<1>13. rx = Cat(Taken(rx, h), Cat(data, rest)) /\ Taken(rx, h) \in Seq(S) /\ rest \in Seq(S)
  <2>1. h \in 0..Len(rx) /\ h + n \in 0..Len(rx)
    BY <1>1, <1>6, <1>7, <1>9
  <2> HIDE DEF n, h, data
  <2> QED
    BY <1>12, <2>1, CutFacts DEF Cat
<1>14. rx = Cat(Cat(Header(n), data), rest)
  <2> HIDE DEF n, h, data, rest
  <2> QED
    BY <1>10, <1>11, <1>13, CatAssoc
<1>15. Frame(data) = Cat(Header(n), data)
  BY <1>10 DEF Frame, Cat
<1> QED
  BY <1>9, <1>14, <1>15

\* What taking a datagram out of the buffer does to the stream.
LEMMA ProcessRxFacts ==
  ASSUME NEW S, TypedHeaders(S), NEW rx \in Seq(S), NEW later \in Seq(S), InStep(rx \o later)
  PROVE  /\ ProcessRx(rx).is # "bad"
         /\ InStep(ProcessRx(rx).rest \o later)
         /\ \A i \in DOMAIN ProcessRx(rx).data : ~IsHeader(ProcessRx(rx).data[i])
         /\ Payload(rx) = ProcessRx(rx).data \o Payload(ProcessRx(rx).rest)
<1> DEFINE r == ProcessRx(rx)
<1>1. /\ r.is \in {"bad", "short", "dgm"} /\ r.data \in Seq(S) /\ r.rest \in Seq(S)
      /\ r.is # "dgm" => r.data = <<>> /\ r.rest = rx
  BY ProcessRxTypes
<1>2. CASE r.is = "short"
  <2>1. r.data = <<>> /\ r.rest = rx /\ Payload(rx) \in Seq(S)
    BY <1>1, <1>2, PayloadSeq
  <2>2. <<>> \o Payload(rx) = Payload(rx)
    BY <2>1, ConcatEmptySeq
  <2> HIDE DEF r
  <2>3. \A i \in DOMAIN <<>> : FALSE
    OBVIOUS
  <2>4. r.is # "bad" /\ InStep(r.rest \o later) /\ Payload(rx) = r.data \o Payload(r.rest)
    BY <1>2, <2>1, <2>2
  <2>5. \A i \in DOMAIN r.data : ~IsHeader(r.data[i])
    BY <2>1, <2>3
  <2> QED
    BY <2>4, <2>5 DEF r
<1>3. CASE r.is # "short"
  <2>1. r.is = "dgm" /\ rx = Cat(Frame(r.data), r.rest)
    BY <1>3, ProcessRxTakesFirst
  <2> HIDE DEF r
  <2>2. Frame(r.data) \in Seq(S) /\ Frame(r.data) = Cat(Header(Len(r.data)), r.data)
    BY <1>1, FrameAt
  <2>3. rx \o later = Frame(r.data) \o (r.rest \o later) /\ r.rest \o later \in Seq(S)
    <3> DEFINE f == Frame(r.data)
               t == r.rest
    <3>1. f \in Seq(S) /\ t \in Seq(S) /\ rx = Cat(f, t)
      BY <1>1, <2>1, <2>2
    <3> HIDE DEF f, t
    <3>2. Cat(Cat(f, t), later) = Cat(f, Cat(t, later)) /\ Cat(t, later) \in Seq(S)
      BY <3>1, CatAssoc, CatType
    <3> QED
      BY <3>1, <3>2 DEF Cat, f, t
  <2>4. InStep(r.rest \o later) /\ \A i \in DOMAIN r.data : ~IsHeader(r.data[i])
    BY <1>1, <2>3, DropFrame
  <2>5. Payload(rx) = r.data \o Payload(r.rest)
    <3>1. Payload(rx) = Payload(Frame(r.data)) \o Payload(r.rest)
      BY <1>1, <2>1, <2>2, PayloadCat DEF Cat
    <3>2. Payload(Frame(r.data)) = r.data
      BY <1>1, <2>4, PayloadOfFrame
    <3> QED
      BY <3>1, <3>2
  <2> QED
    BY <2>1, <2>4, <2>5 DEF r
<1> QED
  BY <1>2, <1>3

\* No empty datagram is found while the octets are in step.
LEMMA DatagramsHoldOctets ==
  ASSUME NEW S, TypedHeaders(S), NEW rx \in Seq(S), NEW later \in Seq(S), InStep(rx \o later),
         ProcessRx(rx).is = "dgm"
  PROVE  Len(ProcessRx(rx).data) \in 1..MaxDgm
<1> DEFINE data == ProcessRx(rx).data
           rest == ProcessRx(rx).rest
           f == Frame(data)
           n == Len(data)
           h == HdrLen(n)
           q == Cat(f, Cat(rest, later))
<1>1. rx = Cat(f, rest) /\ data \in Seq(S) /\ rest \in Seq(S)
  BY ProcessRxTakesFirst, ProcessRxTypes
<1>2. n \in Nat /\ h \in {1, 2} /\ f \in Seq(S) /\ Len(f) = h + n /\ f[h] = <<"last", n>>
  BY <1>1, FrameAt
<1> HIDE DEF data, rest, f, n, h
<1>3. Cat(Cat(f, rest), later) = q /\ Cat(rest, later) \in Seq(S)
  BY <1>1, <1>2, CatAssoc, CatType
<1>4. InStep(q)
  BY <1>1, <1>3 DEF Cat
<1>5. q[h] = f[h] /\ q \in Seq(S) /\ Len(q) = Len(f) + Len(Cat(rest, later)) /\ Len(Cat(rest, later)) \in Nat
  <2> DEFINE t == Cat(rest, later)
  <2>1. q = Cat(f, t) /\ t \in Seq(S) /\ f \in Seq(S) /\ h \in 1..Len(f)
    BY <1>2, <1>3
  <2> HIDE DEF q, t
  <2>2. /\ Cat(f, t) \in Seq(S) /\ Len(Cat(f, t)) = Len(f) + Len(t) /\ Len(t) \in Nat
        /\ \A i \in 1..Len(f) : Cat(f, t)[i] = f[i]
    BY <2>1, CatAt
  <2> QED
    BY <2>1, <2>2 DEF t
<1> HIDE DEF q
<1>6. h \in DOMAIN q
  <2>1. DOMAIN q = 1..Len(q)
    BY <1>5
  <2> QED
    BY <1>2, <1>5, <2>1
<1>7. q[h] = <<"last", n>>
  BY <1>2, <1>5
<1>8. q[h][2] = n /\ IsHeader(q[h])
  BY <1>7 DEF IsHeader
<1>9. n \in 1..MaxDgm
  BY <1>4, <1>6, <1>8 DEF InStep
<1> QED
  BY <1>9 DEF n, data


\* A stream of complete datagrams begins with one.
LEMMA WholeStreamIsLeftOver ==
  ASSUME NEW S, TypedHeaders(S), NEW q \in Seq(S), InStep(q), q # <<>>
  PROVE  ProcessRx(q).is # "short"
<1> DEFINE e == q[1]
           n == e[2]
           h == HdrLen(n)
<1>1. /\ Len(q) \in Nat \ {0} /\ DOMAIN q = 1..Len(q) /\ e \in S /\ IsHeader(e)
      /\ n \in Nat /\ e[1] \in {"more", "last"}
  <2>1. Len(q) \in Nat \ {0} /\ DOMAIN q = 1..Len(q)
    BY LenProperties, EmptySeq
  <2>2. e \in S /\ IsHeader(e)
    BY <2>1, ElementOfSeq DEF InStep, WellFramed
  <2> QED
    BY <2>1, <2>2, HeaderOctetParts
<1>2. n \in 1..MaxDgm /\ h \in {1, 2}
  BY <1>1 DEF InStep, HdrLen
<1>3. Len(q) >= h + n
  <2>1. CASE e[1] = "last"
    <3>1. h = 1
      BY <1>1, <1>2, <2>1 DEF InStep
    <3>2. 1 + n <= Len(q)
      BY <1>1, <2>1 DEF InStep, WellFramed
    <3> QED
      BY <3>1, <3>2
  <2>2. CASE e[1] = "more"
    <3>1. h = 2 /\ 1 < Len(q) /\ q[2] = <<"last", n>>
      BY <1>1, <2>2 DEF InStep, WellFramed
    <3>2. 2 + n <= Len(q)
      BY <1>1, <3>1 DEF InStep, WellFramed
    <3> QED
      BY <3>1, <3>2
  <2> QED
    BY <1>1, <2>1, <2>2
<1>4. ~(Len(q) < h) /\ ~(Len(q) < h + n)
  BY <1>1, <1>2, <1>3
<1> HIDE DEF h
<1>5. ProcessRx(q) = IF n > MaxDgm THEN Bad(q)
                     ELSE [is |-> "dgm", data |-> SubSeq(q, h + 1, h + n), rest |-> Rest(q, h + n)]
  BY <1>1, <1>4 DEF ProcessRx, h
<1> QED
  BY <1>5 DEF Bad

-----------------------------------------------------------------------------
(* Cutting a stream of datagrams in two, as the network does.              *)

\* A set of numbers that is not empty has a least one.
LEMMA LeastOf ==
  ASSUME NEW T, T \subseteq Nat, T # {}
  PROVE  \E m \in T : \A n \in T : m <= n
<1> DEFINE R == OpToRel(<, Nat)
<1>1. IsWellFoundedOn(R, Nat)
  BY NatLessThanWellFounded
<1>2. \A m, n \in Nat : <<m, n>> \in R <=> m < n
  BY DEF OpToRel
<1> HIDE DEF R
<1>3. PICK m \in T : \A n \in T : ~(<<n, m>> \in R)
  BY <1>1, WFMin
<1>4. \A n \in T : m \in Nat /\ n \in Nat /\ ~(n < m)
  BY <1>2, <1>3
<1>5. \A n \in T : m <= n
  BY <1>4
<1> QED
  BY <1>5

\* A part of a stream that is cut twice.
LEMMA TakenTwice ==
  ASSUME NEW S, NEW q \in Seq(S), NEW k \in 0..Len(q), NEW n \in 0..(Len(q) - k)
  PROVE  Cat(Taken(q, k), Taken(Rest(q, k), n)) = Taken(q, k + n)
<1> DEFINE r == Rest(q, k)
           t == Taken(q, k)
           v == Rest(r, n)
           u == Taken(r, n)
<1>1. /\ t \in Seq(S) /\ Len(t) = k /\ r \in Seq(S) /\ Len(r) = Len(q) - k /\ Cat(t, r) = q
      /\ Len(q) \in Nat
  BY CutFacts, LenProperties DEF Cat
<1> HIDE DEF t, r
<1>2. n \in 0..Len(r)
  BY <1>1
<1>3. u \in Seq(S) /\ Len(u) = n /\ v \in Seq(S) /\ Cat(u, v) = r
  BY <1>1, <1>2, CutFacts DEF Cat
<1> HIDE DEF u, v
<1>4. Cat(t, u) \in Seq(S) /\ Len(Cat(t, u)) = k + n
  BY <1>1, <1>3, CatAt
<1>5. q = Cat(Cat(t, u), v)
  BY <1>1, <1>3, CatAssoc
<1>6. IsPrefix(Cat(t, u), Cat(Cat(t, u), v))
  BY <1>3, <1>4, CatPrefix
<1>7. Cat(t, u) = Taken(q, k + n)
  BY <1>4, <1>5, <1>6 DEF IsPrefix
<1> QED
  BY <1>7 DEF t, u, r

\* What is taken from the front does not depend on what follows.
LEMMA TakenOfCat ==
  ASSUME NEW S, NEW a \in Seq(S), NEW f \in Seq(S), NEW m \in 0..Len(a)
  PROVE  Taken(Cat(a, f), m) = Taken(a, m)
<1> DEFINE t == Taken(a, m)
           r == Rest(a, m)
<1>1. t \in Seq(S) /\ Len(t) = m /\ r \in Seq(S) /\ Cat(t, r) = a
  BY CutFacts DEF Cat
<1> HIDE DEF t, r
<1>2. Cat(r, f) \in Seq(S) /\ Cat(a, f) = Cat(t, Cat(r, f))
  BY <1>1, CatType, CatAssoc
<1>3. IsPrefix(t, Cat(t, Cat(r, f)))
  BY <1>1, <1>2, CatPrefix
<1>4. t = Taken(Cat(a, f), m)
  BY <1>1, <1>2, <1>3 DEF IsPrefix
<1> QED
  BY <1>4 DEF t

\* One octet more moves from the front of a to the end of g.
LEMMA TakenAfterOne ==
  ASSUME NEW S, NEW g \in Seq(S), NEW a \in Seq(S), a # <<>>, NEW m \in Nat, m < Len(a)
  PROVE  Cat(Append(g, Head(a)), Taken(Tail(a), m)) = Cat(g, Taken(a, m + 1))
<1> DEFINE t == Taken(Tail(a), m)
           u == Taken(a, m + 1)
<1>1. Len(a) \in Nat \ {0} /\ Head(a) \in S /\ Tail(a) \in Seq(S) /\ Len(Tail(a)) = Len(a) - 1
  BY HeadTailProperties, EmptySeq, LenProperties
<1>2. m \in 0..Len(Tail(a)) /\ m + 1 \in 0..Len(a) /\ 1 \in 0..Len(a) /\ m \in 0..(Len(a) - 1)
      /\ 1 + m = m + 1
  BY <1>1
<1>3. Tail(a) = Rest(a, 1)
  BY TailIsSubSeq DEF Rest
<1>4. Cat(Taken(a, 1), Taken(Rest(a, 1), m)) = Taken(a, 1 + m)
  BY <1>2, TakenTwice
<1>5. Taken(a, 1) = <<Head(a)>>
  <2>1. Taken(a, 1) \in Seq(S) /\ Len(Taken(a, 1)) = 1
    BY <1>2, CutFacts
  <2>2. 1 \in 1..Len(a)
    BY <1>1
  <2>3. Taken(a, 1)[1] = a[1] /\ Head(a) = a[1]
    BY <1>1, <2>2 DEF Taken
  <2>4. <<Head(a)>> \in Seq(S) /\ Len(<<Head(a)>>) = 1 /\ <<Head(a)>>[1] = Head(a)
    BY <1>1
  <2> QED
    BY <2>1, <2>3, <2>4, SeqEqual
<1>6. t \in Seq(S)
  BY <1>1, <1>2, CutFacts
<1>7. u = Cat(<<Head(a)>>, t)
  BY <1>2, <1>3, <1>4, <1>5
<1> HIDE DEF t, u
<1>8. Cat(Append(g, Head(a)), t) = Cat(g, Cat(<<Head(a)>>, t))
  BY <1>1, <1>6, ShiftOne
<1>9. Cat(Append(g, Head(a)), t) = Cat(g, u)
  BY <1>7, <1>8
<1> QED
  BY <1>2, <1>9 DEF t, u

\* A stream of whole datagrams begins with one, and whole ones follow.
LEMMA FirstDatagram ==
  ASSUME NEW S, TypedHeaders(S), NEW q \in Seq(S), InStep(q), q # <<>>
  PROVE  \E data \in Seq(S), rest \in Seq(S) :
           /\ q = Cat(Frame(data), rest) /\ InStep(rest)
           /\ Len(data) \in 1..MaxDgm
           /\ \A i \in DOMAIN data : ~IsHeader(data[i])
<1> DEFINE data == ProcessRx(q).data
           rest == ProcessRx(q).rest
<1>1. <<>> \in Seq(S) /\ InStep(q \o <<>>)
  <2>1. <<>> \in Seq(S)
    BY EmptySeq
  <2>2. Cat(q, <<>>) = q
    BY CatEmpty
  <2> QED
    BY <2>1, <2>2 DEF Cat
<1>2. ProcessRx(q).is # "short"
  BY WholeStreamIsLeftOver
<1>3. ProcessRx(q).is = "dgm" /\ q = Cat(Frame(data), rest)
  BY <1>1, <1>2, ProcessRxTakesFirst
<1>4. data \in Seq(S) /\ rest \in Seq(S)
  BY ProcessRxTypes
<1>5. Len(data) \in 1..MaxDgm
  BY <1>1, <1>3, DatagramsHoldOctets
<1> HIDE DEF data, rest
<1>6. InStep(Frame(data) \o rest)
  BY <1>3 DEF Cat
<1>7. InStep(rest) /\ \A i \in DOMAIN data : ~IsHeader(data[i])
  BY <1>4, <1>6, DropFrame
<1> QED
  BY <1>3, <1>4, <1>5, <1>7

\* The end of a frame cut somewhere is missing, whatever comes before it.
LEMMA CutFrame ==
  ASSUME NEW S, TypedHeaders(S), NEW q \in Seq(S), NEW data \in Seq(S),
         NEW m \in 1..(Len(Frame(data)) - 1)
  PROVE  ~InStep(Cat(q, Taken(Frame(data), m)))
<1> DEFINE n == Len(data)
           h == HdrLen(n)
           f == Frame(data)
           t == Taken(f, m)
           l == Len(q)
           p == Cat(q, t)
<1>1. /\ n \in Nat /\ h \in {1, 2} /\ f \in Seq(S) /\ Len(f) = h + n
      /\ f[h] = <<"last", n>> /\ (h = 2 => f[1] = <<"more", n>>)
  BY FrameAt
<1>2. m \in 1..(Len(f) - 1)
  OBVIOUS
<1> HIDE DEF n, h, f
<1>3. m \in 0..Len(f) /\ m \in Nat \ {0} /\ m < h + n
  BY <1>1, <1>2
<1>4. t \in Seq(S) /\ Len(t) = m
  BY <1>1, <1>3, CutFacts
<1>5. \A i \in 1..m : t[i] = f[i]
  BY <1>1, <1>3 DEF t, Taken
<1> HIDE DEF t
<1>6. p \in Seq(S) /\ l \in Nat /\ Len(p) = l + m
  BY <1>4, CatAt
<1>7. \A i \in 1..m : p[l + i] = t[i]
  <2>1. t \in Seq(S)
    BY <1>4
  <2>2. \A i \in 1..Len(t) : Cat(q, t)[Len(q) + i] = t[i]
    <3> HIDE DEF p, l
    <3> QED
      BY <2>1, CatAt
  <2> QED
    BY <1>4, <2>2
<1> HIDE DEF p, l
<1>8. p # <<>> /\ DOMAIN p = 1..(l + m)
  <2>1. Len(<<>>) = 0
    OBVIOUS
  <2> QED
    BY <1>3, <1>6, <2>1, LenProperties
<1>9. SUFFICES ASSUME WellFramed(p)
               PROVE  FALSE
  BY DEF InStep, p, t, f
<1>10. CASE h <= m
  <2>1. h \in 1..m /\ l + h \in DOMAIN p
    BY <1>1, <1>3, <1>6, <1>8, <1>10
  <2>2. p[l + h] = <<"last", n>>
    BY <1>1, <1>5, <1>7, <2>1
  <2>3. p[l + h][1] = "last" /\ p[l + h][2] = n
    BY <2>2
  <2>4. l + h + n <= Len(p)
    BY <1>8, <1>9, <2>1, <2>3 DEF WellFramed
  <2> QED
    BY <1>1, <1>3, <1>6, <2>4
<1>11. CASE m < h
  <2>1. m = 1 /\ h = 2 /\ l + 1 \in DOMAIN p /\ 1 \in 1..m
    BY <1>1, <1>3, <1>6, <1>8, <1>11
  <2>2. p[l + 1] = <<"more", n>>
    BY <1>1, <1>5, <1>7, <2>1
  <2>3. p[l + 1][1] = "more"
    BY <2>2
  <2>4. l + 1 < Len(p)
    BY <1>8, <1>9, <2>1, <2>3 DEF WellFramed
  <2> QED
    BY <1>6, <2>1, <2>4
<1> QED
  BY <1>1, <1>3, <1>10, <1>11

\* Whole datagrams remain when whole ones are taken off.
LEMMA DropWhole ==
  ASSUME NEW S, TypedHeaders(S), NEW g \in Seq(S), NEW a \in Seq(S), InStep(g), InStep(Cat(g, a))
  PROVE  InStep(a)
<1> DEFINE Drops(n) == \A q \in Seq(S) :
                         Len(q) <= n /\ InStep(q) /\ InStep(Cat(q, a)) => InStep(a)
           N == {n \in Nat : Drops(n)}
<1>1. 0 \in N
  <2> SUFFICES ASSUME NEW q \in Seq(S), Len(q) <= 0, InStep(Cat(q, a))
               PROVE  InStep(a)
    OBVIOUS
  <2>1. Len(q) = 0
    BY LenProperties
  <2>2. q = <<>>
    BY <2>1, EmptySeq
  <2>3. Cat(<<>>, a) = a
    BY CatEmpty
  <2> QED
    BY <2>2, <2>3
<1>2. ASSUME NEW n \in Nat, n \in N
      PROVE  n + 1 \in N
  <2> SUFFICES ASSUME NEW q \in Seq(S), Len(q) <= n + 1, InStep(q), InStep(Cat(q, a))
               PROVE  InStep(a)
    OBVIOUS
  <2> HIDE DEF N
  <2>1. CASE q = <<>>
    <3>1. Cat(<<>>, a) = a
      BY CatEmpty
    <3> QED
      BY <2>1, <3>1
  <2>2. CASE q # <<>>
    <3>1. PICK data \in Seq(S), rest \in Seq(S) :
            q = Cat(Frame(data), rest) /\ InStep(rest) /\ Len(data) \in 1..MaxDgm
      BY <2>2, FirstDatagram
    <3>2. Frame(data) \in Seq(S) /\ Len(Frame(data)) = HdrLen(Len(data)) + Len(data)
          /\ HdrLen(Len(data)) \in {1, 2}
      BY FrameAt
    <3>3. Len(q) = Len(Frame(data)) + Len(rest) /\ Len(rest) \in Nat
      BY <3>1, <3>2, CatAt
    <3>4. Len(rest) <= n
      BY <3>1, <3>2, <3>3
    <3>5. Cat(q, a) = Cat(Frame(data), Cat(rest, a)) /\ Cat(rest, a) \in Seq(S)
      BY <3>1, <3>2, CatAssoc, CatType
    <3>6. InStep(Frame(data) \o Cat(rest, a))
      BY <3>5 DEF Cat
    <3>7. InStep(Cat(rest, a))
      BY <3>5, <3>6, DropFrame
    <3> QED
      BY <1>2, <3>1, <3>4, <3>7 DEF N
  <2> QED
    BY <2>1, <2>2
<1> HIDE DEF N
<1>3. \A n \in Nat : n \in N
  BY <1>1, <1>2, NatBySteps
<1>4. Len(g) \in Nat
  BY LenProperties
<1> QED
  BY <1>3, <1>4 DEF N

\* After g, whole datagrams are reached with n octets of a and with no fewer.
Completes(g, a, n) ==
  /\ n \in 0..Len(a) /\ InStep(Cat(g, Taken(a, n)))
  /\ \A m \in 0..(n - 1) : ~InStep(Cat(g, Taken(a, m)))

\* The octets that are missing of the last datagram of g, when a follows.
RestOf(g, a) == Taken(a, CHOOSE n \in 0..Len(a) : Completes(g, a, n))

LEMMA RestIs ==
  ASSUME NEW g, NEW a, NEW n, Completes(g, a, n)
  PROVE  RestOf(g, a) = Taken(a, n)
<1>1. n \in 0..Len(a) /\ \A m : Completes(g, a, m) => m = n
  <2>1. SUFFICES ASSUME NEW m, Completes(g, a, m)
                 PROVE  m = n
    BY DEF Completes
  <2>2. m \in Nat /\ n \in Nat
    BY <2>1 DEF Completes
  <2>3. ~(m < n)
    <3>1. m < n => m \in 0..(n - 1)
      BY <2>2
    <3> QED
      BY <2>1, <3>1 DEF Completes
  <2>4. ~(n < m)
    <3>1. n < m => n \in 0..(m - 1)
      BY <2>2
    <3> QED
      BY <2>1, <3>1 DEF Completes
  <2> QED
    BY <2>2, <2>3, <2>4
<1> HIDE DEF Completes
<1>2. (CHOOSE m \in 0..Len(a) : Completes(g, a, m)) = n
  BY <1>1
<1> QED
  BY <1>2 DEF RestOf

\* There is such a rest when all of a completes g.
LEMMA RestExists ==
  ASSUME NEW S, NEW g \in Seq(S), NEW a \in Seq(S), InStep(Cat(g, a))
  PROVE  \E n \in 0..Len(a) : Completes(g, a, n)
<1> DEFINE T == {n \in 0..Len(a) : InStep(Cat(g, Taken(a, n)))}
<1>1. Len(a) \in T /\ T \subseteq Nat
  <2>1. Taken(a, Len(a)) = a /\ Len(a) \in Nat
    BY CutAtEnds, LenProperties
  <2> QED
    BY <2>1
<1>2. T # {}
  BY <1>1
<1>3. PICK n \in T : \A m \in T : n <= m
  <2> HIDE DEF T
  <2> QED
    BY <1>1, <1>2, LeastOf
<1>4. \A m \in 0..(n - 1) : ~InStep(Cat(g, Taken(a, m)))
  <2> SUFFICES ASSUME NEW m \in 0..(n - 1), InStep(Cat(g, Taken(a, m)))
               PROVE  FALSE
    OBVIOUS
  <2>1. n \in 0..Len(a) /\ Len(a) \in Nat
    BY LenProperties
  <2>2. m \in 0..Len(a) /\ ~(n <= m)
    BY <2>1
  <2> QED
    BY <1>3, <2>2
<1> QED
  BY <1>4 DEF Completes

LEMMA RestFacts ==
  ASSUME NEW S, NEW g \in Seq(S), NEW a \in Seq(S), InStep(Cat(g, a))
  PROVE  /\ RestOf(g, a) \in Seq(S)
         /\ RestOf(g, a) = <<>> => InStep(g)
         /\ a = <<>> => RestOf(g, a) = <<>>
<1>1. PICK n \in 0..Len(a) : Completes(g, a, n)
  BY RestExists
<1>2. RestOf(g, a) = Taken(a, n)
  BY <1>1, RestIs
<1>3. Taken(a, n) \in Seq(S) /\ Len(Taken(a, n)) = n
  BY CutFacts
<1>4. Len(<<>>) = 0
  OBVIOUS
<1>5. RestOf(g, a) = <<>> => InStep(g)
  <2> SUFFICES ASSUME Taken(a, n) = <<>>
               PROVE  InStep(g)
    BY <1>2
  <2>1. Cat(g, <<>>) = g
    BY CatEmpty
  <2> QED
    BY <1>1, <2>1 DEF Completes
<1>6. a = <<>> => RestOf(g, a) = <<>>
  <2> SUFFICES ASSUME a = <<>>
               PROVE  Taken(a, n) = <<>>
    BY <1>2
  <2>1. Taken(a, 0) = <<>>
    BY CutAtEnds
  <2>2. Len(a) = 0
    BY <1>4
  <2>3. n = 0
    BY <2>2
  <2> QED
    BY <2>1, <2>3
<1> QED
  BY <1>2, <1>3, <1>5, <1>6

\* The rest is known as soon as it is complete.
LEMMA RestStays ==
  ASSUME NEW S, NEW g \in Seq(S), NEW a \in Seq(S), NEW f \in Seq(S), InStep(Cat(g, a))
  PROVE  RestOf(g, Cat(a, f)) = RestOf(g, a)
<1>1. PICK n \in 0..Len(a) : Completes(g, a, n)
  BY RestExists
<1>2. Len(Cat(a, f)) = Len(a) + Len(f) /\ Len(a) \in Nat /\ Len(f) \in Nat
  BY CatAt
<1>3. \A m \in 0..Len(a) : Taken(Cat(a, f), m) = Taken(a, m)
  BY TakenOfCat
<1>4. n \in 0..Len(Cat(a, f)) /\ \A m \in 0..(n - 1) : m \in 0..Len(a)
  BY <1>2
<1>5. \A m \in 0..(n - 1) : ~InStep(Cat(g, Taken(Cat(a, f), m)))
  <2> SUFFICES ASSUME NEW m \in 0..(n - 1)
               PROVE  ~InStep(Cat(g, Taken(Cat(a, f), m)))
    OBVIOUS
  <2>1. Taken(Cat(a, f), m) = Taken(a, m)
    BY <1>3, <1>4
  <2> QED
    BY <1>1, <2>1 DEF Completes
<1>6. InStep(Cat(g, Taken(Cat(a, f), n)))
  BY <1>1, <1>3 DEF Completes
<1>7. Completes(g, Cat(a, f), n)
  BY <1>4, <1>5, <1>6 DEF Completes
<1>8. RestOf(g, Cat(a, f)) = Taken(Cat(a, f), n)
  BY <1>7, RestIs
<1>9. RestOf(g, a) = Taken(a, n)
  BY <1>1, RestIs
<1> QED
  BY <1>3, <1>8, <1>9

\* When one octet has moved on, one fewer of the missing ones is missing.
LEMMA RestShrinks ==
  ASSUME NEW S, NEW g \in Seq(S), NEW a \in Seq(S), a # <<>>,
         NEW n \in Nat \ {0}, n <= Len(a), InStep(Cat(g, Taken(a, n))),
         \A m \in 1..(n - 1) : ~InStep(Cat(g, Taken(a, m)))
  PROVE  RestOf(Append(g, Head(a)), Tail(a)) = Taken(Tail(a), n - 1)
<1> DEFINE p == Append(g, Head(a))
           b == Tail(a)
<1>1. Len(a) \in Nat /\ Len(b) = Len(a) - 1 /\ n - 1 \in 0..Len(b) /\ (n - 1) + 1 = n
  <2>1. Len(a) \in Nat \ {0} /\ Len(Tail(a)) = Len(a) - 1
    BY HeadTailProperties, EmptySeq, LenProperties
  <2> QED
    BY <2>1
<1>2. \A m \in Nat : m < Len(a) => Cat(p, Taken(b, m)) = Cat(g, Taken(a, m + 1))
  BY TakenAfterOne
<1> HIDE DEF p, b
<1>3. InStep(Cat(p, Taken(b, n - 1)))
  <2>1. n - 1 \in Nat /\ n - 1 < Len(a)
    BY <1>1
  <2>2. Cat(p, Taken(b, n - 1)) = Cat(g, Taken(a, (n - 1) + 1))
    BY <1>2, <2>1
  <2> QED
    BY <1>1, <2>2
<1>4. \A m \in 0..((n - 1) - 1) : ~InStep(Cat(p, Taken(b, m)))
  <2> SUFFICES ASSUME NEW m \in 0..((n - 1) - 1)
               PROVE  ~InStep(Cat(p, Taken(b, m)))
    OBVIOUS
  <2>1. m \in Nat /\ m < Len(a) /\ m + 1 \in 1..(n - 1)
    BY <1>1
  <2>2. Cat(p, Taken(b, m)) = Cat(g, Taken(a, m + 1))
    BY <1>2, <2>1
  <2> QED
    BY <2>1, <2>2
<1>5. Completes(p, b, n - 1)
  BY <1>1, <1>3, <1>4 DEF Completes
<1>6. RestOf(p, b) = Taken(b, n - 1)
  BY <1>5, RestIs
<1> QED
  BY <1>6 DEF p, b

\* Its tail is what was taken before.
LEMMA TailOfTaken ==
  ASSUME NEW S, NEW a \in Seq(S), a # <<>>, NEW n \in Nat \ {0}, n <= Len(a)
  PROVE  Tail(Taken(a, n)) = Taken(Tail(a), n - 1) /\ Head(Taken(a, n)) = Head(a)
         /\ Taken(a, n) # <<>>
<1> DEFINE t == Taken(a, n)
           u == Taken(Tail(a), n - 1)
<1>1. /\ Len(a) \in Nat /\ n \in 0..Len(a) /\ 1 \in 1..n /\ Tail(a) \in Seq(S)
      /\ Len(Tail(a)) = Len(a) - 1 /\ n - 1 \in 0..Len(Tail(a))
      /\ \A i \in 1..Len(Tail(a)) : Tail(a)[i] = a[i + 1]
      /\ Head(a) = a[1]
  <2>1. Len(a) \in Nat
    BY LenProperties
  <2>2. Tail(a) \in Seq(S) /\ Len(Tail(a)) = Len(a) - 1
    BY HeadTailProperties
  <2>3. \A i \in 1..Len(Tail(a)) : Tail(a)[i] = a[i + 1]
    BY <2>1, <2>2
  <2> QED
    BY <2>1, <2>2, <2>3
<1>2. t \in Seq(S) /\ Len(t) = n /\ \A i \in 1..n : t[i] = a[i]
  <2>1. t \in Seq(S) /\ Len(t) = n
    BY <1>1, CutFacts
  <2> QED
    BY <1>1, <2>1 DEF Taken
<1>3. u \in Seq(S) /\ Len(u) = n - 1 /\ \A i \in 1..(n - 1) : u[i] = Tail(a)[i]
  <2>1. u \in Seq(S) /\ Len(u) = n - 1
    BY ZenonT(60), <1>1, CutFacts
  <2> QED
    BY <1>1, <2>1 DEF Taken
<1> HIDE DEF t, u
<1>4. t # <<>>
  BY <1>2
<1>5. Tail(t) \in Seq(S) /\ Len(Tail(t)) = n - 1 /\ \A i \in 1..(n - 1) : Tail(t)[i] = t[i + 1]
  <2>1. Tail(t) \in Seq(S) /\ Len(Tail(t)) = n - 1
    BY <1>2, <1>4, HeadTailProperties
  <2> QED
    BY <1>2, <1>4, <2>1
<1>6. \A i \in 1..(n - 1) : Tail(t)[i] = u[i]
  <2> SUFFICES ASSUME NEW i \in 1..(n - 1)
               PROVE  Tail(t)[i] = u[i]
    OBVIOUS
  <2>1. i + 1 \in 1..n /\ i \in 1..Len(Tail(a))
    BY <1>1
  <2> QED
    BY <1>1, <1>2, <1>3, <1>5, <2>1
<1>7. Tail(t) = u
  BY <1>3, <1>5, <1>6, SeqEqual
<1>8. Head(t) = t[1] /\ t[1] = a[1]
  BY <1>1, <1>2, <1>4
<1> QED
  BY <1>1, <1>4, <1>7, <1>8 DEF t, u

LEMMA RestMoves ==
  ASSUME NEW S, NEW g \in Seq(S), NEW a \in Seq(S), InStep(Cat(g, a)), RestOf(g, a) # <<>>
  PROVE  /\ a # <<>> /\ Head(RestOf(g, a)) = Head(a)
         /\ RestOf(Append(g, Head(a)), Tail(a)) = Tail(RestOf(g, a))
<1>1. PICK n \in 0..Len(a) : Completes(g, a, n)
  BY RestExists
<1>2. RestOf(g, a) = Taken(a, n)
  BY <1>1, RestIs
<1>3. a # <<>>
  BY RestFacts
<1>4. n # 0
  <2>1. Taken(a, 0) = <<>>
    BY CutAtEnds
  <2> QED
    BY <1>2, <2>1
<1>5. n \in Nat \ {0} /\ n <= Len(a) /\ Len(a) \in Nat
  BY <1>4, LenProperties
<1>6. InStep(Cat(g, Taken(a, n))) /\ \A m \in 1..(n - 1) : ~InStep(Cat(g, Taken(a, m)))
  BY <1>1 DEF Completes
<1>7. RestOf(Append(g, Head(a)), Tail(a)) = Taken(Tail(a), n - 1)
  BY <1>3, <1>5, <1>6, RestShrinks
<1>8. Tail(Taken(a, n)) = Taken(Tail(a), n - 1) /\ Head(Taken(a, n)) = Head(a)
  BY <1>3, <1>5, TailOfTaken
<1> QED
  BY <1>2, <1>3, <1>7, <1>8

\* Where nothing is missing a new datagram begins, which carries what the
\* payload goes on with.
LEMMA RestBegins ==
  ASSUME NEW S, TypedHeaders(S), NEW g \in Seq(S), NEW a \in Seq(S), InStep(Cat(g, a)),
         RestOf(g, a) = <<>>, a # <<>>
  PROVE  \E data \in Seq(S) :
           /\ Len(data) \in 1..MaxDgm
           /\ IsPrefix(Cat(Payload(g), data), Payload(Cat(g, a)))
           /\ Frame(data) # <<>> /\ Head(Frame(data)) = Head(a)
           /\ RestOf(Append(g, Head(a)), Tail(a)) = Tail(Frame(data))
<1>1. InStep(g)
  BY RestFacts
<1>2. InStep(a)
  BY <1>1, DropWhole
<1>3. PICK data \in Seq(S), rest \in Seq(S) :
        /\ a = Cat(Frame(data), rest) /\ Len(data) \in 1..MaxDgm
        /\ \A i \in DOMAIN data : ~IsHeader(data[i])
  BY <1>2, FirstDatagram
<1> DEFINE f == Frame(data)
           n == Len(f)
<1>4. f \in Seq(S) /\ n \in Nat \ {0, 1}
  <2>1. f \in Seq(S) /\ n = HdrLen(Len(data)) + Len(data) /\ HdrLen(Len(data)) \in {1, 2}
    BY FrameAt
  <2> QED
    BY <1>3, <2>1
<1>5. \A m \in 1..(n - 1) : ~InStep(Cat(g, Taken(f, m)))
  BY CutFrame
<1>6. InStep(Cat(g, f))
  BY <1>1, <1>3, JoinInStep DEF Cat
<1>7. Payload(f) = data
  BY <1>3, PayloadOfFrame
<1> HIDE DEF f
<1>8. n <= Len(a) /\ Len(a) \in Nat
  <2>1. Len(a) = n + Len(rest) /\ Len(rest) \in Nat
    BY <1>3, <1>4, CatAt DEF f
  <2> QED
    BY <1>4, <2>1
<1>9. \A m \in 0..n : Taken(a, m) = Taken(f, m)
  <2>1. a = Cat(f, rest)
    BY <1>3 DEF f
  <2>2. \A m \in 0..Len(f) : Taken(Cat(f, rest), m) = Taken(f, m)
    BY <1>4, TakenOfCat
  <2> QED
    BY <2>1, <2>2
<1>10. Taken(a, n) = f
  <2>1. Taken(f, Len(f)) = f
    BY <1>4, CutAtEnds
  <2> QED
    BY <1>4, <1>9, <2>1
<1> HIDE DEF n
<1>11. RestOf(Append(g, Head(a)), Tail(a)) = Taken(Tail(a), n - 1)
  <2>1. n \in Nat \ {0}
    BY <1>4
  <2>2. \A m \in 1..(n - 1) : ~InStep(Cat(g, Taken(a, m)))
    <3> SUFFICES ASSUME NEW m \in 1..(n - 1)
                 PROVE  ~InStep(Cat(g, Taken(a, m)))
      OBVIOUS
    <3>1. m \in 0..n
      BY <1>4
    <3> QED
      BY <1>5, <1>9, <3>1
  <2>3. InStep(Cat(g, Taken(a, n)))
    BY <1>6, <1>10
  <2> QED
    BY <1>8, <2>1, <2>2, <2>3, RestShrinks
<1>12. Tail(f) = Taken(Tail(a), n - 1) /\ Head(f) = Head(a) /\ f # <<>>
  <2>1. n \in Nat \ {0}
    BY <1>4
  <2>2. Tail(Taken(a, n)) = Taken(Tail(a), n - 1) /\ Head(Taken(a, n)) = Head(a) /\ Taken(a, n) # <<>>
    BY <1>8, <2>1, TailOfTaken
  <2> QED
    BY <1>10, <2>2
<1>13. IsPrefix(Cat(Payload(g), data), Payload(Cat(g, a)))
  <2>1. Payload(g) \in Seq(S) /\ Payload(rest) \in Seq(S)
    BY PayloadSeq
  <2>2. Payload(Cat(g, a)) = Cat(Payload(g), Payload(a))
    BY PayloadCat DEF Cat
  <2>3. Payload(a) = Cat(data, Payload(rest))
    <3>1. Payload(f \o rest) = Payload(f) \o Payload(rest)
      BY <1>4, PayloadCat
    <3> QED
      BY <1>3, <1>7, <3>1 DEF Cat, f
  <2>4. Cat(Payload(g), Cat(data, Payload(rest))) = Cat(Cat(Payload(g), data), Payload(rest))
    BY <2>1, CatAssoc
  <2>5. Cat(Payload(g), data) \in Seq(S)
    BY <2>1, CatType
  <2>6. IsPrefix(Cat(Payload(g), data), Cat(Cat(Payload(g), data), Payload(rest)))
    BY <2>1, <2>5, CatPrefix
  <2> QED
    BY <2>2, <2>3, <2>4, <2>6
<1> QED
  BY <1>3, <1>11, <1>12, <1>13 DEF f

=============================================================================
