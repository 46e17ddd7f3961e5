--------------------------- MODULE PtrMapProofs ----------------------------
(***************************************************************************)
(* Proofs about PtrMap for any finite set of keys, and any sequence of     *)
(* additions and removals.  map_find() always finds what is there, also    *)
(* after items with two children were removed; map_walk() goes in order    *)
(* until one was.                                                          *)
(*                                                                         *)
(* The argument is that the items are a search tree: there is a T that     *)
(* says which items lie below each, itself included (Tree).  Nothing in    *)
(* the program computes T, so the invariant says that one exists, and each *)
(* step gives the next from the last.                                      *)
(***************************************************************************)
EXTENDS PtrMap, FiniteSetTheorems, WellFoundedInduction, TLAPS

\* A set of naturals has a least element: so there is a lowest common ancestor.
LEMMA LeastExists ==
  ASSUME NEW S \in SUBSET Nat, S # {}
  PROVE  \E m \in S : \A n \in S : m <= n
<1> DEFINE R == OpToRel(<, Nat)
<1>1. IsWellFoundedOn(R, Nat)
  BY NatLessThanWellFounded
<1>2. \A m, n \in Nat : <<m, n>> \in R <=> m < n
  BY DEF OpToRel
<1> HIDE DEF R
<1>3. PICK m \in S : \A n \in S : ~(<<n, m>> \in R)
  BY <1>1, WFMin
<1>4. ASSUME NEW n \in S
      PROVE  m <= n
  <2>1. <<n, m>> \notin R /\ n \in Nat /\ m \in Nat
    BY <1>3
  <2>2. ~(n < m)
    BY <1>2, <2>1
  <2> QED
    BY <2>1, <2>2
<1> QED
  BY <1>4

\* Induction: a set with zero and all successors holds every natural number.
LEMMA NatBySteps ==
  ASSUME NEW S, 0 \in S, \A n \in Nat : n \in S => n + 1 \in S
  PROVE  \A n \in Nat : n \in S
<1> DEFINE R == OpToRel(<, Nat)
           T == Nat \ S
<1>1. IsWellFoundedOn(R, Nat)
  BY NatLessThanWellFounded
<1>2. \A m, n \in Nat : <<m, n>> \in R <=> m < n
  BY DEF OpToRel
<1>3. SUFFICES ASSUME T # {}
               PROVE  FALSE
  OBVIOUS
<1>4. PICK m \in T : \A n \in T : ~(<<n, m>> \in R)
  <2> HIDE DEF R
  <2> QED
    BY <1>1, <1>3, WFMin
<1>5. m \in Nat /\ m # 0 /\ m \notin S
  BY <1>4
<1>6. m - 1 \in Nat /\ m - 1 < m /\ (m - 1) + 1 = m
  BY <1>5
<1>7. m - 1 \notin T
  <2> HIDE DEF R, T
  <2>1. T \subseteq Nat
    BY DEF T
  <2> QED
    BY <1>2, <1>4, <1>6, <2>1
<1> QED
  BY <1>5, <1>6, <1>7

-----------------------------------------------------------------------------
(* Trees: T gives the items of the subtree below each item.                *)

\* What is below an item on its left, and on its right.
Lower(T, x) == {y \in T[x] : y < x}
Upper(T, x) == {y \in T[x] : x < y}

\* The pointer c leads to the items of S.
Holds(T, S, c) == IF S = {} THEN c = Null ELSE c \in S /\ T[c] = S

\* The items of S are a search tree below the pointer a, with lf and rg.
Tree(T, S, a, lf, rg) ==
  /\ \A x \in S : x \in T[x] /\ T[x] \subseteq S
  /\ Holds(T, S, a)
  /\ \A x \in S : Holds(T, Lower(T, x), lf[x]) /\ Holds(T, Upper(T, x), rg[x])
  /\ \A x \in S : \A y \in T[x] : y < x => T[y] \subseteq Lower(T, x)
  /\ \A x \in S : \A y \in T[x] : x < y => T[y] \subseteq Upper(T, x)

\* What lies below an item, on either side.
LEMMA Sides ==
  ASSUME NEW T, NEW S \in SUBSET Nat, NEW a, NEW lf, NEW rg, Tree(T, S, a, lf, rg), NEW x \in S
  PROVE  /\ x \in Nat /\ x \in T[x] /\ T[x] \in SUBSET S
         /\ Holds(T, S, a) /\ Holds(T, Lower(T, x), lf[x]) /\ Holds(T, Upper(T, x), rg[x])
         /\ \A y \in T[x] : y \in S /\ y \in Nat /\ y \in T[y]
         /\ \A y \in T[x] : y < x => \A z \in T[y] : z \in T[x] /\ z < x
         /\ \A y \in T[x] : x < y => \A z \in T[y] : z \in T[x] /\ x < z
<1>1. x \in Nat /\ x \in T[x] /\ T[x] \in SUBSET S
  BY DEF Tree
<1>2. Holds(T, S, a) /\ Holds(T, Lower(T, x), lf[x]) /\ Holds(T, Upper(T, x), rg[x])
  BY DEF Tree
<1>3. \A y \in T[x] : y \in S /\ y \in Nat /\ y \in T[y]
  BY <1>1 DEF Tree
<1>4. \A y \in T[x] : (y < x => T[y] \subseteq Lower(T, x)) /\ (x < y => T[y] \subseteq Upper(T, x))
  <2> HIDE DEF Lower, Upper
  <2> QED
    BY DEF Tree
<1> QED
  BY <1>1, <1>2, <1>3, <1>4 DEF Lower, Upper

\* No two items are below each other, and what is below one is below all above it.
LEMMA Below ==
  ASSUME NEW T, NEW S \in SUBSET Nat, NEW a, NEW lf, NEW rg, Tree(T, S, a, lf, rg),
         NEW x \in S, NEW y \in T[x]
  PROVE  /\ y \in S /\ T[y] \subseteq T[x]
         /\ x \in T[y] => x = y
<1>1. x \in Nat /\ y \in S /\ y \in Nat
  BY DEF Tree
<1>2. CASE x = y
  BY <1>1, <1>2
<1>3. CASE y < x
  <2>1. T[y] \subseteq Lower(T, x)
    BY <1>3 DEF Tree
  <2> QED
    BY <1>1, <2>1 DEF Lower
<1>4. CASE x < y
  <2>1. T[y] \subseteq Upper(T, x)
    BY <1>4 DEF Tree
  <2> QED
    BY <1>1, <2>1 DEF Upper
<1> QED
  BY <1>1, <1>2, <1>3, <1>4

\* Of two items with one below both, one is below the other.
LEMMA Comparable ==
  ASSUME NEW T, NEW S \in SUBSET Nat, NEW a, NEW lf, NEW rg, Tree(T, S, a, lf, rg), IsFiniteSet(S),
         NEW x \in S, NEW y \in S, NEW z \in T[x], z \in T[y]
  PROVE  x \in T[y] \/ y \in T[x]
<1> DEFINE C == {c \in S : x \in T[c] /\ y \in T[c]}
           N == {Cardinality(T[c]) : c \in C}
<1>1. a \in C
  <2>1. a \in S /\ T[a] = S
    BY DEF Tree, Holds
  <2> QED
    BY <2>1
<1>2. \A c \in S : IsFiniteSet(T[c]) /\ Cardinality(T[c]) \in Nat
  BY FS_Subset, FS_CardinalityType DEF Tree
<1>3. N \in SUBSET Nat /\ N # {}
  BY <1>1, <1>2
<1>4. PICK m \in N : \A n \in N : m <= n
  BY <1>3, LeastExists
<1>5. PICK c \in C : m = Cardinality(T[c])
  BY <1>4
<1>6. c \in S /\ x \in T[c] /\ y \in T[c] /\ x \in Nat /\ y \in Nat /\ c \in Nat /\ z \in Nat
  <2>1. z \in S
    BY Below
  <2> QED
    BY <1>5, <2>1
<1>7. \A d \in S : d \in T[c] /\ d # c => ~(x \in T[d] /\ y \in T[d])
  <2>1. SUFFICES ASSUME NEW d \in S, d \in T[c], d # c, x \in T[d], y \in T[d]
                 PROVE  FALSE
    OBVIOUS
  <2>2. T[d] \subseteq T[c] /\ c \notin T[d] /\ c \in T[c]
    <3>1. c \in S /\ d \in T[c] /\ c # d
      BY <1>6, <2>1
    <3>2. T[d] \subseteq T[c] /\ (c \in T[d] => c = d)
      BY <3>1, Below
    <3> QED
      BY <3>1, <3>2, Sides
  <2>3. T[d] \subseteq T[c] \ {c}
    BY <2>2
  <2>4. Cardinality(T[c] \ {c}) = Cardinality(T[c]) - 1 /\ IsFiniteSet(T[c] \ {c})
    BY <1>2, <1>6, <2>2, FS_RemoveElement
  <2>5. Cardinality(T[d]) <= Cardinality(T[c]) - 1
    BY <2>3, <2>4, FS_Subset
  <2>6. Cardinality(T[d]) \in N
    BY <2>1
  <2> HIDE DEF N, C
  <2> QED
    BY <1>2, <1>4, <1>5, <1>6, <2>1, <2>5, <2>6
<1>8. CASE c = x \/ c = y
  BY <1>6, <1>8
<1>9. CASE x < c /\ y < c
  <2>1. x \in Lower(T, c) /\ y \in Lower(T, c)
    BY <1>6, <1>9 DEF Lower
  <2>2. lf[c] \in Lower(T, c) /\ T[lf[c]] = Lower(T, c)
    BY <1>6, <2>1 DEF Tree, Holds
  <2>3. lf[c] \in S /\ lf[c] \in T[c] /\ lf[c] # c
    <3>1. lf[c] \in T[c] /\ lf[c] # c
      BY <1>6, <2>2 DEF Lower
    <3> QED
      BY <1>6, <3>1, Sides
  <2> QED
    BY <1>7, <2>1, <2>2, <2>3
<1>10. CASE c < x /\ c < y
  <2>1. x \in Upper(T, c) /\ y \in Upper(T, c)
    BY <1>6, <1>10 DEF Upper
  <2>2. rg[c] \in Upper(T, c) /\ T[rg[c]] = Upper(T, c)
    BY <1>6, <2>1 DEF Tree, Holds
  <2>3. rg[c] \in S /\ rg[c] \in T[c] /\ rg[c] # c
    <3>1. rg[c] \in T[c] /\ rg[c] # c
      BY <1>6, <2>2 DEF Upper
    <3> QED
      BY <1>6, <3>1, Sides
  <2> QED
    BY <1>7, <2>1, <2>2, <2>3
<1>11. ~(x < c /\ c < y) /\ ~(y < c /\ c < x)
  <2>1. /\ x < c => z < c
        /\ y < c => z < c
        /\ c < x => c < z
        /\ c < y => c < z
    BY <1>6 DEF Tree, Lower, Upper
  <2> QED
    BY <1>6, <2>1
<1> QED
  BY <1>6, <1>8, <1>9, <1>10, <1>11

\* What is above a child is the child or above its parent.
LEMMA AboveChild ==
  ASSUME NEW T, NEW S \in SUBSET Nat, NEW a, NEW lf, NEW rg, Tree(T, S, a, lf, rg), IsFiniteSet(S),
         NEW x \in S, NEW c \in S, c \in {lf[x], rg[x]}, c # Null, NEW b \in S, c \in T[b], b # c
  PROVE  x \in T[b]
<1>1. /\ x \in Nat /\ b \in Nat /\ c \in Nat
      /\ \/ c < x /\ c \in T[x] /\ T[c] = Lower(T, x)
         \/ x < c /\ c \in T[x] /\ T[c] = Upper(T, x)
  BY DEF Tree, Holds, Lower, Upper
<1>2. b \in T[x] \/ x \in T[b]
  BY <1>1, Comparable
<1>3. CASE b \in T[x] /\ b # x
  <2>1. b \notin T[c]
    BY Below
  <2>2. /\ b < x => c < x
        /\ x < b => x < c
    BY <1>1, <1>3 DEF Tree, Lower, Upper
  <2> QED
    BY <1>1, <1>3, <2>1, <2>2 DEF Lower, Upper
<1> QED
  BY <1>2, <1>3 DEF Tree

\* No item is the child of two, or of one on both sides; the root is no child.
LEMMA OneParent ==
  ASSUME NEW T, NEW S \in SUBSET Nat, NEW a, NEW lf, NEW rg, Tree(T, S, a, lf, rg), IsFiniteSet(S),
         NEW c \in S, c # Null, NEW x \in S, c \in {lf[x], rg[x]}
  PROVE  /\ a # c /\ ~(lf[x] = c /\ rg[x] = c)
         /\ \A y \in S : c \in {lf[y], rg[y]} => y = x
<1>1. \A y \in S : c \in {lf[y], rg[y]} => c \in T[y] /\ y # c
  BY DEF Tree, Holds, Lower, Upper
<1>2. ASSUME NEW y \in S, c \in {lf[y], rg[y]}
      PROVE  y = x
  <2>1. c \in T[x] /\ x # c /\ c \in T[y] /\ y # c
    BY <1>1, <1>2
  <2>2. x \in T[y] /\ y \in T[x]
    BY <1>2, <2>1, AboveChild
  <2> QED
    BY <2>2, Below
<1>3. a # c
  <2>1. SUFFICES ASSUME a = c
                 PROVE  FALSE
    OBVIOUS
  <2>2. x \in T[c]
    BY <2>1 DEF Tree, Holds
  <2> QED
    BY <1>1, <2>2, Below
<1>4. ~(lf[x] = c /\ rg[x] = c)
  <2>1. lf[x] = c => c < x
    BY DEF Tree, Holds, Lower
  <2>2. rg[x] = c => x < c
    BY DEF Tree, Holds, Upper
  <2>3. x \in Nat /\ c \in Nat
    OBVIOUS
  <2> QED
    BY <2>1, <2>2, <2>3
<1> QED
  BY <1>2, <1>3, <1>4

-----------------------------------------------------------------------------
(* What map_del() does to a tree.                                          *)

\* The pointers lf to k are turned to v.
Turned(S, k, v, lf, lf2) == \A x \in S \ {k} : lf2[x] = IF lf[x] = k THEN v ELSE lf[x]

\* So are the pointers rg, and that of m to e.
Hooked(S, k, v, m, e, rg, rg2) ==
  \A x \in S \ {k} : rg2[x] = IF x = m THEN e ELSE IF rg[x] = k THEN v ELSE rg[x]

\* m is the greatest of S.
Greatest(S, m) == m \in S /\ \A y \in S : y <= m

\* An item is removed whose place v can take, as it leads to all that is below it.
LEMMA Removed ==
  ASSUME NEW T, NEW S \in SUBSET Nat, Null \notin S, NEW a, NEW lf, NEW rg, Tree(T, S, a, lf, rg),
         NEW k \in S, NEW v, Holds(T, T[k] \ {k}, v), NEW lf2, NEW rg2,
         Turned(S, k, v, lf, lf2), Turned(S, k, v, rg, rg2)
  PROVE  \E U : Tree(U, S \ {k}, IF a = k THEN v ELSE a, lf2, rg2)
<1> USE DEF Turned
<1> DEFINE S2 == S \ {k}
           T2 == [x \in S2 |-> T[x] \ {k}]
           a2 == IF a = k THEN v ELSE a
<1>1. \A x \in S2 : T2[x] = T[x] \ {k}
  OBVIOUS
<1> HIDE DEF T2
<1>2. ASSUME NEW U \in SUBSET S, NEW c, Holds(T, U, c)
      PROVE  Holds(T2, U \ {k}, IF c = k THEN v ELSE c)
  <2>1. CASE U = {}
    <3>1. c = Null /\ c # k
      BY <1>2, <2>1 DEF Holds
    <3> QED
      BY <2>1, <3>1 DEF Holds
  <2>2. CASE c = k
    <3>1. U = T[k]
      BY <1>2, <2>2 DEF Holds
    <3>2. CASE U \ {k} = {}
      BY <2>2, <3>1, <3>2 DEF Holds
    <3>3. CASE U \ {k} # {}
      <4>1. v \in U \ {k} /\ T[v] = U \ {k}
        BY <3>1, <3>3 DEF Holds
      <4>2. T2[v] = U \ {k}
        BY <1>1, <1>2, <4>1
      <4> QED
        BY <2>2, <3>3, <4>1, <4>2 DEF Holds
    <3> QED
      BY <3>2, <3>3
  <2>3. CASE U # {} /\ c # k
    <3>1. c \in U \ {k} /\ T[c] = U
      BY <1>2, <2>3 DEF Holds
    <3>2. T2[c] = U \ {k}
      BY <1>1, <1>2, <3>1
    <3> QED
      BY <2>3, <3>1, <3>2 DEF Holds
  <2> QED
    BY <2>1, <2>2, <2>3
<1>3. \A x \in S2 : x \in T2[x] /\ T2[x] \subseteq S2
  <2>1. \A x \in S2 : x \in T[x] /\ T[x] \subseteq S
    BY DEF Tree
  <2> QED
    BY <1>1, <2>1
<1>4. Holds(T2, S2, a2)
  <2>1. Holds(T, S, a)
    BY DEF Tree
  <2> QED
    BY <2>1, <1>2
<1>5. \A x \in S2 : Lower(T2, x) = Lower(T, x) \ {k} /\ Upper(T2, x) = Upper(T, x) \ {k}
  BY <1>1 DEF Lower, Upper
<1>6. ASSUME NEW x \in S2
      PROVE  Holds(T2, Lower(T2, x), lf2[x]) /\ Holds(T2, Upper(T2, x), rg2[x])
  <2>1. /\ Holds(T, Lower(T, x), lf[x]) /\ Holds(T, Upper(T, x), rg[x])
        /\ Lower(T, x) \in SUBSET S /\ Upper(T, x) \in SUBSET S
    BY DEF Tree, Lower, Upper
  <2>2. Holds(T2, Lower(T, x) \ {k}, IF lf[x] = k THEN v ELSE lf[x])
    BY <2>1, <1>2
  <2>3. Holds(T2, Upper(T, x) \ {k}, IF rg[x] = k THEN v ELSE rg[x])
    BY <2>1, <1>2
  <2> QED
    BY <1>5, <2>2, <2>3
<1>7. ASSUME NEW x \in S2, NEW y \in T2[x]
      PROVE  /\ y < x => T2[y] \subseteq Lower(T2, x)
             /\ x < y => T2[y] \subseteq Upper(T2, x)
  <2>1. y \in T[x] /\ y \in S2 /\ T2[y] = T[y] \ {k}
    BY <1>1, <1>3, <1>7
  <2>2. /\ y < x => T[y] \subseteq Lower(T, x)
        /\ x < y => T[y] \subseteq Upper(T, x)
    BY <2>1 DEF Tree
  <2> QED
    BY <1>5, <2>1, <2>2
<1>8. Tree(T2, S2, a2, lf2, rg2)
  BY <1>3, <1>4, <1>6, <1>7 DEF Tree
<1> QED
  BY <1>8

\* An item is removed that has two children.  The right one goes below the
\* greatest item m of the left one; the left one takes its place.
LEMMA Spliced ==
  ASSUME NEW T, NEW S \in SUBSET Nat, Null \notin S, IsFiniteSet(S), NEW a, NEW lf, NEW rg,
         Tree(T, S, a, lf, rg), NEW k \in S, Upper(T, k) # {},
         NEW m, Greatest(Lower(T, k), m), NEW lf2, NEW rg2,
         Turned(S, k, lf[k], lf, lf2), Hooked(S, k, lf[k], m, rg[k], rg, rg2)
  PROVE  \E U : Tree(U, S \ {k}, IF a = k THEN lf[k] ELSE a, lf2, rg2)
<1> USE DEF Turned, Hooked, Greatest
<1> DEFINE S2 == S \ {k}
           Lo == Lower(T, k)
           Up == Upper(T, k)
           Spine == {x \in Lo : m \in T[x]}
           T2 == [x \in S2 |-> IF x \in Lo /\ m \in T[x] THEN T[x] \cup Up ELSE T[x] \ {k}]
           c == lf[k]
           e == rg[k]
           a2 == IF a = k THEN c ELSE a
<1>1. /\ \A x \in Spine : T2[x] = T[x] \cup Up
      /\ \A x \in S2 \ Spine : T2[x] = T[x] \ {k}
      /\ Spine \subseteq S2
  <2>1. k \in Nat /\ T[k] \in SUBSET S
    BY Sides
  <2>2. \A x \in Lo : x \in S /\ x < k
    BY <2>1 DEF Lower
  <2>3. Lo \subseteq S2
    BY <2>1, <2>2
  <2> QED
    BY <2>3
<1>2. /\ k \in Nat /\ m \in Nat /\ m < k /\ m \in T[k]
      /\ \A x \in S : x \in Nat
      /\ \A x \in Lo : x \in T[k] /\ x < k /\ x \in S2
      /\ \A x \in Up : x \in T[k] /\ k < x /\ x \in S2
      /\ T[k] \ {k} = Lo \cup Up /\ k \in T[k] /\ k \notin Lo \cup Up /\ T[k] \in SUBSET S
  <2>1. k \in Nat /\ k \in T[k] /\ T[k] \in SUBSET S
    BY Sides
  <2>2. \A x \in T[k] : x \in Nat /\ x \in S
    BY <2>1
  <2>3. \A x \in Lo : x \in T[k] /\ x < k /\ x \in S2
    BY <2>1, <2>2 DEF Lower
  <2>4. \A x \in Up : x \in T[k] /\ k < x /\ x \in S2
    BY <2>1, <2>2 DEF Upper
  <2>5. T[k] \ {k} = Lo \cup Up
    BY <2>1, <2>2 DEF Lower, Upper
  <2>6. m < k /\ m \in T[k] /\ k \notin Lo \cup Up
    BY <2>1, <2>3, <2>4
  <2> HIDE DEF Lo, Up
  <2> QED
    BY <2>1, <2>2, <2>3, <2>4, <2>5, <2>6
<1>3. c \in Lo /\ T[c] = Lo /\ e \in Up /\ T[e] = Up
  <2>1. Holds(T, Lo, c) /\ Holds(T, Up, e)
    BY Sides
  <2> QED
    BY <2>1 DEF Holds
<1>4. \A x \in Lo : T[x] \subseteq Lo
  BY <1>2, Sides DEF Lower
<1>5. \A x \in Up : T[x] \subseteq Up
  BY <1>2, Sides DEF Upper
<1> HIDE DEF T2
<1>6. c \in Spine /\ m \in Spine /\ e \notin Spine /\ e \in S2 /\ k \notin Spine
  BY <1>2, <1>3, Sides
\* What a pointer leads to that was not into the spine.
<1>7. ASSUME NEW U \in SUBSET S, NEW ptr, Holds(T, U, ptr), ptr \notin Spine
      PROVE  Holds(T2, U \ {k}, IF ptr = k THEN c ELSE ptr)
  <2>1. CASE U = {}
    <3>1. ptr = Null /\ ptr # k
      BY <1>7, <2>1 DEF Holds
    <3> QED
      BY <2>1, <3>1 DEF Holds
  <2>2. CASE ptr = k
    <3>1. U = T[k]
      BY <1>7, <1>2, <2>2 DEF Holds
    <3>2. U \ {k} = Lo \cup Up /\ c \in U \ {k} /\ T2[c] = Lo \cup Up
      BY <1>1, <1>2, <1>3, <1>6, <3>1
    <3> QED
      BY <2>2, <3>2 DEF Holds
  <2>3. CASE U # {} /\ ptr # k
    <3>1. ptr \in U \ {k} /\ T[ptr] = U
      BY <1>7, <2>3 DEF Holds
    <3>2. T2[ptr] = U \ {k}
      BY <1>1, <1>7, <3>1
    <3> QED
      BY <2>3, <3>1, <3>2 DEF Holds
  <2> QED
    BY <2>1, <2>2, <2>3
\* What one leads to that was.
<1>8. ASSUME NEW U \in SUBSET S, NEW ptr, Holds(T, U, ptr), ptr \in Spine
      PROVE  Holds(T2, U \cup Up, ptr)
  <2>1. ptr \in U /\ T[ptr] = U
    BY <1>1, <1>8 DEF Holds
  <2>2. T2[ptr] = U \cup Up
    BY <1>1, <1>8, <2>1
  <2> QED
    BY <2>1, <2>2 DEF Holds
<1>9. \A x \in S2 : x \in T2[x] /\ T2[x] \subseteq S2
  <2>1. \A x \in S2 : x \in T[x] /\ T[x] \subseteq S
    BY DEF Tree
  <2>2. \A x \in Spine : T[x] \subseteq Lo /\ Lo \cup Up \subseteq S2
    BY <1>2, <1>4
  <2>3. \A x \in Spine : x \in T2[x] /\ T2[x] \subseteq S2
    BY <1>1, <2>1, <2>2
  <2>4. \A x \in S2 \ Spine : x \in T2[x] /\ T2[x] \subseteq S2
    BY <1>1, <2>1
  <2> QED
    BY <2>3, <2>4
<1>10. Holds(T2, S2, a2)
  <2>1. Holds(T, S, a)
    BY DEF Tree
  <2>2. a \notin Spine
    <3>1. a \in S /\ T[a] = S
      BY <2>1 DEF Holds
    <3>2. a \in Lo => FALSE
      BY <1>2, <1>4, <3>1
    <3> QED
      BY <3>2
  <2> QED
    BY <1>7, <2>1, <2>2
<1>11. \A x \in S2 \ Spine : /\ Lower(T2, x) = Lower(T, x) \ {k}
                             /\ Upper(T2, x) = Upper(T, x) \ {k}
  BY <1>1 DEF Lower, Upper
<1>12. \A x \in Spine : /\ Lower(T2, x) = Lower(T, x) /\ k \notin Lower(T, x)
                        /\ Upper(T2, x) = Upper(T, x) \cup Up /\ k \notin Upper(T, x)
  <2>1. ASSUME NEW x \in Spine
        PROVE  /\ \A y \in Up : y \in Nat /\ x < y
               /\ x \in Nat /\ k \notin T[x]
    <3>1. x \in Lo /\ x \in Nat /\ x < k /\ k \notin Lo
      BY <1>2, <2>1
    <3>2. \A y \in Up : y \in Nat /\ k < y
      BY <1>2
    <3>3. k \notin T[x]
      BY <1>4, <3>1
    <3> HIDE DEF Lo, Up
    <3> QED
      BY <1>2, <3>1, <3>2, <3>3
  <2> QED
    BY <1>1, <2>1 DEF Lower, Upper
<1>13. ASSUME NEW x \in S2
       PROVE  /\ x \in S /\ x \in Nat
              /\ Holds(T, Lower(T, x), lf[x]) /\ Holds(T, Upper(T, x), rg[x])
              /\ Lower(T, x) \in SUBSET S /\ Upper(T, x) \in SUBSET S
  BY Sides DEF Lower, Upper
\* Outside the spine no child is in it, unless the parent is the removed item.
<1>14. ASSUME NEW x \in S2 \ Spine
       PROVE  lf[x] \notin Spine /\ rg[x] \notin Spine
  <2>1. SUFFICES ASSUME NEW d \in Spine, d \in {lf[x], rg[x]}
                 PROVE  FALSE
    OBVIOUS
  <2>2. d \in S /\ d # Null /\ d \in Lo /\ m \in T[d] /\ d # k /\ x \in S
    BY <1>1, <1>2, <2>1
  <2>3. d \in T[x] /\ d # x
    BY <1>13, <2>1, <2>2 DEF Holds, Lower, Upper
  <2>4. x \in T[k]
    BY <1>2, <2>1, <2>2, AboveChild
  <2>5. m \in T[x]
    BY <2>2, <2>3, Below
  <2>6. x \in Up => m \in Up
    BY <1>5, <2>5
  <2>7. x \in Lo
    BY <1>2, <2>4, <2>6
  <2> QED
    BY <2>5, <2>7
<1>15. ASSUME NEW x \in S2
       PROVE  Holds(T2, Lower(T2, x), lf2[x])
  <2>1. CASE x \notin Spine
    <3>1. Holds(T2, Lower(T, x) \ {k}, IF lf[x] = k THEN c ELSE lf[x])
      BY <1>7, <1>13, <1>14, <2>1
    <3> QED
      BY <1>11, <2>1, <3>1
  <2>2. CASE x \in Spine
    <3>1. lf[x] \notin Spine
      <4>1. lf[x] \in Spine => Lower(T, x) = T[lf[x]]
        <5>1. Holds(T, Lower(T, x), lf[x])
          BY <1>13
        <5>2. Null \notin Spine
          BY <1>1
        <5> QED
          BY <5>1, <5>2 DEF Holds
      <4>2. m \notin Lower(T, x)
        <5>1. x \in Nat /\ m \in Nat /\ (m \in T[x] => x <= m)
          BY <1>2, <1>13, <2>2
        <5> QED
          BY <5>1 DEF Lower
      <4>3. lf[x] \in Spine => m \in T[lf[x]]
        OBVIOUS
      <4> HIDE DEF Spine
      <4> QED
        BY <4>1, <4>3, <4>2
    <3>2. Holds(T2, Lower(T, x) \ {k}, IF lf[x] = k THEN c ELSE lf[x])
      BY <1>7, <1>13, <3>1
    <3>3. Lower(T, x) \ {k} = Lower(T2, x)
      BY <1>12, <2>2
    <3> QED
      BY <3>2, <3>3
  <2> QED
    BY <2>1, <2>2
<1>16. ASSUME NEW x \in S2
       PROVE  Holds(T2, Upper(T2, x), rg2[x])
  <2>1. CASE x \notin Spine
    <3>1. Holds(T2, Upper(T, x) \ {k}, IF rg[x] = k THEN c ELSE rg[x])
      BY <1>7, <1>13, <1>14, <2>1
    <3>2. x # m
      BY <1>6, <2>1
    <3> QED
      BY <1>11, <2>1, <3>1, <3>2
  <2>2. CASE x = m
    <3>1. Upper(T, m) = {}
      <4>1. \A y \in T[m] : y <= m /\ y \in Nat
        BY <1>2, <1>4, <1>6
      <4> QED
        BY <1>2, <4>1 DEF Upper
    <3>2. Upper(T2, m) = Up
      BY <1>6, <1>12, <3>1
    <3>3. T2[e] = Up
      <4>1. T2[e] = T[e] \ {k}
        BY <1>1, <1>6
      <4> QED
        BY <1>2, <1>3, <4>1
    <3> QED
      BY <1>3, <2>2, <3>2, <3>3 DEF Holds
  <2>3. CASE x \in Spine /\ x # m
    <3>1. m \in Upper(T, x)
      <4>1. m \in T[x] /\ x <= m /\ m # x
        BY <2>3
      <4>2. x \in Nat /\ m \in Nat
        BY <1>2, <1>13
      <4>3. x < m
        BY <4>1, <4>2
      <4> QED
        BY <4>1, <4>3 DEF Upper
    <3>2. rg[x] \in Upper(T, x) /\ T[rg[x]] = Upper(T, x)
      BY <1>13, <3>1 DEF Holds
    <3>3. rg[x] \in Spine
      <4>1. rg[x] \in T[x] /\ T[x] \subseteq Lo
        BY <1>4, <2>3, <3>2 DEF Upper
      <4> QED
        BY <3>1, <3>2, <4>1
    <3>4. Holds(T2, Upper(T, x) \cup Up, rg[x])
      BY <1>8, <1>13, <3>3
    <3>5. rg2[x] = rg[x]
      BY <1>6, <2>3, <3>3
    <3> QED
      BY <1>12, <2>3, <3>4, <3>5
  <2> QED
    BY <2>1, <2>2, <2>3
<1>17. ASSUME NEW x \in S2, NEW y \in T2[x]
       PROVE  /\ y < x => T2[y] \subseteq Lower(T2, x)
              /\ x < y => T2[y] \subseteq Upper(T2, x)
  <2>1. y \in S2 /\ y \in Nat /\ x \in Nat
    BY <1>2, <1>9, <1>17
  <2>2. CASE y \in T[x]
    <3>1. /\ y < x => T[y] \subseteq Lower(T, x)
          /\ x < y => T[y] \subseteq Upper(T, x)
      BY <2>2 DEF Tree
    <3>2. Lower(T, x) \ {k} \subseteq Lower(T2, x) /\ Upper(T, x) \ {k} \subseteq Upper(T2, x)
      BY <1>11, <1>12
    <3>3. CASE y \notin Spine
      <4>1. T2[y] = T[y] \ {k}
        BY <1>1, <2>1, <3>3
      <4> QED
        BY <3>1, <3>2, <4>1
    <3>4. CASE y \in Spine /\ x \in Spine
      <4>1. ~(y < x)
        <5>1. SUFFICES ASSUME y < x
                       PROVE  FALSE
          OBVIOUS
        <5>2. m \in Lower(T, x)
          BY <3>1, <3>4, <5>1
        <5> QED
          BY <1>2, <2>1, <3>4, <5>2 DEF Lower
      <4>2. T2[y] = T[y] \cup Up
        BY <1>1, <3>4
      <4> QED
        BY <1>12, <3>1, <3>4, <4>1, <4>2
    <3>5. CASE y \in Spine /\ x \notin Spine
      <4>1. y \in T[k] /\ m \in T[x]
        <5>1. m \in T[y] /\ y \in T[k]
          BY <1>2, <3>5
        <5> QED
          BY <2>1, <2>2, <5>1, Below
      <4>2. x \notin T[k]
        <5>1. x \notin Lo
          BY <3>5, <4>1
        <5>2. x \notin Up
          BY <1>2, <1>5, <4>1
        <5> QED
          BY <1>2, <2>1, <5>1, <5>2
      <4>3. k \in T[x]
        BY <2>1, <2>2, <4>1, <4>2, Comparable
      <4>4. /\ k < x => T[k] \subseteq Lower(T, x)
            /\ x < k => T[k] \subseteq Upper(T, x)
        BY <4>3 DEF Tree
      <4>5. k < x \/ x < k
        BY <1>2, <2>1
      <4>6. /\ y < x => Up \subseteq Lower(T, x) \ {k} /\ T[y] \subseteq Lower(T, x) \ {k}
            /\ x < y => Up \subseteq Upper(T, x) \ {k} /\ T[y] \subseteq Upper(T, x) \ {k}
        <5>1. T[y] \subseteq Lo /\ k \notin Lo \cup Up
          BY <1>2, <1>4, <3>5
        <5>2. y \in Lower(T, x) => y < x
          BY DEF Lower
        <5>3. y \in Upper(T, x) => x < y
          BY DEF Upper
        <5> QED
          BY <1>2, <2>1, <3>1, <4>1, <4>4, <4>5, <5>1, <5>2, <5>3
      <4>7. T2[y] = T[y] \cup Up
        BY <1>1, <3>5
      <4> QED
        BY <3>2, <4>6, <4>7
    <3> QED
      BY <3>3, <3>4, <3>5
  <2>3. CASE y \notin T[x]
    <3>1. x \in Spine /\ y \in Up
      BY <1>1, <1>17, <2>3
    <3>2. x < y
      BY <1>2, <2>1, <3>1
    <3>3. y \notin Spine /\ T2[y] \subseteq Up
      <4>1. y \notin Lo
        BY <1>2, <2>1, <3>1
      <4> QED
        BY <1>1, <1>5, <2>1, <3>1, <4>1
    <3> QED
      BY <1>12, <2>1, <3>1, <3>2, <3>3
  <2> QED
    BY <2>2, <2>3
<1>18. Tree(T2, S2, a2, lf2, rg2)
  BY <1>9, <1>10, <1>15, <1>16, <1>17 DEF Tree
<1> QED
  BY <1>18


-----------------------------------------------------------------------------
(* What map_add() does to a tree.                                          *)

\* The items that the search for a key passes: the key lies on the same side
\* of everything above them as they do.
On(T, S, k) == {x \in S : \A b \in S : x \in T[b] /\ b # x => (k < b <=> x < b)}

\* It starts at the root.
LEMMA PathRoot ==
  ASSUME NEW T, NEW S \in SUBSET Nat, NEW a, NEW lf, NEW rg, Tree(T, S, a, lf, rg), S # {}, NEW k
  PROVE  a \in On(T, S, k)
<1>1. a \in S /\ T[a] = S
  BY DEF Tree, Holds
<1>2. ASSUME NEW b \in S, a \in T[b]
      PROVE  b = a
  BY <1>1, <1>2, Below
<1> QED
  BY <1>1, <1>2 DEF On

\* It passes what is above the items it passes.
LEMMA PathUp ==
  ASSUME NEW T, NEW S \in SUBSET Nat, NEW a, NEW lf, NEW rg, Tree(T, S, a, lf, rg),
         NEW k, NEW x \in On(T, S, k), NEW y \in S, x \in T[y]
  PROVE  y \in On(T, S, k)
<1>1. SUFFICES ASSUME NEW b \in S, y \in T[b], b # y
               PROVE  k < b <=> y < b
  BY DEF On
<1>2. x \in T[b] /\ b # x
  <2>1. T[y] \subseteq T[b] /\ (b \in T[y] => b = y)
    BY <1>1, Below
  <2> QED
    BY <1>1, <2>1
<1>3. k < b <=> x < b
  BY <1>2 DEF On
<1>4. /\ y \in Nat /\ b \in Nat /\ x \in Nat
      /\ y < b => x < b
      /\ b < y => b < x
  BY <1>1, <1>2, Sides
<1> QED
  BY <1>1, <1>3, <1>4

\* It goes on to the child on the side of the key.
LEMMA PathDown ==
  ASSUME NEW T, NEW S \in SUBSET Nat, NEW a, NEW lf, NEW rg, Tree(T, S, a, lf, rg), IsFiniteSet(S),
         NEW k, NEW x \in On(T, S, k), NEW c \in S, c \in {lf[x], rg[x]}, c # Null, k < x <=> c < x
  PROVE  c \in On(T, S, k)
<1>1. x \in S
  BY DEF On
<1>2. SUFFICES ASSUME NEW b \in S, c \in T[b], b # c
               PROVE  k < b <=> c < b
  BY DEF On
<1>3. CASE b = x
  BY <1>3
<1>4. CASE b # x
  <2>1. x \in T[b]
    BY <1>1, <1>2, AboveChild
  <2>2. k < b <=> x < b
    BY <1>4, <2>1 DEF On
  <2>3. c \in T[x]
    <3>1. Holds(T, Lower(T, x), lf[x]) /\ Holds(T, Upper(T, x), rg[x])
      BY <1>1, Sides
    <3> QED
      BY <3>1 DEF Holds, Lower, Upper
  <2>4. /\ x \in Nat /\ b \in Nat /\ c \in Nat
        /\ x < b => c < b
        /\ b < x => b < c
    BY <1>1, <2>1, <2>3, Sides
  <2> QED
    BY <1>4, <2>2, <2>4
<1> QED
  BY <1>3, <1>4

\* A pointer that was null, on the side of the key, leads to it now.
HungLeft(T, S, k, lf, lf2) ==
  \A x \in S : lf2[x] = IF x \in On(T, S, k) /\ k < x /\ lf[x] = Null THEN k ELSE lf[x]

HungRight(T, S, k, rg, rg2) ==
  \A x \in S : rg2[x] = IF x \in On(T, S, k) /\ x < k /\ rg[x] = Null THEN k ELSE rg[x]

\* An item is added where the search for it ends.
LEMMA Inserted ==
  ASSUME NEW T, NEW S \in SUBSET Nat, Null \notin S, IsFiniteSet(S), NEW a, NEW lf, NEW rg,
         Tree(T, S, a, lf, rg), NEW k \in Nat, k \notin S, NEW lf2, NEW rg2,
         lf2[k] = Null, rg2[k] = Null,
         HungLeft(T, S, k, lf, lf2), HungRight(T, S, k, rg, rg2)
  PROVE  \E U : Tree(U, S \cup {k}, IF S = {} THEN k ELSE a, lf2, rg2)
<1> USE DEF HungLeft, HungRight
<1> DEFINE P == On(T, S, k)
           S2 == S \cup {k}
           T2 == [x \in S2 |-> IF x = k THEN {k} ELSE IF x \in P THEN T[x] \cup {k} ELSE T[x]]
<1>1. /\ T2[k] = {k} /\ P \subseteq S
      /\ \A x \in P : T2[x] = T[x] \cup {k}
      /\ \A x \in S \ P : T2[x] = T[x]
  BY DEF On
<1> HIDE DEF P, T2
<1>2. \A x \in S : x \in Nat /\ x \in T[x] /\ T[x] \subseteq S /\ x # k
  BY Sides
<1>3. \A x \in S2 : x \in T2[x] /\ T2[x] \subseteq S2
  <2>1. \A x \in P : x \in T2[x] /\ T2[x] \subseteq S2
    BY <1>1, <1>2
  <2>2. \A x \in S \ P : x \in T2[x] /\ T2[x] \subseteq S2
    BY <1>1, <1>2
  <2> QED
    BY <1>1, <2>1, <2>2
<1>4. Holds(T2, S2, IF S = {} THEN k ELSE a)
  <2>1. CASE S = {}
    BY <1>1, <2>1 DEF Holds
  <2>2. CASE S # {}
    <3>1. a \in P
      BY <2>2, PathRoot DEF P
    <3>2. a \in S /\ T[a] = S
      BY <2>2 DEF Tree, Holds
    <3> QED
      BY <1>1, <2>2, <3>1, <3>2 DEF Holds
  <2> QED
    BY <2>1, <2>2
<1>5. ASSUME NEW x \in P
      PROVE  /\ Lower(T2, x) = Lower(T, x) \cup (IF k < x THEN {k} ELSE {})
             /\ Upper(T2, x) = Upper(T, x) \cup (IF x < k THEN {k} ELSE {})
  BY <1>1 DEF Lower, Upper
<1>6. ASSUME NEW x \in S \ P
      PROVE  Lower(T2, x) = Lower(T, x) /\ Upper(T2, x) = Upper(T, x)
  BY <1>1 DEF Lower, Upper
<1>7. Lower(T2, k) = {} /\ Upper(T2, k) = {}
  BY <1>1 DEF Lower, Upper
\* The children of what the search passes, and of the rest.
<1>8. ASSUME NEW x \in S
      PROVE  /\ Holds(T, Lower(T, x), lf[x]) /\ Holds(T, Upper(T, x), rg[x])
             /\ lf[x] = Null <=> Lower(T, x) = {}
             /\ rg[x] = Null <=> Upper(T, x) = {}
             /\ lf[x] # Null => /\ lf[x] \in S /\ lf[x] \in T[x] /\ lf[x] < x
                                /\ lf[x] \in Lower(T, x) /\ T[lf[x]] = Lower(T, x)
             /\ rg[x] # Null => /\ rg[x] \in S /\ rg[x] \in T[x] /\ x < rg[x]
                                /\ rg[x] \in Upper(T, x) /\ T[rg[x]] = Upper(T, x)
  <2>1. Holds(T, Lower(T, x), lf[x]) /\ Holds(T, Upper(T, x), rg[x]) /\ T[x] \in SUBSET S
    BY Sides
  <2>2. /\ \A y \in Lower(T, x) : y \in S /\ y # Null /\ y \in T[x] /\ y < x
        /\ \A y \in Upper(T, x) : y \in S /\ y # Null /\ y \in T[x] /\ x < y
    BY <2>1 DEF Lower, Upper
  <2> QED
    BY <2>1, <2>2 DEF Holds
<1>9. ASSUME NEW x \in S, lf[x] # Null
      PROVE  lf[x] \in P <=> x \in P /\ k < x
  <2>1. lf[x] \in S /\ lf[x] \in T[x] /\ lf[x] < x /\ lf[x] # x /\ x \in Nat
    BY <1>2, <1>8, <1>9
  <2>2. lf[x] \in P => x \in P /\ k < x
    <3>1. lf[x] \in P => x \in P
      BY <2>1, PathUp DEF P
    <3>2. lf[x] \in P => k < x
      BY <2>1 DEF P, On
    <3> QED
      BY <3>1, <3>2
  <2>3. x \in P /\ k < x => lf[x] \in P
    BY <1>9, <2>1, PathDown DEF P
  <2> QED
    BY <2>2, <2>3
<1>10. ASSUME NEW x \in S, rg[x] # Null
       PROVE  rg[x] \in P <=> x \in P /\ x < k
  <2>1. rg[x] \in S /\ rg[x] \in T[x] /\ x < rg[x] /\ rg[x] # x /\ x \in Nat /\ x # k /\ rg[x] \in Nat
    <3>1. rg[x] \in S /\ rg[x] \in T[x] /\ x < rg[x] /\ x # k
      BY <1>2, <1>8, <1>10
    <3>2. x \in Nat /\ rg[x] \in Nat
      BY <3>1
    <3> QED
      BY <3>1, <3>2
  <2>2. rg[x] \in P => x \in P /\ x < k
    <3>1. rg[x] \in P => x \in P
      BY <2>1, PathUp DEF P
    <3>2. rg[x] \in P => ~(k < x)
      BY <2>1 DEF P, On
    <3> QED
      BY <2>1, <3>1, <3>2
  <2>3. x \in P /\ x < k => rg[x] \in P
    <3>1. SUFFICES ASSUME x \in P, x < k
                   PROVE  rg[x] \in P
      OBVIOUS
    <3>2. k < x <=> rg[x] < x
      BY <2>1, <3>1
    <3> QED
      BY <1>10, <2>1, <3>1, <3>2, PathDown DEF P
  <2> QED
    BY <2>2, <2>3
<1>11. ASSUME NEW x \in S
       PROVE  Holds(T2, Lower(T2, x), lf2[x])
  <2>1. CASE lf[x] = Null
    <3>1. Lower(T, x) = {}
      BY <1>8, <2>1
    <3>2. CASE x \in P /\ k < x
      <4>1. Lower(T2, x) = {k} /\ lf2[x] = k
        BY <1>5, <2>1, <3>1, <3>2 DEF P
      <4> QED
        BY <1>1, <4>1 DEF Holds
    <3>3. CASE ~(x \in P /\ k < x)
      <4>1. Lower(T2, x) = {} /\ lf2[x] = Null
        BY <1>5, <1>6, <2>1, <3>1, <3>3 DEF P
      <4> QED
        BY <4>1 DEF Holds
    <3> QED
      BY <3>2, <3>3
  <2>2. CASE lf[x] # Null
    <3>1. lf2[x] = lf[x] /\ lf[x] \in Lower(T, x) /\ T[lf[x]] = Lower(T, x) /\ lf[x] \in S
      BY <1>8, <2>2
    <3>2. CASE x \in P /\ k < x
      <4>1. lf[x] \in P
        BY <1>9, <2>2, <3>2
      <4>2. T2[lf[x]] = Lower(T, x) \cup {k}
        BY ZenonT(60), <1>1, <3>1, <4>1
      <4>3. Lower(T2, x) = Lower(T, x) \cup {k}
        BY <1>5, <3>2
      <4> QED
        BY <3>1, <4>2, <4>3 DEF Holds
    <3>3. CASE ~(x \in P /\ k < x)
      <4>1. lf[x] \notin P /\ Lower(T2, x) = Lower(T, x)
        BY <1>5, <1>6, <1>9, <2>2, <3>3
      <4> QED
        BY ZenonT(60), <1>1, <3>1, <4>1 DEF Holds
    <3> QED
      BY <3>2, <3>3
  <2> QED
    BY <2>1, <2>2
<1>12. ASSUME NEW x \in S
       PROVE  Holds(T2, Upper(T2, x), rg2[x])
  <2>1. CASE rg[x] = Null
    <3>1. Upper(T, x) = {}
      BY <1>8, <2>1
    <3>2. CASE x \in P /\ x < k
      <4>1. Upper(T2, x) = {k} /\ rg2[x] = k
        BY <1>5, <2>1, <3>1, <3>2 DEF P
      <4> QED
        BY <1>1, <4>1 DEF Holds
    <3>3. CASE ~(x \in P /\ x < k)
      <4>1. Upper(T2, x) = {} /\ rg2[x] = Null
        BY <1>5, <1>6, <2>1, <3>1, <3>3 DEF P
      <4> QED
        BY <4>1 DEF Holds
    <3> QED
      BY <3>2, <3>3
  <2>2. CASE rg[x] # Null
    <3>1. rg2[x] = rg[x] /\ rg[x] \in Upper(T, x) /\ T[rg[x]] = Upper(T, x) /\ rg[x] \in S
      BY <1>8, <2>2
    <3>2. CASE x \in P /\ x < k
      <4>1. rg[x] \in P
        BY <1>10, <2>2, <3>2
      <4>2. T2[rg[x]] = Upper(T, x) \cup {k}
        BY ZenonT(60), <1>1, <3>1, <4>1
      <4>3. Upper(T2, x) = Upper(T, x) \cup {k}
        BY <1>5, <3>2
      <4> QED
        BY <3>1, <4>2, <4>3 DEF Holds
    <3>3. CASE ~(x \in P /\ x < k)
      <4>1. rg[x] \notin P /\ Upper(T2, x) = Upper(T, x)
        BY <1>5, <1>6, <1>10, <2>2, <3>3
      <4> QED
        BY ZenonT(60), <1>1, <3>1, <4>1 DEF Holds
    <3> QED
      BY <3>2, <3>3
  <2> QED
    BY <2>1, <2>2
<1>13. \A x \in S2 : Holds(T2, Lower(T2, x), lf2[x]) /\ Holds(T2, Upper(T2, x), rg2[x])
  <2>1. Holds(T2, Lower(T2, k), lf2[k]) /\ Holds(T2, Upper(T2, k), rg2[k])
    BY <1>7 DEF Holds
  <2> QED
    BY <1>11, <1>12, <2>1
<1>14. ASSUME NEW x \in S2, NEW y \in T2[x]
       PROVE  /\ y < x => T2[y] \subseteq Lower(T2, x)
              /\ x < y => T2[y] \subseteq Upper(T2, x)
  <2>1. CASE y = k
    BY <1>1, <1>14, <2>1 DEF Lower, Upper
  <2>2. CASE y # k
    <3>1. x \in S /\ x \in Nat /\ y \in T[x] /\ y \in S /\ y \in Nat
      BY <1>1, <1>2, <1>14, <2>2
    <3>2. /\ y < x => T[y] \subseteq Lower(T, x)
          /\ x < y => T[y] \subseteq Upper(T, x)
      BY <3>1 DEF Tree
    <3>3. Lower(T, x) \subseteq Lower(T2, x) /\ Upper(T, x) \subseteq Upper(T2, x)
      BY <1>5, <1>6, <3>1
    <3>4. CASE y \in P
      <4>1. x \in P
        BY <3>1, <3>4, PathUp DEF P
      <4>2. x # y => (k < x <=> y < x)
        BY <3>1, <3>4 DEF P, On
      <4>3. T2[y] = T[y] \cup {k} /\ x # k
        BY <1>1, <1>2, <3>1, <3>4
      <4>4. /\ y < x => k \in Lower(T2, x)
            /\ x < y => k \in Upper(T2, x)
        <5>1. (y < x => k < x) /\ (x < y => x < k)
          BY <3>1, <4>2, <4>3
        <5> QED
          BY <1>5, <4>1, <5>1
      <4> QED
        BY <3>2, <3>3, <4>3, <4>4
    <3>5. CASE y \notin P
      <4>1. T2[y] = T[y]
        BY <1>1, <3>1, <3>5
      <4> QED
        BY <3>2, <3>3, <4>1
    <3> QED
      BY <3>4, <3>5
  <2> QED
    BY <2>1, <2>2
<1>15. Tree(T2, S2, IF S = {} THEN k ELSE a, lf2, rg2)
  BY <1>3, <1>4, <1>13, <1>14 DEF Tree
<1> QED
  BY <1>15

-----------------------------------------------------------------------------
(* Walks along the pointers are recursive functions of the steps taken.    *)

\* h says where g leads from a in up to N steps.
Leads(A, g, a, N, h) ==
  /\ h \in [0..N -> A] /\ h[0] = a
  /\ \A n \in 1..N : h[n] = g[h[n - 1]]

\* Where g leads from a is a function of the number of steps.
LEMMA Iterates ==
  ASSUME NEW A, NEW g \in [A -> A], NEW a \in A, NEW N \in Nat
  PROVE  \E h : Leads(A, g, a, N, h)
<1> USE DEF Leads
<1> DEFINE Is(n, h) == Leads(A, g, a, n, h)
           S == {n \in Nat : \E h : Is(n, h)}
<1>1. 0 \in S
  <2>1. Is(0, [i \in 0..0 |-> a])
    BY SMT
  <2> QED
    BY <2>1
<1>2. ASSUME NEW n \in Nat, n \in S
      PROVE  n + 1 \in S
  <2>1. PICK h : Is(n, h)
    BY <1>2
  <2> DEFINE e == [i \in 0..(n + 1) |-> IF i = n + 1 THEN g[h[n]] ELSE h[i]]
  <2>2. /\ \A i \in 0..n : e[i] = h[i]
        /\ e[n + 1] = g[h[n]]
    BY SMT
  <2>3. e \in [0..(n + 1) -> A]
    BY <2>1
  <2> HIDE DEF e
  <2>4. e[0] = a
    BY <2>1, <2>2
  <2>5. ASSUME NEW i \in 1..(n + 1)
        PROVE  e[i] = g[e[i - 1]]
    <3>1. i - 1 \in 0..n
      OBVIOUS
    <3>2. CASE i = n + 1
      BY <2>2, <3>1, <3>2
    <3>3. CASE i # n + 1
      <4>1. i \in 1..n /\ i \in 0..n
        BY <3>3
      <4> QED
        BY <2>1, <2>2, <3>1, <4>1
    <3> QED
      BY <3>2, <3>3
  <2>6. Is(n + 1, e)
    BY <2>3, <2>4, <2>5
  <2> HIDE DEF Is, Leads
  <2> QED
    BY <2>6
<1>3. N \in S
  <2> HIDE DEF S, Leads
  <2> QED
    BY <1>1, <1>2, NatBySteps
<1> HIDE DEF Leads
<1> QED
  BY <1>3

\* The slots there are: the root pointer and two for every item.
Slots == {s \in Slot : s.dir = "root" <=> s.of = Null}

\* A turn of the loop in _map_find().
Probe(key, s) ==
  LET q == At(s)
  IN IF q \in {Null, key} THEN s ELSE [dir |-> IF key < q THEN "l" ELSE "r", of |-> q]

\* The pointers that map_find() follows have their types.
PointersOK ==
  /\ root \in Pointer
  /\ l \in [Keys -> Pointer] /\ r \in [Keys -> Pointer]

\* How many keys there are.
Many == Cardinality(Keys)

\* The number of keys bounds every way along the pointers.
LEMMA ManyType == Many \in Nat /\ Keys \in SUBSET Nat /\ Null \notin Keys /\ IsFiniteSet(Keys)
BY KeysAssumption, FS_CardinalityType DEF Many

\* A slot holds a pointer, and has a side and an item unless it is the root.
LEMMA SlotFacts ==
  ASSUME PointersOK, NEW s \in Slots
  PROVE  /\ At(s) \in Pointer
         /\ s = [dir |-> s.dir, of |-> s.of]
         /\ \/ s.dir = "root" /\ s.of = Null /\ At(s) = root
            \/ s.dir = "l" /\ s.of \in Keys /\ At(s) = l[s.of]
            \/ s.dir = "r" /\ s.of \in Keys /\ At(s) = r[s.of]
<1>1. s \in Slot /\ (s.dir = "root" <=> s.of = Null)
  BY DEF Slots
<1>2. s = [dir |-> s.dir, of |-> s.of] /\ s.dir \in {"root", "l", "r"} /\ s.of \in Pointer
  BY <1>1 DEF Slot
<1>3. CASE s.dir = "root"
  BY <1>1, <1>2, <1>3 DEF At, PointersOK
<1>4. CASE s.dir = "l"
  <2>1. At(s) = l[s.of] /\ s.of \in Keys
    BY <1>1, <1>2, <1>4 DEF At, Pointer
  <2> QED
    BY <1>2, <1>4, <2>1 DEF PointersOK
<1>5. CASE s.dir = "r"
  <2>1. At(s) = r[s.of] /\ s.of \in Keys
    BY <1>1, <1>2, <1>5 DEF At, Pointer
  <2> QED
    BY <1>2, <1>5, <2>1 DEF PointersOK
<1> QED
  BY <1>2, <1>3, <1>4, <1>5

\* A turn of the search leads from slot to slot.
LEMMA ProbeType ==
  ASSUME PointersOK, NEW key, NEW s \in Slots
  PROVE  Probe(key, s) \in Slots
<1>1. CASE At(s) \in {Null, key}
  BY <1>1 DEF Probe
<1>2. CASE At(s) \notin {Null, key}
  <2>1. At(s) \in Pointer /\ At(s) # Null
    BY <1>2, SlotFacts
  <2>2. Probe(key, s) = [dir |-> IF key < At(s) THEN "l" ELSE "r", of |-> At(s)]
    BY <1>2 DEF Probe
  <2> HIDE DEF Null
  <2> QED
    BY <2>1, <2>2 DEF Slots, Slot
<1> QED
  BY <1>1, <1>2

\* _map_find() probes from the root on, once for each key there could be.
LEMMA FindSteps ==
  ASSUME PointersOK, NEW key \in Keys
  PROVE  \E d \in [0..Many -> Slots] :
           /\ Find(key) = d[Many]
           /\ d[0] = [dir |-> "root", of |-> Null]
           /\ \A n \in Nat : n + 1 <= Many => d[n + 1] = Probe(key, d[n])
<1> DEFINE top == [dir |-> "root", of |-> Null]
           g == [s \in Slots |-> Probe(key, s)]
           Is(d) == d = [n \in 0..Many |-> IF n = 0 THEN top ELSE Probe(key, d[n - 1])]
           f == CHOOSE d : Is(d)
<1>1. g \in [Slots -> Slots] /\ top \in Slots
  <2>1. g \in [Slots -> Slots]
    BY ProbeType
  <2>2. top \in Slots
    BY DEF Slots, Slot, Pointer
  <2> QED
    BY <2>1, <2>2
<1>2. PICK h : Leads(Slots, g, top, Many, h)
  <2>1. Many \in Nat
    BY ManyType
  <2> HIDE DEF g, top
  <2> QED
    BY <1>1, <2>1, Iterates
<1>3. Is(h)
  <2>1. \A n \in 1..Many : g[h[n - 1]] = Probe(key, h[n - 1])
    <3>1. \A n \in 1..Many : n - 1 \in 0..Many
      BY ManyType
    <3> QED
      BY <1>2, <3>1 DEF Leads
  <2>2. \A n \in 0..Many : n # 0 => n \in 1..Many
    BY ManyType
  <2>3. 0 \in 0..Many
    BY ManyType
  <2> HIDE DEF g, top
  <2> QED
    BY <1>2, <2>1, <2>2, <2>3 DEF Leads
<1>4. Is(f)
  BY <1>3
<1>5. Find(key) = f[Many]
  BY DEF Find, Probe, Many
<1> HIDE DEF f, top
<1>6. DOMAIN f = 0..Many /\ f[0] = top
  BY <1>4, ManyType
<1>7. ASSUME NEW n \in Nat, n + 1 <= Many
      PROVE  f[n + 1] = Probe(key, f[n])
  <2>1. n + 1 \in 0..Many /\ n + 1 # 0 /\ (n + 1) - 1 = n
    BY <1>7, ManyType
  <2>2. f[n + 1] = IF n + 1 = 0 THEN top ELSE Probe(key, f[(n + 1) - 1])
    BY <1>4, <2>1
  <2> QED
    BY <2>1, <2>2
<1>8. f \in [0..Many -> Slots]
  <2> DEFINE S == {n \in Nat : n <= Many => f[n] \in Slots}
  <2>1. 0 \in S
    BY <1>1, <1>6
  <2>2. ASSUME NEW n \in Nat, n \in S
        PROVE  n + 1 \in S
    BY <1>7, <2>2, ProbeType, ManyType
  <2>3. \A n \in Nat : n \in S
    <3> HIDE DEF S
    <3> QED
      BY <2>1, <2>2, NatBySteps
  <2>4. \A n \in 0..Many : f[n] \in Slots
    BY <2>3, ManyType
  <2>5. f = [n \in 0..Many |-> f[n]]
    BY <1>4
  <2> QED
    BY <2>4, <2>5
<1> QED
  BY <1>5, <1>6, <1>7, <1>8 DEF top

-----------------------------------------------------------------------------
(* The search, on a map whose items are a tree.                            *)

\* T says what is below each item.
Shape(T) ==
  /\ PointersOK
  /\ items \subseteq Keys
  /\ Tree(T, items, root, l, r)

\* What the invariant says, with the sizes of the subtrees.
LEMMA ShapeFacts ==
  ASSUME NEW T, Shape(T)
  PROVE  /\ PointersOK /\ Tree(T, items, root, l, r)
         /\ items \in SUBSET Nat /\ items \subseteq Keys /\ Null \notin items /\ IsFiniteSet(items)
         /\ \A x \in items : T[x] \in SUBSET items /\ x \in T[x]
         /\ \A x \in items : Cardinality(T[x]) \in Nat /\ 1 <= Cardinality(T[x]) /\ Cardinality(T[x]) <= Many
<1>1. /\ PointersOK /\ Tree(T, items, root, l, r)
      /\ items \in SUBSET Nat /\ items \subseteq Keys /\ Null \notin items /\ IsFiniteSet(items)
  <2>1. PointersOK /\ Tree(T, items, root, l, r) /\ items \subseteq Keys
    BY DEF Shape
  <2>2. IsFiniteSet(items) /\ items \in SUBSET Nat /\ Null \notin items
    BY <2>1, ManyType, FS_Subset
  <2> QED
    BY <2>1, <2>2
<1>2. \A x \in items : T[x] \in SUBSET items /\ x \in T[x]
  BY <1>1, Sides
<1>3. ASSUME NEW x \in items
      PROVE  Cardinality(T[x]) \in Nat /\ 1 <= Cardinality(T[x]) /\ Cardinality(T[x]) <= Many
  <2>1. T[x] \subseteq Keys /\ x \in T[x]
    BY <1>1, <1>2
  <2>2. IsFiniteSet(T[x]) /\ Cardinality(T[x]) \in Nat /\ Cardinality(T[x]) <= Many
    BY <2>1, ManyType, FS_Subset, FS_CardinalityType DEF Many
  <2>3. Cardinality(T[x]) # 0
    BY <2>1, <2>2, FS_EmptySet
  <2> QED
    BY <2>2, <2>3
<1> QED
  BY <1>1, <1>2, <1>3

\* What the search for a key has found when it is at the slot s after n turns.
Passed(T, key, n, s) ==
  /\ s \in Slots
  /\ s.of # Null => /\ s.of \in On(T, items, key)
                    /\ s.dir = "l" => key < s.of
                    /\ s.dir = "r" => s.of < key
  /\ \A x \in On(T, items, key) : \/ At(s) # Null /\ x \in T[At(s)]
                                  \/ s.of # Null /\ s.of \in T[x]
  /\ key \in items => At(s) # Null /\ key \in T[At(s)]
  /\ At(s) \in {Null, key} \/ Cardinality(T[At(s)]) + n <= Many

\* A slot of the tree leads to an item below the one it belongs to.
LEMMA SlotHolds ==
  ASSUME NEW T, Shape(T), NEW s \in Slots, s.of # Null => s.of \in items
  PROVE  /\ At(s) # Null => At(s) \in items
         /\ s.of = Null => s.dir = "root" /\ At(s) = root /\ Holds(T, items, At(s))
         /\ s.of # Null =>
              /\ s.dir \in {"l", "r"}
              /\ s.dir = "l" => At(s) = l[s.of] /\ Holds(T, Lower(T, s.of), At(s))
              /\ s.dir = "r" => At(s) = r[s.of] /\ Holds(T, Upper(T, s.of), At(s))
              /\ At(s) # Null => At(s) \in T[s.of] /\ At(s) \in {l[s.of], r[s.of]}
<1>1. Tree(T, items, root, l, r) /\ items \in SUBSET Nat /\ Null \notin items /\ PointersOK
  BY ShapeFacts
<1>2. CASE s.of = Null
  <2>1. At(s) = root /\ Holds(T, items, root) /\ s.dir = "root"
    BY <1>1, <1>2, SlotFacts, ManyType DEF Tree
  <2> QED
    BY <1>2, <2>1 DEF Holds
<1>3. CASE s.of # Null
  <2>1. s.of \in items /\ s.dir # "root"
    BY <1>3 DEF Slots
  <2>2. /\ Holds(T, Lower(T, s.of), l[s.of]) /\ Holds(T, Upper(T, s.of), r[s.of])
    BY <1>1, <2>1, Sides
  <2>3. (s.dir = "l" /\ At(s) = l[s.of]) \/ (s.dir = "r" /\ At(s) = r[s.of])
    BY <1>1, <2>1, SlotFacts
  <2>4. Lower(T, s.of) \subseteq T[s.of] /\ Upper(T, s.of) \subseteq T[s.of]
    BY DEF Lower, Upper
  <2>5. l[s.of] # Null => l[s.of] \in T[s.of]
    BY <2>2, <2>4 DEF Holds
  <2>6. r[s.of] # Null => r[s.of] \in T[s.of]
    BY <2>2, <2>4 DEF Holds
  <2>7. T[s.of] \in SUBSET items
    BY <2>1, ShapeFacts
  <2> QED
    BY <1>3, <2>2, <2>3, <2>5, <2>6, <2>7
<1> QED
  BY <1>2, <1>3

\* Each turn keeps what the search has found, and leaves less to search.
LEMMA Turn ==
  ASSUME NEW T, Shape(T), NEW key \in Keys, NEW n \in Nat, NEW s, Passed(T, key, n, s)
  PROVE  Passed(T, key, n + 1, Probe(key, s))
<1>1. /\ s \in Slots /\ PointersOK
      /\ s.of # Null => s.of \in items
      /\ s.of # Null => s.of \in On(T, items, key)
      /\ key \in Nat /\ items \in SUBSET Nat /\ Null \notin items /\ IsFiniteSet(items)
      /\ Tree(T, items, root, l, r)
  BY ShapeFacts, ManyType DEF Passed, On
<1>2. CASE At(s) \in {Null, key}
  <2>1. Probe(key, s) = s
    BY <1>2 DEF Probe
  <2> QED
    BY <1>2, <2>1 DEF Passed
<1>3. CASE At(s) \notin {Null, key}
  <2> DEFINE q == At(s)
             s2 == Probe(key, s)
             U == IF key < q THEN Lower(T, q) ELSE Upper(T, q)
  <2>1. /\ q \in items /\ q \in Nat /\ q # key /\ q # Null
        /\ s.of # Null => q \in T[s.of]
    BY <1>1, <1>3, SlotHolds
  <2>2. /\ s2 \in Slots /\ s2.of = q /\ s2.dir = (IF key < q THEN "l" ELSE "r")
    <3>1. s2 = [dir |-> IF key < q THEN "l" ELSE "r", of |-> q]
      BY <1>3 DEF Probe
    <3>2. s2 \in Slots
      BY <1>1, ProbeType
    <3> QED
      BY <3>1, <3>2
  <2>3. T[q] \in SUBSET items /\ q \in T[q]
    BY <2>1, ShapeFacts
  <2>4. Holds(T, U, At(s2))
    BY <2>1, <2>2, SlotHolds
  <2>5. \A z \in T[q] : z # q /\ (key < q <=> z < q) => At(s2) # Null /\ z \in T[At(s2)]
    <3>1. SUFFICES ASSUME NEW z \in T[q], z # q, key < q <=> z < q
                   PROVE  At(s2) # Null /\ z \in T[At(s2)]
      OBVIOUS
    <3>2. z \in Nat /\ q \in Nat
      BY <1>1, <2>1, <2>3
    <3>3. z \in U
      BY <3>1, <3>2 DEF Lower, Upper
    <3>4. U \subseteq items
      BY <2>3 DEF Lower, Upper
    <3> QED
      BY <1>1, <2>4, <3>3, <3>4 DEF Holds
  <2>6. q \in On(T, items, key)
    <3>1. CASE s.of = Null
      <4>1. q = root /\ items # {}
        BY <1>1, <2>1, <3>1, SlotHolds
      <4> QED
        BY <1>1, <4>1, PathRoot
    <3>2. CASE s.of # Null
      <4>1. s.of \in On(T, items, key) /\ q \in {l[s.of], r[s.of]}
        BY <1>1, <2>1, <3>2, SlotHolds
      <4>2. key < s.of <=> q < s.of
        <5>1. /\ s.dir = "l" => key < s.of
              /\ s.dir = "r" => s.of < key
          BY <3>2 DEF Passed
        <5>2. /\ s.dir \in {"l", "r"}
              /\ s.dir = "l" => Holds(T, Lower(T, s.of), q)
              /\ s.dir = "r" => Holds(T, Upper(T, s.of), q)
          BY <1>1, <3>2, SlotHolds
        <5>3. s.of \in Nat /\ q \in Nat /\ key \in Nat
          BY <1>1, <2>1, <3>2
        <5>4. CASE s.dir = "l"
          <6>1. q < s.of
            BY <2>1, <5>2, <5>4 DEF Holds, Lower
          <6> QED
            BY <5>1, <5>4, <6>1
        <5>5. CASE s.dir = "r"
          <6>1. s.of < q
            BY <2>1, <5>2, <5>5 DEF Holds, Upper
          <6> QED
            BY <5>1, <5>3, <5>5, <6>1
        <5> QED
          BY <5>2, <5>4, <5>5
      <4> QED
        BY <1>1, <2>1, <4>1, <4>2, PathDown
    <3> QED
      BY <3>1, <3>2
  <2>7. /\ s2.dir = "l" => key < s2.of
        /\ s2.dir = "r" => s2.of < key
    BY <1>1, <2>1, <2>2
  <2>8. ASSUME NEW x \in On(T, items, key)
        PROVE  \/ At(s2) # Null /\ x \in T[At(s2)]
               \/ s2.of # Null /\ s2.of \in T[x]
    <3>1. x \in items /\ x \in T[x]
      BY ShapeFacts DEF On
    <3>2. CASE x \in T[q]
      <4>1. x # q => (key < q <=> x < q)
        BY <2>1, <3>2 DEF On
      <4> QED
        BY <2>1, <2>2, <2>5, <3>1, <3>2, <4>1
    <3>3. CASE s.of # Null /\ s.of \in T[x]
      <4>1. T[s.of] \subseteq T[x]
        <5>1. Tree(T, items, root, l, r) /\ items \in SUBSET Nat
          BY <1>1
        <5>2. x \in items /\ s.of \in T[x]
          BY <3>1, <3>3
        <5> QED
          BY <5>1, <5>2, Below
      <4> QED
        BY <2>1, <2>2, <3>3, <4>1
    <3> QED
      BY <3>2, <3>3 DEF Passed
  <2>9. key \in items => At(s2) # Null /\ key \in T[At(s2)]
    BY <2>1, <2>5 DEF Passed
  <2>10. At(s2) \in {Null, key} \/ Cardinality(T[At(s2)]) + (n + 1) <= Many
    <3>1. SUFFICES ASSUME At(s2) # Null
                   PROVE  Cardinality(T[At(s2)]) + (n + 1) <= Many
      OBVIOUS
    <3>2. T[At(s2)] = U /\ At(s2) \in items
      <4>1. At(s2) \in items
        BY <2>1, <2>2, <3>1, SlotHolds
      <4> QED
        BY <2>4, <3>1, <4>1 DEF Holds
    <3>3. U \subseteq T[q] \ {q}
      BY <2>1, <2>3 DEF Lower, Upper
    <3>4. IsFiniteSet(T[q])
      BY <1>1, <2>3, FS_Subset
    <3>5. IsFiniteSet(T[q] \ {q}) /\ Cardinality(T[q] \ {q}) = Cardinality(T[q]) - 1
      BY <2>3, <3>4, FS_RemoveElement
    <3>6. Cardinality(T[At(s2)]) <= Cardinality(T[q]) - 1
      BY <3>2, <3>3, <3>5, FS_Subset
    <3>7. Cardinality(T[q]) + n <= Many
      BY <1>3 DEF Passed
    <3>8. Cardinality(T[q]) \in Nat /\ Cardinality(T[At(s2)]) \in Nat /\ Many \in Nat
      BY <2>1, <3>2, ShapeFacts, ManyType
    <3> QED
      BY <3>6, <3>7, <3>8
  <2> HIDE DEF s2, q
  <2>11. Passed(T, key, n + 1, s2)
    <3>1. s2.of # Null => s2.of \in On(T, items, key)
      BY <2>2, <2>6
    <3> QED
      BY <2>2, <2>7, <2>8, <2>9, <2>10, <3>1 DEF Passed
  <2> QED
    BY <2>11 DEF s2
<1> QED
  BY <1>2, <1>3

\* The search ends at the key or where it belongs.
LEMMA FindFacts ==
  ASSUME NEW T, Shape(T), NEW key \in Keys
  PROVE  /\ Passed(T, key, Many, Find(key))
         /\ At(Find(key)) \in {Null, key}
         /\ Found(key) <=> key \in items
<1>1. PICK d \in [0..Many -> Slots] :
        /\ Find(key) = d[Many]
        /\ d[0] = [dir |-> "root", of |-> Null]
        /\ \A n \in Nat : n + 1 <= Many => d[n + 1] = Probe(key, d[n])
  BY ShapeFacts, FindSteps
<1> DEFINE S == {n \in Nat : n <= Many => Passed(T, key, n, d[n])}
<1>2. 0 \in S
  <2>1. d[0] \in Slots /\ d[0].dir = "root" /\ d[0].of = Null
    BY <1>1, ManyType
  <2>2. At(d[0]) = root /\ Holds(T, items, root)
    BY <2>1, SlotHolds
  <2>3. items # {} => root # Null /\ T[root] = items /\ root \in items
    BY <2>2, ShapeFacts DEF Holds
  <2>4. items = {} => root = Null
    BY <2>2 DEF Holds
  <2>5. root \in {Null, key} \/ Cardinality(T[root]) + 0 <= Many
    <3>1. items # {} => Cardinality(T[root]) \in Nat /\ Cardinality(T[root]) <= Many
      BY <2>3, ShapeFacts
    <3> QED
      BY <2>4, <3>1, ManyType
  <2>6. Passed(T, key, 0, d[0])
    BY <2>1, <2>2, <2>3, <2>4, <2>5 DEF Passed, On
  <2> QED
    BY <2>6
<1>3. ASSUME NEW n \in Nat, n \in S
      PROVE  n + 1 \in S
  BY <1>1, <1>3, Turn, ManyType
<1>4. Many \in S
  <2>1. \A n \in Nat : n \in S
    <3> HIDE DEF S
    <3> QED
      BY <1>2, <1>3, NatBySteps
  <2> QED
    BY <2>1, ManyType
<1>5. Passed(T, key, Many, Find(key))
  BY <1>1, <1>4, ManyType
<1>6. At(Find(key)) \in {Null, key}
  <2>1. SUFFICES ASSUME At(Find(key)) \notin {Null, key}
                 PROVE  FALSE
    OBVIOUS
  <2>2. At(Find(key)) \in items
    BY <1>5, <2>1, SlotHolds DEF Passed, On
  <2>3. Cardinality(T[At(Find(key))]) + Many <= Many
    BY <1>5, <2>1 DEF Passed
  <2> QED
    BY <2>2, <2>3, ShapeFacts, ManyType
<1>7. Found(key) <=> key \in items
  <2>1. key \in items => At(Find(key)) = key
    BY <1>5, <1>6 DEF Passed
  <2>2. At(Find(key)) = key => key \in items
    <3>1. key # Null
      BY ManyType
    <3> QED
      BY <1>5, <3>1, SlotHolds DEF Passed, On
  <2> QED
    BY <2>1, <2>2 DEF Found
<1> QED
  BY <1>5, <1>6, <1>7

-----------------------------------------------------------------------------
(* The greatest item on the left of one that is removed.                   *)

\* Leftmost() and Rightmost() follow l or r, once for each key there could be.
LEMMA EndSteps ==
  ASSUME NEW child \in [Keys -> Pointer], NEW k \in Keys
  PROVE  \E d \in [0..Many -> Keys] :
           /\ End(child, k) = d[Many]
           /\ d[0] = k
           /\ \A n \in Nat : n + 1 <= Many =>
                d[n + 1] = IF child[d[n]] = Null THEN d[n] ELSE child[d[n]]
<1> DEFINE on(x) == IF child[x] = Null THEN x ELSE child[x]
           g == [x \in Keys |-> on(x)]
           Is(d) == d = [n \in 0..Many |-> IF n = 0 THEN k ELSE on(d[n - 1])]
           f == CHOOSE d : Is(d)
<1>1. \A x \in Keys : on(x) \in Keys
  BY DEF Pointer
<1>2. g \in [Keys -> Keys]
  BY <1>1
<1>3. PICK h : Leads(Keys, g, k, Many, h)
  <2>1. Many \in Nat
    BY ManyType
  <2> HIDE DEF g
  <2> QED
    BY <1>2, <2>1, Iterates
<1>4. Is(h)
  <2>1. \A n \in 1..Many : g[h[n - 1]] = on(h[n - 1])
    <3>1. \A n \in 1..Many : n - 1 \in 0..Many
      BY ManyType
    <3> QED
      BY <1>3, <3>1 DEF Leads
  <2>2. \A n \in 0..Many : n # 0 => n \in 1..Many
    BY ManyType
  <2>3. 0 \in 0..Many
    BY ManyType
  <2> HIDE DEF g, on
  <2> QED
    BY <1>3, <2>1, <2>2, <2>3 DEF Leads
<1>5. Is(f)
  BY <1>4
<1>6. End(child, k) = f[Many]
  BY DEF End, Many
<1> HIDE DEF f
<1>7. DOMAIN f = 0..Many /\ f[0] = k
  BY <1>5, ManyType
<1>8. ASSUME NEW n \in Nat, n + 1 <= Many
      PROVE  f[n + 1] = on(f[n])
  <2>1. n + 1 \in 0..Many /\ n + 1 # 0 /\ (n + 1) - 1 = n
    BY <1>8, ManyType
  <2> HIDE DEF on
  <2>2. f[n + 1] = IF n + 1 = 0 THEN k ELSE on(f[(n + 1) - 1])
    BY <1>5, <2>1
  <2> QED
    BY <2>1, <2>2
<1>9. f \in [0..Many -> Keys]
  <2> HIDE DEF on
  <2> DEFINE S == {n \in Nat : n <= Many => f[n] \in Keys}
  <2>1. 0 \in S
    BY <1>7
  <2>2. ASSUME NEW n \in Nat, n \in S
        PROVE  n + 1 \in S
    <3>1. SUFFICES ASSUME n + 1 <= Many
                   PROVE  f[n + 1] \in Keys
      OBVIOUS
    <3>2. f[n] \in Keys
      BY <2>2, <3>1, ManyType
    <3>3. on(f[n]) \in Keys
      BY <1>1, <3>2
    <3> QED
      BY <1>8, <3>1, <3>3
  <2>3. \A n \in Nat : n \in S
    <3> HIDE DEF S
    <3> QED
      BY <2>1, <2>2, NatBySteps
  <2>4. \A n \in 0..Many : f[n] \in Keys
    BY <2>3, ManyType
  <2>5. f = [n \in 0..Many |-> f[n]]
    BY <1>5
  <2> QED
    BY <2>4, <2>5
<1> QED
  BY <1>6, <1>7, <1>8, <1>9

\* Following r from the left child of k ends at the greatest item on its left,
\* which has no right child yet.
LEMMA RightmostFacts ==
  ASSUME NEW T, Shape(T), NEW k \in items, l[k] # Null
  PROVE  /\ Rightmost(l[k]) \in Lower(T, k)
         /\ \A y \in Lower(T, k) : y <= Rightmost(l[k])
         /\ r[Rightmost(l[k])] = Null
<1> DEFINE L == Lower(T, k)
<1>1. /\ PointersOK /\ Tree(T, items, root, l, r)
      /\ items \in SUBSET Nat /\ items \subseteq Keys /\ Null \notin items /\ IsFiniteSet(items)
  BY ShapeFacts
<1>2. l[k] \in L /\ T[l[k]] = L
  <2>1. Holds(T, L, l[k])
    BY <1>1, Sides
  <2> QED
    BY <2>1 DEF Holds
<1>3. /\ k \in Nat /\ T[k] \in SUBSET items
      /\ \A y \in L : y \in items /\ y \in Nat /\ y < k /\ y \in T[k]
  <2>1. T[k] \in SUBSET items
    BY ShapeFacts
  <2> QED
    BY <1>1, <2>1 DEF Lower
<1>4. \A y \in L : T[y] \subseteq L
  BY <1>1, <1>3, Sides DEF Lower
<1>5. PICK d \in [0..Many -> Keys] :
        /\ Rightmost(l[k]) = d[Many]
        /\ d[0] = l[k]
        /\ \A n \in Nat : n + 1 <= Many => d[n + 1] = IF r[d[n]] = Null THEN d[n] ELSE r[d[n]]
  <2>1. l[k] \in Keys /\ r \in [Keys -> Pointer]
    BY <1>1, <1>2, <1>3 DEF PointersOK
  <2> QED
    BY <2>1, EndSteps DEF Rightmost
<1> DEFINE Along(n, x) ==
             /\ x \in L
             /\ \A y \in L : y <= x \/ y \in T[x]
             /\ r[x] = Null \/ Cardinality(T[x]) + n <= Many
           S == {n \in Nat : n <= Many => Along(n, d[n])}
<1>6. 0 \in S
  <2>1. Cardinality(T[l[k]]) + 0 <= Many
    BY <1>2, <1>3, ShapeFacts, ManyType
  <2>2. Along(0, l[k])
    BY <1>2, <2>1
  <2> HIDE DEF Along
  <2> QED
    BY <1>5, <2>2
<1>7. ASSUME NEW n \in Nat, NEW x, Along(n, x), r[x] # Null
      PROVE  Along(n + 1, r[x])
  <2>1. x \in items /\ x \in Nat /\ T[x] \in SUBSET items /\ x \in T[x]
    BY <1>3, <1>7, ShapeFacts
  <2>2. r[x] \in Upper(T, x) /\ T[r[x]] = Upper(T, x)
    <3>1. Holds(T, Upper(T, x), r[x])
      BY <1>1, <2>1, Sides
    <3> QED
      BY <1>7, <3>1 DEF Holds
  <2>3. r[x] \in T[x] /\ x < r[x] /\ r[x] \in items /\ r[x] \in Nat
    BY <1>1, <2>1, <2>2 DEF Upper
  <2>4. r[x] \in L
    BY <1>4, <1>7, <2>3
  <2>5. ASSUME NEW y \in L
        PROVE  y <= r[x] \/ y \in T[r[x]]
    <3>1. y \in Nat
      BY <1>3
    <3>2. CASE y <= x
      BY <2>1, <2>3, <3>1, <3>2
    <3>3. CASE ~(y <= x)
      <4>1. y \in T[x] /\ x < y
        BY <1>7, <2>1, <3>1, <3>3
      <4> QED
        BY <2>2, <4>1 DEF Upper
    <3> QED
      BY <3>2, <3>3
  <2>6. Cardinality(T[r[x]]) + (n + 1) <= Many
    <3>1. Upper(T, x) \subseteq T[x] \ {x}
      BY <2>1 DEF Upper
    <3>2. IsFiniteSet(T[x])
      BY <1>1, <2>1, FS_Subset
    <3>3. IsFiniteSet(T[x] \ {x}) /\ Cardinality(T[x] \ {x}) = Cardinality(T[x]) - 1
      BY <2>1, <3>2, FS_RemoveElement
    <3>4. Cardinality(T[r[x]]) <= Cardinality(T[x]) - 1
      BY <2>2, <3>1, <3>3, FS_Subset
    <3>5. Cardinality(T[x]) + n <= Many
      BY <1>7
    <3>6. Cardinality(T[x]) \in Nat /\ Cardinality(T[r[x]]) \in Nat /\ Many \in Nat
      BY <2>1, <2>3, ShapeFacts, ManyType
    <3> QED
      BY <3>4, <3>5, <3>6
  <2> QED
    BY <2>4, <2>5, <2>6
<1>8. ASSUME NEW n \in Nat, n \in S
      PROVE  n + 1 \in S
  <2>1. SUFFICES ASSUME n + 1 <= Many
                 PROVE  Along(n + 1, d[n + 1])
    OBVIOUS
  <2>2. Along(n, d[n])
    BY <1>8, <2>1, ManyType
  <2>3. CASE r[d[n]] = Null
    <3>1. d[n + 1] = d[n]
      BY <1>5, <2>1, <2>3
    <3> QED
      BY <2>2, <2>3, <3>1
  <2>4. CASE r[d[n]] # Null
    <3>1. d[n + 1] = r[d[n]]
      BY <1>5, <2>1, <2>4
    <3> HIDE DEF Along
    <3> QED
      BY <1>7, <2>2, <2>4, <3>1
  <2> QED
    BY <2>3, <2>4
<1>9. Along(Many, Rightmost(l[k]))
  <2>1. \A n \in Nat : n \in S
    <3> HIDE DEF S
    <3> QED
      BY <1>6, <1>8, NatBySteps
  <2> HIDE DEF Along
  <2> QED
    BY <1>5, <2>1, ManyType
<1> DEFINE m == Rightmost(l[k])
<1> HIDE DEF m
<1>10. Along(Many, m)
  BY <1>9 DEF m
<1>11. r[m] = Null
  <2>1. Cardinality(T[m]) \in Nat /\ 1 <= Cardinality(T[m]) /\ Many \in Nat
    BY <1>3, <1>10, ShapeFacts, ManyType
  <2> QED
    BY <1>10, <2>1
<1>12. ASSUME NEW y \in L
       PROVE  y <= m
  <2>1. Holds(T, Upper(T, m), r[m]) /\ m \in Nat /\ m \in items /\ y \in Nat
    BY <1>1, <1>3, <1>10, Sides
  <2>2. Upper(T, m) = {}
    <3>1. Upper(T, m) \subseteq items
      BY <1>3, <1>4, <1>10 DEF Upper
    <3> QED
      BY <1>1, <1>11, <2>1, <3>1 DEF Holds
  <2>3. y \in T[m] => ~(m < y)
    BY <2>2 DEF Upper
  <2> QED
    BY <1>10, <2>1, <2>3
<1> QED
  BY <1>10, <1>11, <1>12 DEF m

-----------------------------------------------------------------------------
(* The invariant: the items are a tree below the root.                     *)

\* The items form a tree that root, l and r lead to.
MapInv == \E T : Shape(T)

\* v takes the place of an item that the search has found.
LEMMA Replaced ==
  ASSUME NEW T, Shape(T), NEW k \in items, NEW v \in Pointer,
         NEW lf \in [Keys -> Pointer], NEW rf \in [Keys -> Pointer], Store(Find(k), v, lf, rf)
  PROVE  /\ PointersOK'
         /\ root' = IF root = k THEN v ELSE root
         /\ \A x \in items \ {k} : l'[x] = IF l[x] = k THEN v ELSE lf[x]
         /\ \A x \in items \ {k} : r'[x] = IF r[x] = k THEN v ELSE rf[x]
<1> DEFINE s == Find(k)
<1>1. /\ PointersOK /\ Tree(T, items, root, l, r) /\ IsFiniteSet(items)
      /\ items \in SUBSET Nat /\ items \subseteq Keys /\ Null \notin items
  BY ShapeFacts
<1>2. At(s) = k /\ s \in Slots /\ (s.of # Null => s.of \in items)
  <2>1. Passed(T, k, Many, s) /\ Found(k)
    BY <1>1, FindFacts
  <2> QED
    BY <2>1 DEF Passed, On, Found
<1> HIDE DEF s
<1>3. /\ root' = IF s.dir = "root" THEN v ELSE root
      /\ l' = IF s.dir = "l" THEN [lf EXCEPT ![s.of] = v] ELSE lf
      /\ r' = IF s.dir = "r" THEN [rf EXCEPT ![s.of] = v] ELSE rf
  BY DEF Store, s
<1>4. PointersOK'
  BY <1>1, <1>3 DEF PointersOK
<1>5. \A x \in items : k \in {l[x], r[x]} =>
        root # k /\ ~(l[x] = k /\ r[x] = k) /\ \A y \in items : k \in {l[y], r[y]} => y = x
  BY <1>1, OneParent
<1>6. /\ s.dir = "root" => root = k /\ s.of = Null
      /\ s.dir = "l" => s.of \in items /\ l[s.of] = k
      /\ s.dir = "r" => s.of \in items /\ r[s.of] = k
      /\ s.dir \in {"root", "l", "r"}
  <2>1. CASE s.of = Null
    BY <1>2, <2>1, SlotHolds
  <2>2. CASE s.of # Null
    BY <1>2, <2>2, SlotHolds
  <2> QED
    BY <2>1, <2>2
<1>7. root' = IF root = k THEN v ELSE root
  BY <1>3, <1>5, <1>6
<1>8. ASSUME NEW x \in items \ {k}
      PROVE  l'[x] = IF l[x] = k THEN v ELSE lf[x]
  <2>1. s.dir = "l" => (l[x] = k <=> x = s.of)
    BY <1>5, <1>6
  <2>2. s.dir # "l" => l[x] # k
    BY <1>5, <1>6
  <2>3. x \in DOMAIN lf
    BY <1>1
  <2> QED
    BY <1>3, <2>1, <2>2, <2>3
<1>9. ASSUME NEW x \in items \ {k}
      PROVE  r'[x] = IF r[x] = k THEN v ELSE rf[x]
  <2>1. s.dir = "r" => (r[x] = k <=> x = s.of)
    BY <1>5, <1>6
  <2>2. s.dir # "r" => r[x] # k
    BY <1>5, <1>6
  <2>3. x \in DOMAIN rf
    BY <1>1
  <2> QED
    BY <1>3, <2>1, <2>2, <2>3
<1> QED
  BY <1>4, <1>7, <1>8, <1>9

\* map_add() leaves a tree.
LEMMA AddStep ==
  ASSUME NEW T, Shape(T), NEW k \in Keys, Add(k)
  PROVE  MapInv'
<1> DEFINE s == Find(k)
           lf == [l EXCEPT ![k] = Null]
           rf == [r EXCEPT ![k] = Null]
           P == On(T, items, k)
<1>1. /\ PointersOK /\ Tree(T, items, root, l, r) /\ IsFiniteSet(items)
      /\ items \in SUBSET Nat /\ items \subseteq Keys /\ Null \notin items
      /\ k \in Nat /\ k # Null
  BY ShapeFacts, ManyType
<1>2. At(s) = Null /\ s \in Slots /\ Passed(T, k, Many, s) /\ (s.of # Null => s.of \in items)
  <2>1. Passed(T, k, Many, s) /\ At(s) = Null
    BY FindFacts DEF Add
  <2> QED
    BY <2>1 DEF Passed, On
<1>3. k \notin items
  <2>1. Found(k) <=> k \in items
    BY FindFacts
  <2> QED
    BY <1>1, <1>2, <2>1 DEF Found
<1>4. /\ lf \in [Keys -> Pointer] /\ rf \in [Keys -> Pointer]
      /\ lf[k] = Null /\ rf[k] = Null
      /\ \A x \in items : lf[x] = l[x] /\ rf[x] = r[x]
      /\ k \in Pointer
  BY <1>1, <1>3 DEF PointersOK, Pointer
<1>5. /\ root' = IF s.dir = "root" THEN k ELSE root
      /\ l' = IF s.dir = "l" THEN [lf EXCEPT ![s.of] = k] ELSE lf
      /\ r' = IF s.dir = "r" THEN [rf EXCEPT ![s.of] = k] ELSE rf
      /\ items' = items \cup {k}
  BY DEF Add, Store
<1> HIDE DEF s, lf, rf, P
<1>6. PointersOK' /\ items' \subseteq Keys
  BY <1>1, <1>4, <1>5 DEF PointersOK
<1>7. /\ s.dir = "root" => root = Null /\ s.of = Null
      /\ s.dir = "l" => s.of \in items /\ s.of # Null /\ l[s.of] = Null
      /\ s.dir = "r" => s.of \in items /\ s.of # Null /\ r[s.of] = Null
      /\ s.dir \in {"root", "l", "r"}
  <2>1. CASE s.of = Null
    BY <1>2, <2>1, SlotHolds
  <2>2. CASE s.of # Null
    BY <1>2, <2>2, SlotHolds
  <2> QED
    BY <2>1, <2>2
<1>8. /\ s.dir = "l" => s.of \in P /\ k < s.of
      /\ s.dir = "r" => s.of \in P /\ s.of < k
      /\ \A x \in P : s.of # Null /\ s.of \in T[x]
  BY <1>2, <1>7 DEF Passed, P
<1>9. root' = IF items = {} THEN k ELSE root
  <2>1. items = {} <=> root = Null
    <3>1. Holds(T, items, root)
      BY <1>1 DEF Tree
    <3> QED
      BY <1>1, <3>1 DEF Holds
  <2>2. s.dir # "root" => items # {}
    BY <1>7
  <2> QED
    BY <1>5, <1>7, <2>1, <2>2
<1>10. ASSUME NEW x \in P
       PROVE  /\ k < x /\ l[x] = Null => s.dir = "l" /\ s.of = x
              /\ x < k /\ r[x] = Null => s.dir = "r" /\ s.of = x
  <2>1. x \in items /\ s.of \in T[x] /\ s.of # Null /\ s.of \in items
    BY <1>2, <1>8 DEF P, On
  <2>2. Holds(T, Lower(T, x), l[x]) /\ Holds(T, Upper(T, x), r[x])
    BY <1>1, <2>1, Sides
  <2>3. x \in Nat /\ s.of \in Nat /\ T[x] \in SUBSET items
    BY <1>1, <2>1, ShapeFacts
  <2>4. s.dir # "root"
    BY <1>7, <2>1
  <2>5. s.of # x => (k < x <=> s.of < x)
    <3>1. s.of \in P
      BY <1>7, <1>8, <2>4
    <3> QED
      BY <2>1, <3>1 DEF P, On
  <2>6. Null \notin Lower(T, x) /\ Null \notin Upper(T, x)
    BY <1>1, <2>3 DEF Lower, Upper
  <2>7. k < x /\ l[x] = Null => s.dir = "l" /\ s.of = x
    <3>1. SUFFICES ASSUME k < x, l[x] = Null
                   PROVE  s.dir = "l" /\ s.of = x
      OBVIOUS
    <3>2. s.of \notin Lower(T, x)
      BY <2>2, <2>6, <3>1 DEF Holds
    <3>3. s.of = x
      BY <2>1, <2>5, <3>1, <3>2 DEF Lower
    <3> QED
      BY <1>1, <1>7, <1>8, <2>3, <2>4, <3>1, <3>3
  <2>8. x < k /\ r[x] = Null => s.dir = "r" /\ s.of = x
    <3>1. SUFFICES ASSUME x < k, r[x] = Null
                   PROVE  s.dir = "r" /\ s.of = x
      OBVIOUS
    <3>2. s.of \notin Upper(T, x)
      BY <2>2, <2>6, <3>1 DEF Holds
    <3>3. ~(x < s.of)
      BY <2>1, <3>2 DEF Upper
    <3>4. s.of = x
      BY <1>1, <2>3, <2>5, <3>1, <3>3
    <3> QED
      BY <1>1, <1>7, <1>8, <2>3, <2>4, <3>1, <3>4
  <2> QED
    BY <2>7, <2>8
<1>11. ASSUME NEW x \in items
       PROVE  /\ l'[x] = IF x \in P /\ k < x /\ l[x] = Null THEN k ELSE l[x]
              /\ r'[x] = IF x \in P /\ x < k /\ r[x] = Null THEN k ELSE r[x]
  <2>1. lf[x] = l[x] /\ rf[x] = r[x] /\ x \in DOMAIN lf /\ x \in DOMAIN rf
    BY <1>1, <1>4
  <2>2. l'[x] = IF s.dir = "l" /\ s.of = x THEN k ELSE l[x]
    BY <1>5, <2>1
  <2>3. r'[x] = IF s.dir = "r" /\ s.of = x THEN k ELSE r[x]
    BY <1>5, <2>1
  <2> QED
    BY <1>7, <1>8, <1>10, <2>2, <2>3
<1>12. l'[k] = Null /\ r'[k] = Null
  <2>1. s.dir = "l" => s.of # k
    BY <1>3, <1>7
  <2>2. s.dir = "r" => s.of # k
    BY <1>3, <1>7
  <2> QED
    BY <1>4, <1>5, <2>1, <2>2
<1>13. \E T2 : Tree(T2, items \cup {k}, IF items = {} THEN k ELSE root, l', r')
  <2>1. HungLeft(T, items, k, l, l') /\ HungRight(T, items, k, r, r')
    BY <1>11 DEF HungLeft, HungRight, P
  <2> QED
    BY <1>1, <1>3, <1>12, <2>1, Inserted
<1>14. \E T2 : Tree(T2, items', root', l', r')
  BY <1>5, <1>9, <1>13
<1> QED
  BY <1>6, <1>14 DEF MapInv, Shape

\* The removal of an item with at most one child.
LEMMA DelShallow ==
  ASSUME NEW T, Shape(T), NEW k \in items, items' = items \ {k},
         NEW v \in {l[k], r[k]}, l[k] \in {Null, v}, r[k] \in {Null, v}, l[k] = Null \/ r[k] = Null,
         NEW lf \in [Keys -> Pointer], NEW rf \in [Keys -> Pointer], Store(Find(k), v, lf, rf),
         \A x \in items \ {k} : lf[x] = l[x] /\ rf[x] = r[x]
  PROVE  MapInv'
<1>1. /\ PointersOK /\ Tree(T, items, root, l, r) /\ IsFiniteSet(items)
      /\ items \in SUBSET Nat /\ items \subseteq Keys /\ Null \notin items
  BY ShapeFacts
<1>2. v \in Pointer
  BY <1>1 DEF PointersOK
<1>3. /\ PointersOK'
      /\ root' = IF root = k THEN v ELSE root
      /\ \A x \in items \ {k} : l'[x] = IF l[x] = k THEN v ELSE l[x]
      /\ \A x \in items \ {k} : r'[x] = IF r[x] = k THEN v ELSE r[x]
  BY <1>2, Replaced
<1>4. Holds(T, T[k] \ {k}, v)
  <2>1. Holds(T, Lower(T, k), l[k]) /\ Holds(T, Upper(T, k), r[k]) /\ T[k] \in SUBSET items /\ k \in Nat
    BY <1>1, Sides
  <2>2. T[k] \ {k} = Lower(T, k) \cup Upper(T, k)
    <3>1. \A y \in T[k] : y \in Nat
      BY <1>1, <2>1
    <3>2. \A y \in T[k] : y # k <=> y < k \/ k < y
      BY <2>1, <3>1
    <3> QED
      BY <3>2 DEF Lower, Upper
  <2>3. Null \notin Lower(T, k) /\ Null \notin Upper(T, k)
    BY <1>1, <2>1 DEF Lower, Upper
  <2>4. CASE l[k] = Null
    <3>1. Lower(T, k) = {} /\ v = r[k]
      BY <2>1, <2>3, <2>4 DEF Holds
    <3> QED
      BY <2>1, <2>2, <3>1
  <2>5. CASE r[k] = Null
    <3>1. Upper(T, k) = {} /\ v = l[k]
      BY <2>1, <2>3, <2>5 DEF Holds
    <3> QED
      BY <2>1, <2>2, <3>1
  <2> QED
    BY <2>4, <2>5
<1>5. \E T2 : Tree(T2, items \ {k}, IF root = k THEN v ELSE root, l', r')
  <2>1. Turned(items, k, v, l, l') /\ Turned(items, k, v, r, r')
    BY <1>3 DEF Turned
  <2> QED
    BY <1>1, <1>4, <2>1, Removed
<1>6. \E T2 : Tree(T2, items', root', l', r')
  BY <1>3, <1>5
<1> QED
  BY <1>1, <1>3, <1>6 DEF MapInv, Shape

\* The removal of an item with two.
LEMMA DelDeep ==
  ASSUME NEW T, Shape(T), NEW k \in items, items' = items \ {k},
         l[k] # Null, r[k] # Null, DelTwo(k)
  PROVE  MapInv'
<1> DEFINE m == Rightmost(l[k])
           lf == [l EXCEPT ![k] = Null]
           rf == [r EXCEPT ![m] = r[k], ![k] = Null]
<1>1. /\ PointersOK /\ Tree(T, items, root, l, r) /\ IsFiniteSet(items)
      /\ items \in SUBSET Nat /\ items \subseteq Keys /\ Null \notin items
  BY ShapeFacts
<1>2. Store(Find(k), l[k], lf, rf)
  BY DEF DelTwo
<1>3. m \in Lower(T, k) /\ (\A y \in Lower(T, k) : y <= m) /\ r[m] = Null
  BY RightmostFacts
<1> HIDE DEF m
<1>4. m \in items /\ m # k
  <2>1. T[k] \in SUBSET items /\ k \in Nat
    BY <1>1, ShapeFacts
  <2> QED
    BY <1>3, <2>1 DEF Lower
<1>5. lf \in [Keys -> Pointer] /\ rf \in [Keys -> Pointer] /\ l[k] \in Pointer
  BY <1>1 DEF PointersOK, Pointer
<1>6. \A x \in items \ {k} : lf[x] = l[x] /\ rf[x] = IF x = m THEN r[k] ELSE r[x]
  BY <1>1, <1>4 DEF PointersOK
<1> HIDE DEF lf, rf
<1>7. /\ PointersOK'
      /\ root' = IF root = k THEN l[k] ELSE root
      /\ \A x \in items \ {k} : l'[x] = IF l[x] = k THEN l[k] ELSE lf[x]
      /\ \A x \in items \ {k} : r'[x] = IF r[x] = k THEN l[k] ELSE rf[x]
  BY <1>2, <1>5, Replaced
<1>8. \A x \in items \ {k} : l'[x] = IF l[x] = k THEN l[k] ELSE l[x]
  BY <1>6, <1>7
<1>9. \A x \in items \ {k} : r'[x] = IF x = m THEN r[k] ELSE IF r[x] = k THEN l[k] ELSE r[x]
  BY <1>1, <1>3, <1>6, <1>7
<1>10. Upper(T, k) # {}
  <2>1. Holds(T, Upper(T, k), r[k])
    BY <1>1, Sides
  <2> QED
    BY <2>1 DEF Holds
<1>11. \E T2 : Tree(T2, items \ {k}, IF root = k THEN l[k] ELSE root, l', r')
  <2>1. Turned(items, k, l[k], l, l') /\ Hooked(items, k, l[k], m, r[k], r, r')
    BY <1>8, <1>9 DEF Turned, Hooked
  <2>2. Greatest(Lower(T, k), m)
    BY <1>3 DEF Greatest
  <2> QED
    BY <1>1, <1>10, <2>1, <2>2, Spliced
<1>12. \E T2 : Tree(T2, items', root', l', r')
  BY <1>7, <1>11
<1> QED
  BY <1>1, <1>7, <1>12 DEF MapInv, Shape

\* map_del() leaves a tree.
LEMMA DelStep ==
  ASSUME NEW T, Shape(T), NEW k \in Keys, Del(k)
  PROVE  MapInv'
<1>1. k \in items /\ items' = items \ {k}
  <2>1. Found(k) /\ items' = items \ {k}
    BY DEF Del
  <2>2. Found(k) <=> k \in items
    BY FindFacts
  <2> QED
    BY <2>1, <2>2
<1>2. PointersOK
  BY ShapeFacts
<1> DEFINE lf == [l EXCEPT ![k] = Null]
           rf == [r EXCEPT ![k] = Null]
<1>3. /\ lf \in [Keys -> Pointer] /\ rf \in [Keys -> Pointer]
      /\ \A x \in items \ {k} : lf[x] = l[x] /\ rf[x] = r[x]
  <2>1. items \subseteq Keys
    BY ShapeFacts
  <2> QED
    BY <1>2, <2>1 DEF PointersOK, Pointer
<1> HIDE DEF lf, rf
<1>4. CASE l[k] # Null /\ r[k] # Null
  <2>1. DelTwo(k)
    BY <1>4 DEF Del
  <2> QED
    BY <1>1, <1>4, <2>1, DelDeep
<1>5. CASE l[k] # Null /\ r[k] = Null
  <2>1. Store(Find(k), l[k], lf, rf)
    BY <1>5 DEF Del, DelOne, lf, rf
  <2> QED
    BY <1>1, <1>3, <1>5, <2>1, DelShallow
<1>6. CASE l[k] = Null /\ r[k] # Null
  <2>1. Store(Find(k), r[k], lf, rf)
    BY <1>6 DEF Del, DelOne, lf, rf
  <2> QED
    BY <1>1, <1>3, <1>6, <2>1, DelShallow
<1>7. CASE l[k] = Null /\ r[k] = Null
  <2>1. Store(Find(k), l[k], l, r)
    BY <1>7 DEF Del, DelLeaf
  <2>2. l \in [Keys -> Pointer] /\ r \in [Keys -> Pointer]
    BY <1>2 DEF PointersOK
  <2> QED
    BY <1>1, <1>7, <2>1, <2>2, DelShallow
<1> QED
  BY <1>4, <1>5, <1>6, <1>7

\* The empty map is a tree.
LEMMA InitMap == MapInit => MapInv
<1>1. SUFFICES ASSUME MapInit
               PROVE  MapInv
  OBVIOUS
<1>2. PointersOK /\ items = {} /\ root = Null
  BY <1>1 DEF MapInit, PointersOK, Pointer
<1>3. Tree([x \in {} |-> {}], items, root, l, r)
  BY <1>2 DEF Tree, Holds
<1>4. Shape([x \in {} |-> {}])
  BY <1>2, <1>3 DEF Shape
<1> QED
  BY <1>4 DEF MapInv

\* Every call leaves a tree.
LEMMA MapStep == MapInv /\ [MapNext]_mapVars => MapInv'
<1>1. SUFFICES ASSUME MapInv, [MapNext]_mapVars
               PROVE  MapInv'
  OBVIOUS
<1>2. PICK T : Shape(T)
  BY <1>1 DEF MapInv
<1>3. ASSUME NEW k \in Keys, Add(k)
      PROVE  MapInv'
  BY <1>2, <1>3, AddStep
<1>4. ASSUME NEW k \in Keys, Del(k)
      PROVE  MapInv'
  BY <1>2, <1>4, DelStep
<1>5. CASE UNCHANGED mapVars
  <2>1. Shape(T)'
    BY <1>2, <1>5 DEF Shape, PointersOK, mapVars
  <2> QED
    BY <2>1 DEF MapInv
<1> QED
  BY <1>1, <1>3, <1>4, <1>5 DEF MapNext

\* The items form a tree at all times, whatever the order of the additions
\* and removals.
THEOREM MapIsATree == MapSpec => []MapInv
BY InitMap, MapStep, PTL DEF MapSpec

\* In a tree the search finds exactly the items.
LEMMA FindExact == MapInv => FindIsExact
<1>1. SUFFICES ASSUME NEW T, Shape(T), NEW k \in Keys
               PROVE  Found(k) <=> k \in items
  BY DEF MapInv, FindIsExact
<1> QED
  BY <1>1, FindFacts

\* map_find() finds exactly the items that were added and not removed,
\* whatever the keys and the order of the calls.
THEOREM FindsWhatIsThere == MapSpec => []FindIsExact
BY FindExact, MapIsATree, PTL

-----------------------------------------------------------------------------
(* The walk.                                                               *)

\* What lies below an item is an interval of the items.
LEMMA Interval ==
  ASSUME NEW T, NEW S \in SUBSET Nat, NEW a, NEW lf, NEW rg, Tree(T, S, a, lf, rg), IsFiniteSet(S),
         NEW x \in S, NEW j \in S, j \notin T[x], NEW z \in T[x]
  PROVE  j < x <=> j < z
<1> DEFINE C == {c \in S : x \in T[c] /\ j \in T[c]}
           N == {Cardinality(T[c]) : c \in C}
<1>1. a \in C
  <2>1. a \in S /\ T[a] = S
    BY DEF Tree, Holds
  <2> QED
    BY <2>1
<1>2. \A c \in S : IsFiniteSet(T[c]) /\ Cardinality(T[c]) \in Nat
  BY FS_Subset, FS_CardinalityType DEF Tree
<1>3. N \in SUBSET Nat /\ N # {}
  BY <1>1, <1>2
<1>4. PICK m \in N : \A n \in N : m <= n
  BY <1>3, LeastExists
<1>5. PICK c \in C : m = Cardinality(T[c])
  BY <1>4
<1>6. c \in S /\ x \in T[c] /\ j \in T[c] /\ x \in Nat /\ j \in Nat /\ c \in Nat /\ z \in Nat /\ c \in T[c]
  <2>1. c \in S /\ x \in T[c] /\ j \in T[c]
    BY <1>5
  <2>2. z \in S
    BY Below
  <2> QED
    BY <2>1, <2>2, Sides
<1>7. \A d \in S : d \in T[c] /\ d # c => ~(x \in T[d] /\ j \in T[d])
  <2>1. SUFFICES ASSUME NEW d \in S, d \in T[c], d # c, x \in T[d], j \in T[d]
                 PROVE  FALSE
    OBVIOUS
  <2>2. T[d] \subseteq T[c] /\ (c \in T[d] => c = d)
    BY <1>6, <2>1, Below
  <2>3. T[d] \subseteq T[c] \ {c}
    BY <2>1, <2>2
  <2>4. Cardinality(T[c] \ {c}) = Cardinality(T[c]) - 1 /\ IsFiniteSet(T[c] \ {c})
    BY <1>2, <1>6, FS_RemoveElement
  <2>5. Cardinality(T[d]) <= Cardinality(T[c]) - 1
    BY <2>3, <2>4, FS_Subset
  <2>6. Cardinality(T[d]) \in N
    BY <2>1
  <2> HIDE DEF N, C
  <2> QED
    BY <1>2, <1>4, <1>5, <1>6, <2>1, <2>5, <2>6
<1>8. c # x
  BY <1>6
\* All below x is on one side of c, and j is not on that side.
<1>9. /\ x < c => z < c
      /\ c < x => c < z
  BY <1>6, Sides
<1>10. ~(x < c /\ j < c)
  <2>1. SUFFICES ASSUME x < c, j < c
                 PROVE  FALSE
    OBVIOUS
  <2>2. x \in Lower(T, c) /\ j \in Lower(T, c)
    BY <1>6, <2>1 DEF Lower
  <2>3. Holds(T, Lower(T, c), lf[c])
    BY <1>6, Sides
  <2>4. lf[c] \in Lower(T, c) /\ T[lf[c]] = Lower(T, c)
    BY <2>2, <2>3 DEF Holds
  <2>5. lf[c] \in S /\ lf[c] \in T[c] /\ lf[c] # c
    <3>1. lf[c] \in T[c] /\ lf[c] # c
      BY <1>6, <2>4 DEF Lower
    <3> QED
      BY <1>6, <3>1, Sides
  <2> QED
    BY <1>7, <2>2, <2>4, <2>5
<1>11. ~(c < x /\ c < j)
  <2>1. SUFFICES ASSUME c < x, c < j
                 PROVE  FALSE
    OBVIOUS
  <2>2. x \in Upper(T, c) /\ j \in Upper(T, c)
    BY <1>6, <2>1 DEF Upper
  <2>3. Holds(T, Upper(T, c), rg[c])
    BY <1>6, Sides
  <2>4. rg[c] \in Upper(T, c) /\ T[rg[c]] = Upper(T, c)
    BY <2>2, <2>3 DEF Holds
  <2>5. rg[c] \in S /\ rg[c] \in T[c] /\ rg[c] # c
    <3>1. rg[c] \in T[c] /\ rg[c] # c
      BY <1>6, <2>4 DEF Upper
    <3> QED
      BY <1>6, <3>1, Sides
  <2> QED
    BY <1>7, <2>2, <2>4, <2>5
<1> QED
  BY <1>6, <1>8, <1>9, <1>10, <1>11

\* Every item but the root is the child of another.
LEMMA ParentExists ==
  ASSUME NEW T, NEW S \in SUBSET Nat, NEW a, NEW lf, NEW rg, Tree(T, S, a, lf, rg), IsFiniteSet(S),
         NEW x \in S, x # a
  PROVE  \E y \in S : x \in {lf[y], rg[y]}
<1> DEFINE C == {c \in S : x \in T[c] /\ c # x}
           N == {Cardinality(T[c]) : c \in C}
<1>1. a \in C
  <2>1. a \in S /\ T[a] = S
    BY DEF Tree, Holds
  <2> QED
    BY <2>1
<1>2. \A c \in S : IsFiniteSet(T[c]) /\ Cardinality(T[c]) \in Nat
  BY FS_Subset, FS_CardinalityType DEF Tree
<1>3. N \in SUBSET Nat /\ N # {}
  BY <1>1, <1>2
<1>4. PICK m \in N : \A n \in N : m <= n
  BY <1>3, LeastExists
<1>5. PICK c \in C : m = Cardinality(T[c])
  BY <1>4
<1>6. c \in S /\ x \in T[c] /\ c # x /\ x \in Nat /\ c \in Nat /\ c \in T[c]
  <2>1. c \in S /\ x \in T[c] /\ c # x
    BY <1>5
  <2> QED
    BY <2>1, Sides
<1>7. \A d \in S : d \in T[c] /\ d # c => ~(x \in T[d] /\ d # x)
  <2>1. SUFFICES ASSUME NEW d \in S, d \in T[c], d # c, x \in T[d], d # x
                 PROVE  FALSE
    OBVIOUS
  <2>2. T[d] \subseteq T[c] /\ (c \in T[d] => c = d)
    BY <1>6, <2>1, Below
  <2>3. T[d] \subseteq T[c] \ {c}
    BY <2>1, <2>2
  <2>4. Cardinality(T[c] \ {c}) = Cardinality(T[c]) - 1 /\ IsFiniteSet(T[c] \ {c})
    BY <1>2, <1>6, FS_RemoveElement
  <2>5. Cardinality(T[d]) <= Cardinality(T[c]) - 1
    BY <2>3, <2>4, FS_Subset
  <2>6. Cardinality(T[d]) \in N
    BY <2>1
  <2> HIDE DEF N, C
  <2> QED
    BY <1>2, <1>4, <1>5, <1>6, <2>1, <2>5, <2>6
<1>8. Holds(T, Lower(T, c), lf[c]) /\ Holds(T, Upper(T, c), rg[c]) /\ T[c] \in SUBSET S
  BY <1>6, Sides
<1>9. CASE x < c
  <2>1. x \in Lower(T, c)
    BY <1>6, <1>9 DEF Lower
  <2>2. lf[c] \in Lower(T, c) /\ x \in T[lf[c]]
    BY <1>8, <2>1 DEF Holds
  <2>3. lf[c] \in S /\ lf[c] \in T[c] /\ lf[c] # c
    BY <1>6, <1>8, <2>2 DEF Lower
  <2> QED
    BY <1>6, <1>7, <2>2, <2>3
<1>10. CASE c < x
  <2>1. x \in Upper(T, c)
    BY <1>6, <1>10 DEF Upper
  <2>2. rg[c] \in Upper(T, c) /\ x \in T[rg[c]]
    BY <1>8, <2>1 DEF Holds
  <2>3. rg[c] \in S /\ rg[c] \in T[c] /\ rg[c] # c
    BY <1>6, <1>8, <2>2 DEF Upper
  <2> QED
    BY <1>6, <1>7, <2>2, <2>3
<1> QED
  BY <1>6, <1>9, <1>10

\* Following l from an item ends at the least item below it.
LEMMA LeftmostFacts ==
  ASSUME NEW T, Shape(T), NEW c \in items
  PROVE  /\ Leftmost(c) \in T[c]
         /\ \A y \in T[c] : Leftmost(c) <= y
<1> DEFINE L == T[c]
<1>1. /\ PointersOK /\ Tree(T, items, root, l, r)
      /\ items \in SUBSET Nat /\ items \subseteq Keys /\ Null \notin items /\ IsFiniteSet(items)
  BY ShapeFacts
<1>2. L \in SUBSET items /\ c \in L
  BY ShapeFacts
<1>3. \A y \in L : T[y] \subseteq L /\ y \in items /\ y \in Nat
  BY <1>1, <1>2, Below
<1>4. PICK d \in [0..Many -> Keys] :
        /\ Leftmost(c) = d[Many]
        /\ d[0] = c
        /\ \A n \in Nat : n + 1 <= Many => d[n + 1] = IF l[d[n]] = Null THEN d[n] ELSE l[d[n]]
  <2>1. c \in Keys /\ l \in [Keys -> Pointer]
    BY <1>1 DEF PointersOK
  <2> QED
    BY <2>1, EndSteps DEF Leftmost
<1> DEFINE Along(n, x) ==
             /\ x \in L
             /\ \A y \in L : x <= y \/ y \in T[x]
             /\ l[x] = Null \/ Cardinality(T[x]) + n <= Many
           S == {n \in Nat : n <= Many => Along(n, d[n])}
<1>5. 0 \in S
  <2>1. Cardinality(T[c]) + 0 <= Many
    BY ShapeFacts, ManyType
  <2>2. Along(0, c)
    BY <1>2, <2>1
  <2> HIDE DEF Along
  <2> QED
    BY <1>4, <2>2
<1>6. ASSUME NEW n \in Nat, NEW x, Along(n, x), l[x] # Null
      PROVE  Along(n + 1, l[x])
  <2>1. x \in items /\ x \in Nat /\ T[x] \in SUBSET items /\ x \in T[x]
    BY <1>3, <1>6, ShapeFacts
  <2>2. l[x] \in Lower(T, x) /\ T[l[x]] = Lower(T, x)
    <3>1. Holds(T, Lower(T, x), l[x])
      BY <1>1, <2>1, Sides
    <3> QED
      BY <1>6, <3>1 DEF Holds
  <2>3. l[x] \in T[x] /\ l[x] < x /\ l[x] \in items /\ l[x] \in Nat
    BY <1>1, <2>1, <2>2 DEF Lower
  <2>4. l[x] \in L
    BY <1>3, <1>6, <2>3
  <2>5. ASSUME NEW y \in L
        PROVE  l[x] <= y \/ y \in T[l[x]]
    <3>1. y \in Nat
      BY <1>3
    <3>2. CASE x <= y
      BY <2>1, <2>3, <3>1, <3>2
    <3>3. CASE ~(x <= y)
      <4>1. y \in T[x] /\ y < x
        BY <1>6, <2>1, <3>1, <3>3
      <4> QED
        BY <2>2, <4>1 DEF Lower
    <3> QED
      BY <3>2, <3>3
  <2>6. Cardinality(T[l[x]]) + (n + 1) <= Many
    <3>1. Lower(T, x) \subseteq T[x] \ {x}
      BY <2>1 DEF Lower
    <3>2. IsFiniteSet(T[x])
      BY <1>1, <2>1, FS_Subset
    <3>3. IsFiniteSet(T[x] \ {x}) /\ Cardinality(T[x] \ {x}) = Cardinality(T[x]) - 1
      BY <2>1, <3>2, FS_RemoveElement
    <3>4. Cardinality(T[l[x]]) <= Cardinality(T[x]) - 1
      BY <2>2, <3>1, <3>3, FS_Subset
    <3>5. Cardinality(T[x]) + n <= Many
      BY <1>6
    <3>6. Cardinality(T[x]) \in Nat /\ Cardinality(T[l[x]]) \in Nat /\ Many \in Nat
      BY <2>1, <2>3, ShapeFacts, ManyType
    <3> QED
      BY <3>4, <3>5, <3>6
  <2> QED
    BY <2>4, <2>5, <2>6
<1>7. ASSUME NEW n \in Nat, n \in S
      PROVE  n + 1 \in S
  <2>1. SUFFICES ASSUME n + 1 <= Many
                 PROVE  Along(n + 1, d[n + 1])
    OBVIOUS
  <2>2. Along(n, d[n])
    BY <1>7, <2>1, ManyType
  <2>3. CASE l[d[n]] = Null
    <3>1. d[n + 1] = d[n]
      BY <1>4, <2>1, <2>3
    <3> QED
      BY <2>2, <2>3, <3>1
  <2>4. CASE l[d[n]] # Null
    <3>1. d[n + 1] = l[d[n]]
      BY <1>4, <2>1, <2>4
    <3> HIDE DEF Along
    <3> QED
      BY <1>6, <2>2, <2>4, <3>1
  <2> QED
    BY <2>3, <2>4
<1>8. Along(Many, Leftmost(c))
  <2>1. \A n \in Nat : n \in S
    <3> HIDE DEF S
    <3> QED
      BY <1>5, <1>7, NatBySteps
  <2> HIDE DEF Along
  <2> QED
    BY <1>4, <2>1, ManyType
<1> DEFINE m == Leftmost(c)
<1> HIDE DEF m
<1>9. Along(Many, m)
  BY <1>8 DEF m
<1>10. l[m] = Null
  <2>1. Cardinality(T[m]) \in Nat /\ 1 <= Cardinality(T[m]) /\ Many \in Nat
    BY <1>3, <1>9, ShapeFacts, ManyType
  <2> QED
    BY <1>9, <2>1
<1>11. ASSUME NEW y \in L
       PROVE  m <= y
  <2>1. Holds(T, Lower(T, m), l[m]) /\ m \in Nat /\ m \in items /\ y \in Nat
    BY <1>1, <1>3, <1>9, Sides
  <2>2. Lower(T, m) = {}
    <3>1. Lower(T, m) \subseteq items
      BY <1>2, <1>3, <1>9 DEF Lower
    <3> QED
      BY <1>1, <1>10, <2>1, <3>1 DEF Holds
  <2>3. y \in T[m] => ~(y < m)
    BY <2>2 DEF Lower
  <2> QED
    BY <1>9, <2>1, <2>3
<1> QED
  BY <1>9, <1>11 DEF m

\* The p of an item leads to the item it is a child of.
Parents ==
  /\ root # Null => p[root] = Null
  /\ \A x \in items : /\ l[x] # Null => p[l[x]] = x
                      /\ r[x] # Null => p[r[x]] = x

\* So it tells on which side of the parent an item is.
LEMMA ParentFacts ==
  ASSUME NEW T, Shape(T), Parents, NEW x \in items
  PROVE  /\ p[x] = Null <=> x = root
         /\ p[x] # Null => /\ p[x] \in items /\ x \in T[p[x]]
                           /\ l[p[x]] = x => T[x] = Lower(T, p[x]) /\ x < p[x]
                           /\ l[p[x]] # x => T[x] = Upper(T, p[x]) /\ p[x] < x
<1>1. /\ Tree(T, items, root, l, r)
      /\ items \in SUBSET Nat /\ Null \notin items /\ IsFiniteSet(items)
  BY ShapeFacts
<1>2. x # Null
  BY <1>1
<1>3. CASE x = root
  BY <1>2, <1>3 DEF Parents
<1>4. CASE x # root
  <2>1. PICK y \in items : x \in {l[y], r[y]}
    BY <1>1, <1>4, ParentExists
  <2>2. p[x] = y /\ y # Null
    BY <1>1, <1>2, <2>1 DEF Parents
  <2>3. Holds(T, Lower(T, y), l[y]) /\ Holds(T, Upper(T, y), r[y])
    BY <1>1, Sides
  <2>4. l[y] = x => x \in T[y] /\ T[x] = Lower(T, y) /\ x < y
    BY <1>2, <2>3 DEF Holds, Lower
  <2>5. r[y] = x => x \in T[y] /\ T[x] = Upper(T, y) /\ y < x
    BY <1>2, <2>3 DEF Holds, Upper
  <2> QED
    BY <1>4, <2>1, <2>2, <2>4, <2>5
<1> QED
  BY <1>3, <1>4

\* A turn of the climb in map_walk().
Turns == [now : Keys, done : BOOLEAN]

Up(c) ==
  IF c.done \/ p[c.now] = Null \/ l[p[c.now]] = c.now
    THEN [now |-> c.now, done |-> TRUE]
    ELSE [now |-> p[c.now], done |-> FALSE]

\* A turn of the climb leads from item to item.
LEMMA UpType ==
  ASSUME p \in [Keys -> Pointer], NEW c \in Turns
  PROVE  Up(c) \in Turns
<1>1. c.now \in Keys /\ p[c.now] \in Pointer
  BY DEF Turns
<1>2. CASE c.done \/ p[c.now] = Null \/ l[p[c.now]] = c.now
  BY <1>1, <1>2 DEF Up, Turns
<1>3. CASE ~(c.done \/ p[c.now] = Null \/ l[p[c.now]] = c.now)
  <2>1. p[c.now] \in Keys
    BY <1>1, <1>3 DEF Pointer
  <2>2. Up(c) = [now |-> p[c.now], done |-> FALSE]
    BY <1>3 DEF Up
  <2> QED
    BY <2>1, <2>2 DEF Turns
<1> QED
  BY <1>2, <1>3

\* The climb takes at most a turn for each key there could be.
LEMMA ClimbSteps ==
  ASSUME p \in [Keys -> Pointer], NEW k \in Keys
  PROVE  \E d \in [0..Many -> Turns] :
           /\ Climb(k) = IF d[Many].done THEN p[d[Many].now] ELSE d[Many].now
           /\ d[0] = [now |-> k, done |-> FALSE]
           /\ \A n \in Nat : n + 1 <= Many => d[n + 1] = Up(d[n])
<1> DEFINE start == [now |-> k, done |-> FALSE]
           g == [c \in Turns |-> Up(c)]
           Is(d) == d = [n \in 0..Many |-> IF n = 0 THEN start ELSE Up(d[n - 1])]
           f == CHOOSE d : Is(d)
<1>1. g \in [Turns -> Turns] /\ start \in Turns
  <2>1. g \in [Turns -> Turns]
    BY UpType
  <2>2. start \in Turns
    BY DEF Turns
  <2> QED
    BY <2>1, <2>2
<1>2. PICK h : Leads(Turns, g, start, Many, h)
  <2>1. Many \in Nat
    BY ManyType
  <2> HIDE DEF g, start
  <2> QED
    BY <1>1, <2>1, Iterates
<1>3. Is(h)
  <2>1. \A n \in 1..Many : g[h[n - 1]] = Up(h[n - 1])
    <3>1. \A n \in 1..Many : n - 1 \in 0..Many
      BY ManyType
    <3> QED
      BY <1>2, <3>1 DEF Leads
  <2>2. \A n \in 0..Many : n # 0 => n \in 1..Many
    BY ManyType
  <2>3. 0 \in 0..Many
    BY ManyType
  <2> HIDE DEF g, start
  <2> QED
    BY <1>2, <2>1, <2>2, <2>3 DEF Leads
<1>4. Is(f)
  BY <1>3
<1>5. Climb(k) = IF f[Many].done THEN p[f[Many].now] ELSE f[Many].now
  BY DEF Climb, Up, Many
<1> HIDE DEF f, start
<1>6. DOMAIN f = 0..Many /\ f[0] = start
  BY <1>4, ManyType
<1>7. ASSUME NEW n \in Nat, n + 1 <= Many
      PROVE  f[n + 1] = Up(f[n])
  <2>1. n + 1 \in 0..Many /\ n + 1 # 0 /\ (n + 1) - 1 = n
    BY <1>7, ManyType
  <2>2. f[n + 1] = IF n + 1 = 0 THEN start ELSE Up(f[(n + 1) - 1])
    BY <1>4, <2>1
  <2> QED
    BY <2>1, <2>2
<1>8. f \in [0..Many -> Turns]
  <2> DEFINE S == {n \in Nat : n <= Many => f[n] \in Turns}
  <2>1. 0 \in S
    BY <1>1, <1>6
  <2>2. ASSUME NEW n \in Nat, n \in S
        PROVE  n + 1 \in S
    BY <1>7, <2>2, UpType, ManyType
  <2>3. \A n \in Nat : n \in S
    <3> HIDE DEF S
    <3> QED
      BY <2>1, <2>2, NatBySteps
  <2>4. \A n \in 0..Many : f[n] \in Turns
    BY <2>3, ManyType
  <2>5. f = [n \in 0..Many |-> f[n]]
    BY <1>4
  <2> QED
    BY <2>4, <2>5
<1> QED
  BY <1>5, <1>6, <1>7, <1>8 DEF start

\* The climb ends below the first item that is greater than all below it.
LEMMA ClimbFacts ==
  ASSUME NEW T, Shape(T), Parents, p \in [Keys -> Pointer], NEW k \in items, r[k] = Null
  PROVE  \E x \in items :
           /\ Climb(k) = p[x]
           /\ k \in T[x] /\ \A j \in T[x] : j <= k
           /\ p[x] # Null => l[p[x]] = x
<1> DEFINE Reached(n, c) ==
             /\ c \in Turns /\ c.now \in items
             /\ k \in T[c.now] /\ \A j \in T[c.now] : j <= k
             /\ c.done => p[c.now] = Null \/ l[p[c.now]] = c.now
             /\ c.done \/ n + 1 <= Cardinality(T[c.now])
<1>1. /\ Tree(T, items, root, l, r)
      /\ items \in SUBSET Nat /\ items \subseteq Keys /\ Null \notin items /\ IsFiniteSet(items)
  BY ShapeFacts
<1>2. PICK d \in [0..Many -> Turns] :
        /\ Climb(k) = IF d[Many].done THEN p[d[Many].now] ELSE d[Many].now
        /\ d[0] = [now |-> k, done |-> FALSE]
        /\ \A n \in Nat : n + 1 <= Many => d[n + 1] = Up(d[n])
  BY <1>1, ClimbSteps
<1>3. Reached(0, d[0])
  <2>1. k \in T[k] /\ T[k] \in SUBSET items /\ Holds(T, Upper(T, k), r[k])
    BY <1>1, Sides
  <2>2. Upper(T, k) = {}
    <3>1. Upper(T, k) \subseteq items
      BY <2>1 DEF Upper
    <3> QED
      BY <1>1, <2>1, <3>1 DEF Holds
  <2>3. \A j \in T[k] : j <= k
    <3>1. \A j \in T[k] : j \in Nat /\ ~(k < j)
      BY <1>1, <2>1, <2>2 DEF Upper
    <3> QED
      BY <1>1, <3>1
  <2>4. 0 + 1 <= Cardinality(T[k])
    <3>1. 1 <= Cardinality(T[k]) /\ Cardinality(T[k]) \in Nat
      BY ShapeFacts
    <3> QED
      BY <3>1
  <2>5. d[0] \in Turns
    <3>1. d[0] = [now |-> k, done |-> FALSE] /\ k \in Keys
      BY <1>1, <1>2
    <3> QED
      BY <3>1 DEF Turns
  <2>6. d[0].now = k /\ d[0].done = FALSE
    BY <1>2
  <2> QED
    BY <2>1, <2>3, <2>4, <2>5, <2>6
<1>4. ASSUME NEW n \in Nat, NEW c, Reached(n, c)
      PROVE  Reached(n + 1, Up(c))
  <2> DEFINE x == c.now
             y == p[x]
  <2>1. Up(c) \in Turns
    BY <1>4, UpType
  <2>2. CASE c.done \/ p[c.now] = Null \/ l[p[c.now]] = c.now
    <3>1. Up(c).now = c.now /\ Up(c).done
      BY <2>2 DEF Up
    <3> QED
      BY <1>4, <2>1, <2>2, <3>1
  <2>3. CASE ~(c.done \/ p[c.now] = Null \/ l[p[c.now]] = c.now)
    <3>1. Up(c).now = y /\ ~Up(c).done
      BY <2>3 DEF Up
    <3>2. k \in T[x] /\ (\A j \in T[x] : j <= k) /\ n + 1 <= Cardinality(T[x])
      BY <1>4, <2>3
    <3>3. x \in items /\ y # Null /\ l[y] # x
      BY <1>4, <2>3 DEF x, y
    <3>4. y \in items /\ x \in T[y] /\ T[x] = Upper(T, y) /\ y < x
      BY <3>3, ParentFacts DEF y
    <3> HIDE DEF x, y
    <3>5. k \in Upper(T, y) /\ k \in T[y] /\ y < k
      BY <3>2, <3>4 DEF Upper
    <3>6. ASSUME NEW j \in T[y]
          PROVE  j <= k
      <4>1. j \in Nat /\ y \in Nat /\ k \in Nat
        <5>1. T[y] \in SUBSET items
          BY <3>4, ShapeFacts
        <5> QED
          BY <1>1, <3>4, <5>1
      <4>2. y < j => j \in T[x]
        BY <3>4 DEF Upper
      <4> QED
        BY <3>2, <3>5, <4>1, <4>2
    <3>7. (n + 1) + 1 <= Cardinality(T[y])
      <4>1. T[x] \subseteq T[y] \ {y} /\ y \in T[y] /\ T[y] \in SUBSET items
        <5>1. y \in T[y] /\ T[y] \in SUBSET items
          BY <3>4, ShapeFacts
        <5>2. y \in Nat
          BY <1>1, <3>4
        <5> QED
          BY <3>4, <5>1, <5>2 DEF Upper
      <4>2. IsFiniteSet(T[y])
        BY <1>1, <4>1, FS_Subset
      <4>3. IsFiniteSet(T[y] \ {y}) /\ Cardinality(T[y] \ {y}) = Cardinality(T[y]) - 1
        BY <4>1, <4>2, FS_RemoveElement
      <4>4. Cardinality(T[x]) <= Cardinality(T[y]) - 1
        BY <4>1, <4>3, FS_Subset
      <4>5. Cardinality(T[x]) \in Nat /\ Cardinality(T[y]) \in Nat
        BY <3>3, <3>4, ShapeFacts
      <4> QED
        BY <3>2, <4>4, <4>5
    <3> QED
      BY <2>1, <3>1, <3>4, <3>5, <3>6, <3>7 DEF y
  <2> QED
    BY <2>2, <2>3
<1>5. Reached(Many, d[Many])
  <2> DEFINE S == {n \in Nat : n <= Many => Reached(n, d[n])}
  <2> HIDE DEF Reached
  <2>1. 0 \in S
    BY <1>3
  <2>2. ASSUME NEW n \in Nat, n \in S
        PROVE  n + 1 \in S
    <3>1. SUFFICES ASSUME n + 1 <= Many
                   PROVE  Reached(n + 1, d[n + 1])
      OBVIOUS
    <3>2. Reached(n, d[n])
      BY <2>2, <3>1, ManyType
    <3> QED
      BY <1>2, <1>4, <3>1, <3>2
  <2>3. \A n \in Nat : n \in S
    <3> HIDE DEF S
    <3> QED
      BY <2>1, <2>2, NatBySteps
  <2> QED
    BY <2>3, ManyType
<1> DEFINE c == d[Many]
<1> HIDE DEF c
<1>6. Reached(Many, c) /\ Climb(k) = IF c.done THEN p[c.now] ELSE c.now
  <2> HIDE DEF Reached
  <2> QED
    BY <1>2, <1>5 DEF c
<1>7. c.done
  <2>1. c.now \in items /\ (c.done \/ Many + 1 <= Cardinality(T[c.now]))
    BY <1>6
  <2>2. Cardinality(T[c.now]) \in Nat /\ Cardinality(T[c.now]) <= Many /\ Many \in Nat
    BY <2>1, ShapeFacts, ManyType
  <2> QED
    BY <2>1, <2>2
<1> QED
  BY <1>6, <1>7

\* What is not greater than any other is the least.
LEMMA LeastIs ==
  ASSUME NEW S \in SUBSET Nat, NEW m \in S, \A j \in S : m <= j
  PROVE  Least(S) = m
<1>1. \A n \in S : (\A j \in S : n <= j) => n = m
  <2>1. SUFFICES ASSUME NEW n \in S, \A j \in S : n <= j
                 PROVE  n = m
    OBVIOUS
  <2>2. n <= m /\ m <= n /\ n \in Nat /\ m \in Nat
    BY <2>1
  <2> QED
    BY <2>2
<1>2. (CHOOSE n \in S : \A j \in S : n <= j) = m
  BY <1>1
<1> QED
  BY <1>2 DEF Least

\* map_walk() goes on to the next item.
LEMMA WalkFacts ==
  ASSUME NEW T, Shape(T), Parents, p \in [Keys -> Pointer], NEW now \in items \cup {Null}
  PROVE  Walk(now) = Least({j \in items : now < j})
<1> DEFINE After == {j \in items : now < j}
<1>1. /\ Tree(T, items, root, l, r)
      /\ items \in SUBSET Nat /\ items \subseteq Keys /\ Null \notin items /\ IsFiniteSet(items)
      /\ After \in SUBSET Nat
  BY ShapeFacts
<1>2. CASE now = Null
  <2>1. After = items
    <3>1. \A j \in items : j \in Nat /\ j # 0
      BY <1>1 DEF Null
    <3>2. now = 0
      BY <1>2 DEF Null
    <3>3. \A j \in items : now < j
      BY <3>1, <3>2
    <3> QED
      BY <3>3
  <2>2. Holds(T, items, root)
    BY <1>1 DEF Tree
  <2>3. CASE root = Null
    <3>1. items = {}
      BY <1>1, <2>2, <2>3 DEF Holds
    <3>2. Walk(now) = Null
      BY <1>2, <2>3 DEF Walk
    <3> QED
      BY <2>1, <3>1, <3>2 DEF Least
  <2>4. CASE root # Null
    <3>1. root \in items /\ T[root] = items
      BY <2>2, <2>4 DEF Holds
    <3>2. Leftmost(root) \in items /\ \A y \in items : Leftmost(root) <= y
      BY <3>1, LeftmostFacts
    <3>3. Walk(now) = Leftmost(root)
      BY <1>2, <2>4 DEF Walk
    <3> QED
      BY <1>1, <2>1, <3>2, <3>3, LeastIs
  <2> QED
    BY <2>3, <2>4
<1>3. CASE now # Null
  <2>1. now \in items /\ now \in Nat /\ now \in T[now] /\ T[now] \in SUBSET items
    BY <1>1, <1>3, ShapeFacts
  <2>2. CASE r[now] # Null
    <3> DEFINE m == Leftmost(r[now])
    <3>1. Walk(now) = m
      BY <1>3, <2>2 DEF Walk
    <3>2. r[now] \in Upper(T, now) /\ T[r[now]] = Upper(T, now)
      <4>1. Holds(T, Upper(T, now), r[now])
        BY <1>1, <2>1, Sides
      <4> QED
        BY <2>2, <4>1 DEF Holds
    <3>3. r[now] \in items
      BY <2>1, <3>2 DEF Upper
    <3>4. m \in Upper(T, now) /\ \A y \in Upper(T, now) : m <= y
      BY <3>2, <3>3, LeftmostFacts
    <3> HIDE DEF m
    <3>5. m \in T[now] /\ now < m /\ m \in items /\ m \in Nat
      BY <1>1, <2>1, <3>4 DEF Upper
    <3>6. ASSUME NEW j \in After
          PROVE  m <= j
      <4>1. j \in items /\ now < j /\ j \in Nat
        BY <1>1
      <4>2. CASE j \in T[now]
        <5>1. j \in Upper(T, now)
          BY <4>1, <4>2 DEF Upper
        <5> QED
          BY <3>4, <5>1
      <4>3. CASE j \notin T[now]
        <5>1. j < now <=> j < m
          BY <1>1, <2>1, <3>5, <4>1, <4>3, Interval
        <5> QED
          BY <2>1, <3>5, <4>1, <5>1
      <4> QED
        BY <4>2, <4>3
    <3>7. m \in After
      BY <3>5
    <3> HIDE DEF After
    <3>8. Least(After) = m
      BY <1>1, <3>6, <3>7, LeastIs
    <3> QED
      BY <3>1, <3>8 DEF After
  <2>3. CASE r[now] = Null
    <3>1. Walk(now) = Climb(now)
      BY <1>3, <2>3 DEF Walk
    <3>2. PICK x \in items : /\ Climb(now) = p[x]
                             /\ now \in T[x] /\ \A j \in T[x] : j <= now
                             /\ p[x] # Null => l[p[x]] = x
      BY <2>1, <2>3, ClimbFacts
    <3>3. CASE p[x] = Null
      <4>1. x = root
        BY <3>3, ParentFacts
      <4>2. T[x] = items
        <5>1. Holds(T, items, root)
          BY <1>1 DEF Tree
        <5> QED
          BY <4>1, <5>1 DEF Holds
      <4>3. After = {}
        <5>1. \A j \in items : j \in Nat /\ j <= now
          BY <1>1, <3>2, <4>2
        <5>2. \A j \in items : ~(now < j)
          BY <2>1, <5>1
        <5> QED
          BY <5>2
      <4>4. Least(After) = Null
        BY <4>3 DEF Least
      <4> QED
        BY <3>1, <3>2, <3>3, <4>4
    <3>4. CASE p[x] # Null
      <4> DEFINE y == p[x]
      <4>1. y \in items /\ x \in T[y] /\ T[x] = Lower(T, y) /\ x < y
        BY <3>2, <3>4, ParentFacts
      <4> HIDE DEF y
      <4>2. now \in T[y] /\ now < y /\ y \in Nat
        BY <1>1, <3>2, <4>1 DEF Lower
      <4>3. ASSUME NEW j \in After
            PROVE  y <= j
        <5>1. j \in items /\ now < j /\ j \in Nat
          BY <1>1
        <5>2. CASE j \in T[y]
          <6>1. j < y => j \in T[x]
            BY <4>1, <5>2 DEF Lower
          <6>2. j < y => j <= now
            BY <3>2, <6>1
          <6> QED
            BY <2>1, <4>2, <5>1, <6>2
        <5>3. CASE j \notin T[y]
          <6>1. j < y <=> j < now
            BY <1>1, <4>1, <4>2, <5>1, <5>3, Interval
          <6> QED
            BY <2>1, <4>2, <5>1, <6>1
        <5> QED
          BY <5>2, <5>3
      <4>4. y \in After
        BY <4>1, <4>2
      <4> HIDE DEF After
      <4>5. Least(After) = y
        BY <1>1, <4>3, <4>4, LeastIs
      <4> QED
        BY <3>1, <3>2, <4>5 DEF After, y
    <3> QED
      BY <3>3, <3>4
  <2> QED
    BY <2>2, <2>3
<1> QED
  BY <1>2, <1>3

-----------------------------------------------------------------------------
(* The pointers to the parents hold until an item with two children goes.  *)

\* The p of the items are right as long as map_walk() needs them.
ParentsHold ==
  /\ p \in [Keys -> Pointer]
  /\ ~spliced => Parents

\* The invariant of the walk.
WalkInv == MapInv /\ ParentsHold

\* map_add() sets the parent of the item that it hangs on.
LEMMA AddParents ==
  ASSUME NEW T, Shape(T), ParentsHold, NEW k \in Keys, Add(k)
  PROVE  ParentsHold'
<1> DEFINE s == Find(k)
<1>1. /\ PointersOK /\ Tree(T, items, root, l, r)
      /\ items \in SUBSET Nat /\ items \subseteq Keys /\ Null \notin items
      /\ k \in Nat /\ k # Null
  BY ShapeFacts, ManyType
<1>2. At(s) = Null /\ s \in Slots /\ (s.of # Null => s.of \in items)
  <2>1. Passed(T, k, Many, s) /\ At(s) = Null
    BY FindFacts DEF Add
  <2> QED
    BY <2>1 DEF Passed, On
<1>3. k \notin items
  <2>1. Found(k) <=> k \in items
    BY FindFacts
  <2> QED
    BY <1>1, <1>2, <2>1 DEF Found
<1> HIDE DEF s
<1>4. /\ root' = IF s.dir = "root" THEN k ELSE root
      /\ l' = IF s.dir = "l" THEN [[l EXCEPT ![k] = Null] EXCEPT ![s.of] = k] ELSE [l EXCEPT ![k] = Null]
      /\ r' = IF s.dir = "r" THEN [[r EXCEPT ![k] = Null] EXCEPT ![s.of] = k] ELSE [r EXCEPT ![k] = Null]
      /\ p' = [p EXCEPT ![k] = s.of]
      /\ items' = items \cup {k} /\ spliced' = spliced
  BY DEF Add, Store, s
<1>5. s.of \in Pointer /\ p' \in [Keys -> Pointer]
  BY <1>1, <1>2, <1>4 DEF ParentsHold, Pointer
<1>6. /\ s.dir = "root" => s.of = Null
      /\ s.dir \in {"l", "r"} => s.of \in items
      /\ s.dir \in {"root", "l", "r"}
  <2>1. CASE s.of = Null
    BY <1>2, <2>1, SlotHolds
  <2>2. CASE s.of # Null
    BY <1>2, <2>2, SlotHolds
  <2> QED
    BY <2>1, <2>2
<1>7. p'[k] = s.of /\ \A x \in items : p'[x] = p[x]
  BY <1>1, <1>3, <1>4 DEF ParentsHold
<1>8. /\ \A x \in items : l'[x] = IF s.dir = "l" /\ x = s.of THEN k ELSE l[x]
      /\ \A x \in items : r'[x] = IF s.dir = "r" /\ x = s.of THEN k ELSE r[x]
      /\ l'[k] = Null /\ r'[k] = Null
  <2>1. l \in [Keys -> Pointer] /\ r \in [Keys -> Pointer]
    BY <1>1 DEF PointersOK
  <2>2. k # s.of
    BY <1>1, <1>2, <1>3
  <2> QED
    BY <1>1, <1>3, <1>4, <2>1, <2>2
<1>9. /\ \A x \in items : l[x] \in items \cup {Null} /\ r[x] \in items \cup {Null}
      /\ root \in items \cup {Null}
  <2>1. ASSUME NEW x \in items
        PROVE  l[x] \in items \cup {Null} /\ r[x] \in items \cup {Null}
    <3>1. Holds(T, Lower(T, x), l[x]) /\ Holds(T, Upper(T, x), r[x]) /\ T[x] \in SUBSET items
      BY <1>1, Sides
    <3> QED
      BY <3>1 DEF Holds, Lower, Upper
  <2>2. Holds(T, items, root)
    BY <1>1 DEF Tree
  <2> QED
    BY <2>1, <2>2 DEF Holds
<1>10. ASSUME Parents
       PROVE  Parents'
  <2>1. root' # Null => p'[root'] = Null
    BY <1>4, <1>6, <1>7, <1>9, <1>10 DEF Parents
  <2>2. ASSUME NEW x \in items
        PROVE  /\ l'[x] # Null => p'[l'[x]] = x
               /\ r'[x] # Null => p'[r'[x]] = x
    <3>1. l'[x] # Null => p'[l'[x]] = x
      <4>1. CASE s.dir = "l" /\ x = s.of
        BY <1>7, <1>8, <4>1
      <4>2. CASE ~(s.dir = "l" /\ x = s.of)
        BY <1>7, <1>8, <1>9, <1>10, <4>2 DEF Parents
      <4> QED
        BY <4>1, <4>2
    <3>2. r'[x] # Null => p'[r'[x]] = x
      <4>1. CASE s.dir = "r" /\ x = s.of
        BY <1>7, <1>8, <4>1
      <4>2. CASE ~(s.dir = "r" /\ x = s.of)
        BY <1>7, <1>8, <1>9, <1>10, <4>2 DEF Parents
      <4> QED
        BY <4>1, <4>2
    <3> QED
      BY <3>1, <3>2
  <2>3. \A x \in items' : /\ l'[x] # Null => p'[l'[x]] = x
                          /\ r'[x] # Null => p'[r'[x]] = x
    BY <1>4, <1>8, <2>2
  <2> QED
    BY <2>1, <2>3 DEF Parents
<1> QED
  BY <1>4, <1>5, <1>10 DEF ParentsHold

\* An item with at most one child, v, is removed; v takes over its parent.
LEMMA ShallowParents ==
  ASSUME NEW T, Shape(T), Parents, p \in [Keys -> Pointer], NEW k \in items, items' = items \ {k},
         NEW v \in {l[k], r[k]}, l[k] \in {Null, v}, r[k] \in {Null, v},
         NEW lf \in [Keys -> Pointer], NEW rf \in [Keys -> Pointer], Store(Find(k), v, lf, rf),
         \A x \in items \ {k} : lf[x] = l[x] /\ rf[x] = r[x],
         v # Null => p'[v] = p[k], \A x \in items \ {k} : x # v => p'[x] = p[x]
  PROVE  Parents'
<1>1. /\ PointersOK /\ Tree(T, items, root, l, r) /\ IsFiniteSet(items)
      /\ items \in SUBSET Nat /\ items \subseteq Keys /\ Null \notin items
  BY ShapeFacts
<1>2. v \in Pointer /\ k # Null
  BY <1>1 DEF PointersOK
<1>3. /\ root' = IF root = k THEN v ELSE root
      /\ \A x \in items \ {k} : l'[x] = IF l[x] = k THEN v ELSE l[x]
      /\ \A x \in items \ {k} : r'[x] = IF r[x] = k THEN v ELSE r[x]
  BY <1>2, Replaced
<1>4. /\ \A x \in items : l[x] \in items \cup {Null} /\ r[x] \in items \cup {Null}
      /\ root \in items \cup {Null}
  <2>1. ASSUME NEW x \in items
        PROVE  l[x] \in items \cup {Null} /\ r[x] \in items \cup {Null}
    <3>1. Holds(T, Lower(T, x), l[x]) /\ Holds(T, Upper(T, x), r[x]) /\ T[x] \in SUBSET items
      BY <1>1, Sides
    <3> QED
      BY <3>1 DEF Holds, Lower, Upper
  <2>2. Holds(T, items, root)
    BY <1>1 DEF Tree
  <2> QED
    BY <2>1, <2>2 DEF Holds
\* v is the child of k alone.
<1>5. v # Null => /\ v \in items /\ root # v
                  /\ \A x \in items : v \in {l[x], r[x]} => x = k
  <2>1. SUFFICES ASSUME v # Null
                 PROVE  v \in items /\ root # v /\ \A x \in items : v \in {l[x], r[x]} => x = k
    OBVIOUS
  <2>2. v \in items
    BY <1>4, <2>1
  <2> QED
    BY <1>1, <2>1, <2>2, OneParent
<1>6. root' # Null => p'[root'] = Null
  <2>1. CASE root = k
    BY <1>2, <1>3, <2>1 DEF Parents
  <2>2. CASE root # k
    BY <1>3, <1>4, <1>5, <2>2 DEF Parents
  <2> QED
    BY <2>1, <2>2
<1>7. ASSUME NEW x \in items \ {k}
      PROVE  /\ l'[x] # Null => p'[l'[x]] = x
             /\ r'[x] # Null => p'[r'[x]] = x
  <2>1. l'[x] # Null => p'[l'[x]] = x
    <3>1. CASE l[x] = k
      BY <1>2, <1>3, <3>1 DEF Parents
    <3>2. CASE l[x] # k
      BY <1>3, <1>4, <1>5, <3>2 DEF Parents
    <3> QED
      BY <3>1, <3>2
  <2>2. r'[x] # Null => p'[r'[x]] = x
    <3>1. CASE r[x] = k
      BY <1>2, <1>3, <3>1 DEF Parents
    <3>2. CASE r[x] # k
      BY <1>3, <1>4, <1>5, <3>2 DEF Parents
    <3> QED
      BY <3>1, <3>2
  <2> QED
    BY <2>1, <2>2
<1> QED
  BY <1>6, <1>7 DEF Parents

\* map_del() leaves the parents right, unless the item has two children.
LEMMA DelParents ==
  ASSUME NEW T, Shape(T), ParentsHold, NEW k \in Keys, Del(k)
  PROVE  ParentsHold'
<1>1. k \in items /\ items' = items \ {k} /\ spliced' = (spliced \/ (l[k] # Null /\ r[k] # Null))
  <2>1. Found(k) /\ items' = items \ {k} /\ spliced' = (spliced \/ (l[k] # Null /\ r[k] # Null))
    BY DEF Del
  <2>2. Found(k) <=> k \in items
    BY FindFacts
  <2> QED
    BY <2>1, <2>2
<1>2. /\ PointersOK /\ items \subseteq Keys /\ Null \notin items /\ p \in [Keys -> Pointer]
      /\ l[k] \in Pointer /\ r[k] \in Pointer /\ p[k] \in Pointer /\ Null \in Pointer
      /\ l \in [Keys -> Pointer] /\ r \in [Keys -> Pointer]
  BY ShapeFacts DEF PointersOK, ParentsHold, Pointer
<1>3. l[k] # k /\ r[k] # k
  <2>1. Holds(T, Lower(T, k), l[k]) /\ Holds(T, Upper(T, k), r[k]) /\ k \in Nat
    BY <1>1, ShapeFacts, Sides
  <2>2. k \notin Lower(T, k) /\ k \notin Upper(T, k) /\ k # Null
    BY <1>1, <1>2, <2>1 DEF Lower, Upper
  <2> QED
    BY <2>1, <2>2 DEF Holds
<1> DEFINE lf == [l EXCEPT ![k] = Null]
           rf == [r EXCEPT ![k] = Null]
<1>4. /\ lf \in [Keys -> Pointer] /\ rf \in [Keys -> Pointer]
      /\ \A x \in items \ {k} : lf[x] = l[x] /\ rf[x] = r[x]
  BY <1>2
<1> HIDE DEF lf, rf
<1>5. CASE l[k] # Null /\ r[k] # Null
  <2>1. p' = [p EXCEPT ![l[k]] = Rightmost(l[k]), ![k] = Null] /\ spliced'
    BY <1>1, <1>5 DEF Del, DelTwo
  <2>2. Rightmost(l[k]) \in Pointer
    <3>1. Rightmost(l[k]) \in T[k] /\ T[k] \in SUBSET items
      BY <1>1, <1>5, RightmostFacts, ShapeFacts DEF Lower
    <3> QED
      BY <1>2, <3>1 DEF Pointer
  <2> QED
    BY <1>2, <2>1, <2>2 DEF ParentsHold
<1>6. ASSUME NEW v \in {l[k], r[k]}, v # Null, l[k] \in {Null, v}, r[k] \in {Null, v},
             l[k] = Null \/ r[k] = Null, Store(Find(k), v, lf, rf),
             p' = [p EXCEPT ![v] = p[k], ![k] = Null]
      PROVE  ParentsHold'
  <2>1. v \in Keys /\ v # k
    BY <1>2, <1>3, <1>6 DEF Pointer
  <2>2. p'[v] = p[k] /\ \A x \in items \ {k} : x # v => p'[x] = p[x]
    BY <1>2, <1>6, <2>1
  <2>3. p' \in [Keys -> Pointer]
    <3>1. p' = [p EXCEPT ![v] = p[k], ![k] = Null]
      BY <1>6
    <3> QED
      BY <1>2, <3>1
  <2>4. Parents => Parents'
    <3>1. /\ v \in {l[k], r[k]} /\ l[k] \in {Null, v} /\ r[k] \in {Null, v}
          /\ Store(Find(k), v, lf, rf)
      BY <1>6
    <3> QED
      BY <1>1, <1>2, <1>4, <2>2, <3>1, ShallowParents
  <2> QED
    BY <1>1, <1>6, <2>3, <2>4 DEF ParentsHold
<1>7. CASE l[k] # Null /\ r[k] = Null
  <2>1. Store(Find(k), l[k], lf, rf) /\ p' = [p EXCEPT ![l[k]] = p[k], ![k] = Null]
    BY <1>7 DEF Del, DelOne, lf, rf
  <2> QED
    BY <1>6, <1>7, <2>1
<1>8. CASE l[k] = Null /\ r[k] # Null
  <2>1. Store(Find(k), r[k], lf, rf) /\ p' = [p EXCEPT ![r[k]] = p[k], ![k] = Null]
    BY <1>8 DEF Del, DelOne, lf, rf
  <2> QED
    BY <1>6, <1>8, <2>1
<1>9. CASE l[k] = Null /\ r[k] = Null
  <2>1. Store(Find(k), l[k], l, r) /\ p' = [p EXCEPT ![k] = Null]
    BY <1>9 DEF Del, DelLeaf
  <2>2. p' \in [Keys -> Pointer] /\ \A x \in items \ {k} : p'[x] = p[x]
    BY <1>2, <2>1
  <2>3. Parents => Parents'
    BY <1>1, <1>2, <1>9, <2>1, <2>2, ShallowParents
  <2> QED
    BY <1>1, <1>9, <2>2, <2>3 DEF ParentsHold
<1> QED
  BY <1>5, <1>7, <1>8, <1>9

\* Both parts hold together.
LEMMA WalkInvHolds == MapSpec => []WalkInv
<1>1. MapInit => WalkInv
  <2>1. SUFFICES ASSUME MapInit
                 PROVE  WalkInv
    OBVIOUS
  <2>2. MapInv
    BY <2>1, InitMap
  <2>3. ParentsHold
    BY <2>1 DEF MapInit, ParentsHold, Parents, Pointer
  <2> QED
    BY <2>2, <2>3 DEF WalkInv
<1>2. WalkInv /\ [MapNext]_mapVars => WalkInv'
  <2>1. SUFFICES ASSUME WalkInv, [MapNext]_mapVars
                 PROVE  WalkInv'
    OBVIOUS
  <2>2. MapInv' /\ MapInv
    BY <2>1, MapStep DEF WalkInv
  <2>3. PICK T : Shape(T)
    BY <2>2 DEF MapInv
  <2>4. ParentsHold
    BY <2>1 DEF WalkInv
  <2>5. ASSUME NEW k \in Keys, Add(k)
        PROVE  ParentsHold'
    BY <2>3, <2>4, <2>5, AddParents
  <2>6. ASSUME NEW k \in Keys, Del(k)
        PROVE  ParentsHold'
    BY <2>3, <2>4, <2>6, DelParents
  <2>7. ASSUME UNCHANGED mapVars
        PROVE  ParentsHold'
    <3>1. p' = p /\ l' = l /\ r' = r /\ root' = root /\ items' = items /\ spliced' = spliced
      BY <2>7 DEF mapVars
    <3>2. Parents => Parents'
      BY <3>1 DEF Parents
    <3> QED
      BY <2>4, <3>1, <3>2 DEF ParentsHold
  <2>8. ParentsHold'
    BY <2>1, <2>5, <2>6, <2>7 DEF MapNext
  <2> QED
    BY <2>2, <2>8 DEF WalkInv
<1> QED
  BY <1>1, <1>2, PTL DEF MapSpec

\* With the pointers to the parents the walk goes in order.
LEMMA WalkOrdered == WalkInv => WalkIsOrderedUntilSpliced
<1>1. SUFFICES ASSUME WalkInv, ~spliced
               PROVE  WalkIsOrdered
  BY DEF WalkIsOrderedUntilSpliced
<1>2. Parents /\ p \in [Keys -> Pointer] /\ MapInv
  BY <1>1 DEF WalkInv, ParentsHold
<1>3. PICK T : Shape(T)
  BY <1>2 DEF MapInv
<1>4. \A k \in items \cup {Null} : Walk(k) = Least({j \in items : k < j})
  BY <1>2, <1>3, WalkFacts
<1>5. \A k \in items : p[k] \in items \cup {Null}
  BY <1>2, <1>3, ParentFacts
<1> QED
  BY <1>4, <1>5 DEF WalkIsOrdered

\* As long as no item with two children was removed, map_walk() leads from
\* each item to the next in order, and never to one that was removed.
THEOREM WalksInOrder == MapSpec => []WalkIsOrderedUntilSpliced
BY WalkOrdered, WalkInvHolds, PTL

=============================================================================
