--------------------------- MODULE EventLoopProofs --------------------------
(***************************************************************************)
(* The event loop for any set of descriptors, any event masks and whatever *)
(* the heap holds: its types, what select() is asked to watch, and, until  *)
(* a socket with two children is removed from the map, that its walks end, *)
(* and that no event goes astray or is left behind.                        *)
(*                                                                         *)
(* What is proved of the map holds here: each step is one of PtrMap or     *)
(* leaves the map alone (LoopUsesMap).                                     *)
(***************************************************************************)
EXTENDS EventLoop, PtrMapProofs

-----------------------------------------------------------------------------
(* Greatest descriptors.                                                   *)

\* A finite set of naturals has a greatest element, which bounds nfds.
LEMMA GreatestExists ==
  ASSUME NEW S \in SUBSET Nat, IsFiniteSet(S), S # {}
  PROVE  \E m \in S : \A n \in S : n <= m
<1> DEFINE R == StrictSubsetOrdering(Nat)
           F == FiniteSubsetsOf(Nat)
           T == {X \in F : X # {} /\ ~(\E m \in X : \A n \in X : n <= m)}
<1>1. IsWellFoundedOn(R, F)
  BY FS_StrictSubsetOrderingWellFounded
<1>2. SUFFICES ASSUME T # {}
               PROVE  FALSE
  BY DEF FiniteSubsetsOf
<1>3. PICK X \in T : \A Y \in T : ~(<<Y, X>> \in R)
  <2> HIDE DEF R
  <2> QED
    BY <1>1, <1>2, WFMin
<1>4. X \in SUBSET Nat /\ IsFiniteSet(X) /\ X # {}
  BY DEF FiniteSubsetsOf
<1>5. PICK x \in X : TRUE
  BY <1>4
<1> DEFINE Y == X \ {x}
<1>6. Y \in F /\ <<Y, X>> \in R
  BY <1>4, <1>5, FS_RemoveElement DEF FiniteSubsetsOf, StrictSubsetOrdering
<1>7. Y # {}
  <2>1. X # {x}
    BY <1>4, <1>5
  <2> QED
    BY <2>1, <1>5
<1>8. PICK y \in Y : \A n \in Y : n <= y
  BY <1>3, <1>6, <1>7
<1>9. \E m \in X : \A n \in X : n <= m
  <2>1. CASE x <= y
    BY <1>8, <2>1
  <2>2. CASE ~(x <= y)
    <3>1. \A n \in X : n <= x
      BY <1>4, <1>5, <1>8, <2>2
    <3> QED
      BY <1>5, <3>1
  <2> QED
    BY <2>1, <2>2
<1> QED
  BY <1>3, <1>9

\* What Above() returns.
LEMMA AboveIs ==
  ASSUME NEW S \in SUBSET Nat, NEW m \in S, \A n \in S : n <= m
  PROVE  Above(S) = m + 1
<1> DEFINE c == CHOOSE s \in S : \A t \in S : t <= s
<1>1. c \in S /\ \A t \in S : t <= c
  OBVIOUS
<1>2. c = m
  <2>1. m <= c /\ c <= m /\ c \in Nat /\ m \in Nat
    BY <1>1
  <2> HIDE DEF c
  <2> QED
    BY <2>1
<1> QED
  BY <1>2 DEF Above

LEMMA AboveType ==
  ASSUME NEW S \in SUBSET Nat, IsFiniteSet(S)
  PROVE  Above(S) \in Nat /\ \A n \in S : n < Above(S)
<1>1. CASE S = {}
  BY <1>1 DEF Above
<1>2. CASE S # {}
  <2>1. PICK m \in S : \A n \in S : n <= m
    BY <1>2, GreatestExists
  <2>2. Above(S) = m + 1
    BY <2>1, AboveIs
  <2> QED
    BY <2>1, <2>2
<1> QED
  BY <1>1, <1>2

\* How it follows a set that gains an element, and one that loses one.
LEMMA AboveAdded ==
  ASSUME NEW S \in SUBSET Nat, IsFiniteSet(S), NEW s \in Nat
  PROVE  Above(S \cup {s}) = IF s >= Above(S) THEN s + 1 ELSE Above(S)
<1>1. Above(S) \in Nat /\ \A n \in S : n < Above(S)
  BY AboveType
<1>2. CASE s >= Above(S)
  <2>1. \A n \in S \cup {s} : n <= s
    BY <1>1, <1>2
  <2> QED
    BY <1>2, <2>1, AboveIs
<1>3. CASE ~(s >= Above(S))
  <2>1. S # {}
    BY <1>3 DEF Above
  <2>2. PICK m \in S : \A n \in S : n <= m
    BY <2>1, GreatestExists
  <2>3. Above(S) = m + 1
    BY <2>2, AboveIs
  <2>4. \A n \in S \cup {s} : n <= m
    BY <1>1, <1>3, <2>2, <2>3
  <2>5. Above(S \cup {s}) = m + 1
    BY <2>4, AboveIs
  <2> QED
    BY <1>3, <2>3, <2>5
<1> QED
  BY <1>2, <1>3

LEMMA AboveRemoved ==
  ASSUME NEW S \in SUBSET Nat, IsFiniteSet(S), NEW s \in S, Above(S) # s + 1
  PROVE  Above(S \ {s}) = Above(S)
<1>1. PICK m \in S : \A n \in S : n <= m
  BY GreatestExists
<1>2. Above(S) = m + 1
  BY <1>1, AboveIs
<1>3. m \in S \ {s} /\ \A n \in S \ {s} : n <= m
  BY <1>1, <1>2
<1> QED
  BY <1>2, <1>3, AboveIs

-----------------------------------------------------------------------------
(* The map of the loop.                                                    *)

\* The items are a finite set of numbers, none of them Null.
LEMMA ItemFacts ==
  ASSUME WalkInv
  PROVE  /\ items \subseteq Keys /\ items \in SUBSET Nat /\ IsFiniteSet(items) /\ Null \notin items
         /\ p \in [Keys -> Pointer] /\ PointersOK
         /\ \A k \in Keys : Found(k) <=> k \in items
<1>1. MapInv /\ p \in [Keys -> Pointer]
  BY DEF WalkInv, ParentsHold
<1>2. PICK T : Shape(T)
  BY <1>1 DEF MapInv
<1>3. \A k \in Keys : Found(k) <=> k \in items
  BY <1>1, FindExact DEF FindIsExact
<1> QED
  BY <1>1, <1>2, <1>3, ShapeFacts

\* map_walk() returns an item or NULL, or what the removed ones hold.
LEMMA WalkType ==
  ASSUME WalkInv, NEW now \in Pointer
  PROVE  Walk(now) \in Pointer
<1>1. PointersOK /\ p \in [Keys -> Pointer]
  BY ItemFacts
<1>2. root \in Pointer /\ l \in [Keys -> Pointer] /\ r \in [Keys -> Pointer]
  BY <1>1 DEF PointersOK
<1>3. \A k \in Keys : Leftmost(k) \in Keys
  <2>1. SUFFICES ASSUME NEW k \in Keys
                 PROVE  Leftmost(k) \in Keys
    OBVIOUS
  <2>2. PICK d \in [0..Many -> Keys] : End(l, k) = d[Many]
    BY <1>2, EndSteps
  <2>3. Many \in 0..Many
    BY ManyType
  <2> QED
    BY <2>2, <2>3 DEF Leftmost
<1>4. CASE now = Null
  BY <1>2, <1>3, <1>4 DEF Walk, Pointer
<1>5. CASE now # Null /\ r[now] # Null
  <2>1. now \in Keys /\ r[now] \in Keys
    BY <1>2, <1>5 DEF Pointer
  <2>2. Walk(now) = Leftmost(r[now])
    BY <1>5 DEF Walk
  <2> QED
    BY <1>3, <2>1, <2>2 DEF Pointer
<1>6. CASE now # Null /\ r[now] = Null
  <2>1. now \in Keys
    BY <1>6 DEF Pointer
  <2>2. PICK d \in [0..Many -> Turns] :
          Climb(now) = IF d[Many].done THEN p[d[Many].now] ELSE d[Many].now
    BY <1>1, <2>1, ClimbSteps
  <2>3. d[Many] \in Turns
    BY ManyType
  <2>4. d[Many].now \in Keys /\ p[d[Many].now] \in Pointer
    BY <1>1, <2>3 DEF Turns
  <2>5. Climb(now) \in Pointer
    BY <2>2, <2>4 DEF Pointer
  <2> QED
    BY <1>6, <2>5 DEF Walk
<1> QED
  BY <1>4, <1>5, <1>6

\* A climb from parent to parent comes to smaller and smaller items, all of
\* them in the map, so it ends.
LEMMA ClimbEnds ==
  ASSUME WalkInv, ~spliced, NEW now \in items
  PROVE  ~WalkFails(now)
<1>1. Parents /\ MapInv
  BY DEF WalkInv, ParentsHold
<1>2. PICK T : Shape(T)
  BY <1>1 DEF MapInv
<1>3. items \subseteq Keys /\ items \in SUBSET Nat
  BY ItemFacts
<1>4. \A x \in items : GoesOn(x) => p[x] \in items /\ p[x] < x
  BY <1>1, <1>2, ParentFacts DEF GoesOn
<1> DEFINE Closed(S) == now \in S /\ \A x \in S : GoesOn(x) => p[x] \in S
           way == Climbed(now)
<1>5. way = {x \in Keys : \A S \in SUBSET Keys : Closed(S) => x \in S}
  BY DEF Climbed
<1>6. way \subseteq items
  <2>1. Closed(items) /\ items \in SUBSET Keys
    BY <1>3, <1>4
  <2> HIDE DEF Closed, way
  <2> QED
    BY <1>5, <2>1
<1>7. now \in way
  BY <1>3, <1>5
<1>8. ASSUME NEW x \in way, GoesOn(x)
      PROVE  p[x] \in way
  <2>1. p[x] \in Keys
    BY <1>3, <1>4, <1>6, <1>8
  <2>2. ASSUME NEW S \in SUBSET Keys, Closed(S)
        PROVE  p[x] \in S
    BY <1>5, <1>8, <2>2
  <2> HIDE DEF Closed, way
  <2> QED
    BY <1>5, <2>1, <2>2
<1> HIDE DEF way
<1>9. PICK m \in way : \A n \in way : m <= n
  BY <1>3, <1>6, <1>7, LeastExists
<1>10. ~GoesOn(m)
  <2>1. SUFFICES ASSUME GoesOn(m)
                 PROVE  FALSE
    OBVIOUS
  <2>2. p[m] \in way /\ p[m] < m /\ m \in Nat /\ p[m] \in Nat
    BY <1>3, <1>4, <1>6, <1>8, <1>9, <2>1
  <2> QED
    BY <1>9, <2>2
<1> QED
  BY <1>6, <1>9, <1>10 DEF WalkFails, way

\* A walk from the start comes by every item, or by the one it is left at.
LEMMA WalkComesBy ==
  ASSUME WalkInv, ~spliced, NEW last
  PROVE  /\ Visited(last) \subseteq items \cup {Null} /\ Null \in Visited(last)
         /\ last \notin Visited(last) => Visited(last) = items \cup {Null}
         /\ Ends(last)
<1> DEFINE N == items \cup {Null}
           way == Visited(last)
           Closed(S) == Null \in S /\ \A x \in S \ {last} : Walk(x) \in S
<1>1. items \subseteq Keys /\ items \in SUBSET Nat /\ IsFiniteSet(items) /\ Null \notin items
  BY ItemFacts
<1>2. \A x \in N : Walk(x) = Least({j \in items : x < j})
  BY WalkOrdered DEF WalkIsOrderedUntilSpliced, WalkIsOrdered
<1>3. N \in SUBSET Nat /\ N \in SUBSET Pointer /\ IsFiniteSet(N)
  <2>1. N \in SUBSET Nat /\ N \in SUBSET Pointer
    BY <1>1 DEF Null, Pointer
  <2> QED
    BY <1>1, <2>1, FS_AddElement
<1>4. \A x \in N : Walk(x) \in N
  <2>1. SUFFICES ASSUME NEW x \in N
                 PROVE  Walk(x) \in N
    OBVIOUS
  <2> DEFINE A == {j \in items : x < j}
  <2>2. CASE A = {}
    BY <1>2, <2>2 DEF Least
  <2>3. CASE A # {}
    <3>1. A \in SUBSET Nat
      BY <1>1
    <3>2. PICK m \in A : \A n \in A : m <= n
      <4> HIDE DEF A
      <4> QED
        BY <2>3, <3>1, LeastExists
    <3>3. Least(A) = m
      <4> HIDE DEF A
      <4> QED
        BY <3>1, <3>2, LeastIs
    <3> QED
      BY <1>2, <3>2, <3>3
  <2> QED
    BY <2>2, <2>3
<1>5. way = {x \in Pointer : \A S \in SUBSET Pointer : Closed(S) => x \in S}
  BY DEF Visited
<1>6. way \subseteq N
  <2>1. Closed(N)
    BY <1>4
  <2> HIDE DEF Closed, way, N
  <2> QED
    BY <1>3, <1>5, <2>1
<1>7. Null \in way
  BY <1>5 DEF Pointer
<1>8. ASSUME NEW x \in way, x # last
      PROVE  Walk(x) \in way
  <2>1. Walk(x) \in Pointer
    BY <1>3, <1>4, <1>6
  <2>2. ASSUME NEW S \in SUBSET Pointer, Closed(S)
        PROVE  Walk(x) \in S
    BY <1>5, <1>8, <2>2
  <2> HIDE DEF Closed, way
  <2> QED
    BY <1>5, <2>1, <2>2
<1> HIDE DEF way, Closed
<1>9. ASSUME last \notin way
      PROVE  items \subseteq way
  <2>1. SUFFICES ASSUME items \ way # {}
                 PROVE  FALSE
    OBVIOUS
  <2>2. PICK m \in items \ way : \A n \in items \ way : m <= n
    BY <1>1, <2>1, LeastExists
  <2> DEFINE B == {j \in N : j < m}
  <2>3. B \in SUBSET Nat /\ IsFiniteSet(B) /\ Null \in B
    <3>1. Null < m
      BY <1>1, <2>2 DEF Null
    <3>2. B \in SUBSET N
      OBVIOUS
    <3> QED
      BY <1>3, <3>1, <3>2, FS_Subset
  <2>4. PICK g \in B : \A n \in B : n <= g
    <3> HIDE DEF B
    <3> QED
      BY <2>3, GreatestExists
  <2>5. g \in way /\ g \in Nat /\ m \in Nat /\ g < m
    BY <1>1, <1>3, <1>7, <2>2, <2>4
  <2>6. \A j \in {j \in items : g < j} : m <= j
    BY <1>1, <2>4, <2>5
  <2>7. Least({j \in items : g < j}) = m
    <3>1. m \in {j \in items : g < j} /\ {j \in items : g < j} \in SUBSET Nat
      BY <1>1, <2>2, <2>5
    <3> QED
      BY <2>6, <3>1, LeastIs
  <2>8. m \in way
    BY <1>2, <1>6, <1>8, <1>9, <2>5, <2>7
  <2> QED
    BY <2>2, <2>8
<1>10. last \notin way => way = N
  BY <1>6, <1>7, <1>9
<1>11. \A x \in way : ~WalkFails(x)
  BY <1>6, ClimbEnds DEF WalkFails
<1>12. ASSUME last \notin way
       PROVE  \E x \in way : Walk(x) = Null
  <2>1. PICK g \in N : \A n \in N : n <= g
    BY <1>3, GreatestExists
  <2>2. {j \in items : g < j} = {}
    BY <1>3, <2>1
  <2>3. Walk(g) = Null
    BY <1>2, <2>2 DEF Least
  <2> QED
    BY <1>10, <1>12, <2>1, <2>3
<1>13. Ends(last)
  BY <1>11, <1>12 DEF Ends, way
<1> QED
  BY <1>6, <1>7, <1>10, <1>13 DEF way

\* So the loop's walks do what they are for: they collect all sockets, and
\* find the largest descriptor.
WalksWell ==
  ~spliced =>
    /\ \A s \in items : ~WalkFails(s)
    /\ \A s \in items \cup {Null} : Walk(s) = Least({j \in items : s < j})
    /\ Ends(-1) /\ Visited(-1) \ {Null} = items
    /\ \A s \in Keys : (\A j \in items : j < s) =>
         Ends(s - 1) /\ Above(Visited(s - 1) \ {Null}) = Above(items)

LEMMA WalksAreSound == WalkInv => WalksWell
<1> SUFFICES ASSUME WalkInv, ~spliced
             PROVE  /\ \A s \in items : ~WalkFails(s)
                    /\ \A s \in items \cup {Null} : Walk(s) = Least({j \in items : s < j})
                    /\ Ends(-1) /\ Visited(-1) \ {Null} = items
                    /\ \A s \in Keys : (\A j \in items : j < s) =>
                         Ends(s - 1) /\ Above(Visited(s - 1) \ {Null}) = Above(items)
  BY DEF WalksWell
<1>1. items \subseteq Keys /\ items \in SUBSET Nat /\ IsFiniteSet(items) /\ Null \notin items
  BY ItemFacts
<1>2. \A s \in items : ~WalkFails(s)
  BY ClimbEnds
<1>3. \A s \in items \cup {Null} : Walk(s) = Least({j \in items : s < j})
  BY WalkOrdered DEF WalkIsOrderedUntilSpliced, WalkIsOrdered
<1>4. Ends(-1) /\ Visited(-1) \ {Null} = items
  <2>1. -1 \notin items \cup {Null}
    BY <1>1 DEF Null
  <2> QED
    BY <1>1, <2>1, WalkComesBy
<1>5. ASSUME NEW s \in Keys, \A j \in items : j < s
      PROVE  Ends(s - 1) /\ Above(Visited(s - 1) \ {Null}) = Above(items)
  <2> DEFINE way == Visited(s - 1)
  <2>1. /\ way \subseteq items \cup {Null} /\ Null \in way
        /\ s - 1 \notin way => way = items \cup {Null}
        /\ Ends(s - 1)
    BY WalkComesBy
  <2> HIDE DEF way
  <2>2. s \in Nat /\ s - 1 \in Int
    BY KeysAssumption
  <2>3. CASE s - 1 \notin way \/ s - 1 = Null
    <3>1. s - 1 = Null => items = {}
      BY <1>1, <1>5, <2>2 DEF Null
    <3>2. way \ {Null} = items
      BY <1>1, <2>1, <2>3, <3>1
    <3> QED
      BY <2>1, <3>2 DEF way
  <2>4. CASE s - 1 \in way /\ s - 1 # Null
    <3>1. s - 1 \in items /\ s - 1 \in way \ {Null} /\ way \ {Null} \subseteq items
      BY <2>1, <2>4
    <3>2. \A j \in items : j <= s - 1
      BY <1>1, <1>5, <2>2
    <3>3. Above(items) = (s - 1) + 1
      BY <1>1, <3>1, <3>2, AboveIs
    <3>4. Above(way \ {Null}) = (s - 1) + 1
      <4>1. way \ {Null} \in SUBSET Nat /\ \A j \in way \ {Null} : j <= s - 1
        BY <1>1, <3>1, <3>2
      <4> HIDE DEF way
      <4> QED
        BY <3>1, <4>1, AboveIs
    <3> QED
      BY <2>1, <3>3, <3>4 DEF way
  <2> QED
    BY <2>3, <2>4
<1> QED
  BY <1>2, <1>3, <1>4, <1>5

\* Each step of the loop is one of the map, or leaves it alone.
LEMMA LoopUsesMap == Spec => MapSpec
<1>1. Init => MapInit
  BY DEF Init
<1>2. [Next]_vars => [MapNext]_mapVars
  <2>1. SUFFICES ASSUME [Next]_vars
                 PROVE  MapNext \/ UNCHANGED mapVars
    OBVIOUS
  <2>2. ASSUME NEW s \in Keys, NEW ev \in Masks, AddSocket(s, ev)
        PROVE  MapNext
    BY <2>2 DEF AddSocket, Register, MapNext
  <2>3. ASSUME NEW s \in Keys, DelSocket(s)
        PROVE  MapNext
    BY <2>3 DEF DelSocket, Unregister, MapNext
  <2> QED
    BY <2>1, <2>2, <2>3
    DEF Next, Monitor, Dispatching, ModSocket, Discard, Recurse, Select, Collect, WalkOn, PassOver,
        Dispatch, WalkEnds, GoAstray, Return, vars
<1> QED
  BY <1>1, <1>2, PTL DEF Spec, MapSpec

\* So what is proved of the map holds.
LEMMA MapIsSound == Spec => [](WalkInv /\ WalksWell)
BY LoopUsesMap, WalkInvHolds, WalksAreSound, PTL


-----------------------------------------------------------------------------
(* Types.                                                                  *)

\* The count of callbacks to go is not zero while there are callbacks to go,
\* and a callback that has discarded the loop has marked it dead.
TypeInv ==
  /\ TypeOK
  /\ pc \in {"dispatch", "callback"} => active # 0
  /\ pc = "closing" => dead

\* The sockets are a finite set of numbers, and so is any part of them.
LEMMA SocketsFinite ==
  ASSUME TypeOK, NEW S \in SUBSET Keys
  PROVE  S \in SUBSET Nat /\ IsFiniteSet(S) /\ Cardinality(S) \in Nat
<1>1. IsFiniteSet(Keys) /\ S \in SUBSET Nat
  BY KeysAssumption
<1>2. IsFiniteSet(S)
  BY <1>1, FS_Subset
<1> QED
  BY <1>1, <1>2, FS_CardinalityType

LEMMA TypesInitially == Init => TypeInv
<1> SUFFICES ASSUME Init
             PROVE  TypeInv
  OBVIOUS
<1>1. inCallback \in BOOLEAN /\ dead \in BOOLEAN /\ clear \in BOOLEAN
  BY DEF Init
<1>2. /\ pc = "idle" /\ mi = Null /\ active = 0 /\ nfds = 0 /\ touched = FALSE /\ littered = {}
      /\ items = {} /\ spliced = FALSE
  BY DEF Init, MapInit
<1>3. /\ events \in [Keys -> SUBSET RW] /\ have \in [Keys -> SUBSET SkEvent]
      /\ fds \in [SkEvent -> SUBSET Keys] /\ reported \in [Keys -> SUBSET SkEvent]
  BY DEF Init
<1> QED
  BY <1>1, <1>2, <1>3 DEF TypeInv, TypeOK, Control, Pointer

LEMMA TypesOfAdd ==
  ASSUME TypeInv, NEW s \in Keys, NEW ev \in Masks, AddSocket(s, ev)
  PROVE  TypeInv'
<1>1. s \in Nat /\ ev \in SUBSET RW
  BY LoopAssumption, KeysAssumption
<1>2. PICK found \in Garbage :
        /\ Register(s, ev, found)
        /\ littered' = IF found = {} THEN littered ELSE littered \cup {s}
  BY DEF AddSocket
<1>3. found \in SUBSET SkEvent
  BY LoopAssumption
<1>4. items' \subseteq Keys /\ spliced' \in BOOLEAN /\ littered' \subseteq Keys
  BY <1>2 DEF Register, Add, TypeInv, TypeOK
<1>5. events' \in [Keys -> SUBSET RW] /\ have' \in [Keys -> SUBSET SkEvent]
  BY <1>1, <1>2, <1>3 DEF Register, TypeInv, TypeOK
<1>6. fds' \in [SkEvent -> SUBSET Keys]
  BY <1>2 DEF Register, TypeInv, TypeOK
<1>7. nfds' \in Nat /\ touched' \in BOOLEAN
  BY <1>1, <1>2 DEF Register, TypeInv, TypeOK
<1> QED
  BY <1>2, <1>4, <1>5, <1>6, <1>7 DEF Register, TypeInv, TypeOK

LEMMA TypesOfMod ==
  ASSUME TypeInv, NEW s \in Keys, NEW ev \in Masks, ModSocket(s, ev)
  PROVE  TypeInv'
<1>1. ev \in SUBSET RW
  BY LoopAssumption
<1>2. events' \in [Keys -> SUBSET RW]
  BY <1>1 DEF ModSocket, TypeInv, TypeOK
<1>3. fds' \in [SkEvent -> SUBSET Keys]
  BY DEF ModSocket, TypeInv, TypeOK
<1> QED
  BY <1>2, <1>3 DEF ModSocket, TypeInv, TypeOK, mapVars

LEMMA TypesOfDel ==
  ASSUME TypeInv, NEW s \in Keys, DelSocket(s)
  PROVE  TypeInv'
<1>1. Unregister(s, events[s] \cup {"error"}) /\ Recalculate(s)
  BY DEF DelSocket
<1>2. items' \subseteq Keys /\ spliced' \in BOOLEAN
  BY <1>1 DEF Unregister, Del, TypeInv, TypeOK
<1>3. nfds' \in Nat /\ pc' \in {pc, "astray"}
  <2>1. (Visited(s - 1) \ {Null})' \in SUBSET Keys
    BY DEF Visited, Pointer
  <2>2. Above((Visited(s - 1) \ {Null})') \in Nat
    BY <2>1, SocketsFinite, AboveType DEF TypeInv
  <2>3. nfds' = nfds \/ nfds' = Above(Visited(s - 1)' \ {Null})
    BY <1>1 DEF Recalculate
  <2> QED
    BY <1>1, <2>2, <2>3 DEF Recalculate, TypeInv, TypeOK
<1>4. fds' \in [SkEvent -> SUBSET Keys]
  BY <1>1 DEF Unregister, TypeInv, TypeOK
<1>5. /\ events' \in [Keys -> SUBSET RW]
      /\ have' \in [Keys -> SUBSET SkEvent]
      /\ reported' \in [Keys -> SUBSET SkEvent]
  BY <1>1 DEF Unregister, TypeInv, TypeOK
<1> QED
  BY <1>1, <1>2, <1>3, <1>4, <1>5 DEF Unregister, TypeInv, TypeOK, Control

LEMMA TypesOfDiscard == TypeInv /\ Discard => TypeInv'
BY DEF Discard, TypeInv, TypeOK, Control, mapVars

LEMMA TypesOfRecurse == TypeInv /\ Recurse => TypeInv'
BY DEF Recurse, TypeInv, TypeOK, Control, mapVars

\* What select() reports is a set of events for each descriptor.
LEMMA ResultType ==
  ASSUME NEW rdy \in SelectResults
  PROVE  rdy \in [Keys -> SUBSET SkEvent]
BY DEF SelectResults

LEMMA TypesOfSelect == TypeInv /\ Select => TypeInv'
<1> SUFFICES ASSUME TypeInv, Select
             PROVE  TypeInv'
  OBVIOUS
<1> DEFINE seen == Visited(-1) \ {Null}
<1>1. PICK rdy \in SelectResults :
        /\ reported' = rdy
        /\ have' = [s \in Keys |-> IF s \in seen THEN rdy[s] ELSE have[s]]
        /\ active' = Cardinality({s \in seen : rdy[s] \cap SkEvent # {}})
  BY DEF Select, Collect
<1>2. have' \in [Keys -> SUBSET SkEvent] /\ reported' \in [Keys -> SUBSET SkEvent]
  BY <1>1, ResultType DEF TypeInv, TypeOK
<1>3. active' \in Nat
  <2>1. {s \in seen : rdy[s] \cap SkEvent # {}} \in SUBSET Keys
    BY DEF Visited, Pointer
  <2> HIDE DEF seen
  <2> QED
    BY <1>1, <2>1, SocketsFinite DEF TypeInv
<1>4. /\ pc' = IF ~Ends(-1) THEN "astray" ELSE IF active' = 0 THEN "aborted" ELSE "dispatch"
      /\ touched' = FALSE /\ mi' = Null /\ littered' = {}
      /\ UNCHANGED <<mapVars, events, fds, nfds, inCallback, dead, clear>>
  BY DEF Select, Collect
<1> QED
  BY <1>2, <1>3, <1>4 DEF TypeInv, TypeOK, Control, Pointer, mapVars

LEMMA TypesOfDispatching == TypeInv /\ WalkInv /\ Dispatching => TypeInv'
<1> SUFFICES ASSUME TypeInv, WalkInv, Dispatching
             PROVE  TypeInv'
  OBVIOUS
<1>1. WalkOn => mi' \in Pointer
  BY WalkType DEF WalkOn, TypeInv, TypeOK
<1>2. CASE GoAstray
  BY <1>2 DEF GoAstray, TypeInv, TypeOK, Control, mapVars
<1>3. CASE PassOver
  BY <1>1, <1>3 DEF PassOver, WalkOn, TypeInv, TypeOK, mapVars
<1>4. CASE Dispatch
  <2>1. have' \in [Keys -> SUBSET SkEvent] /\ reported' \in [Keys -> SUBSET SkEvent]
    BY <1>4 DEF Dispatch, TypeInv, TypeOK
  <2> QED
    BY <1>1, <1>4, <2>1 DEF Dispatch, WalkOn, TypeInv, TypeOK, Control, mapVars
<1>5. CASE WalkEnds
  BY <1>1, <1>5 DEF WalkEnds, WalkOn, TypeInv, TypeOK, Control, mapVars
<1> QED
  BY <1>2, <1>3, <1>4, <1>5 DEF Dispatching

LEMMA TypesOfReturn == TypeInv /\ Return => TypeInv'
<1> SUFFICES ASSUME TypeInv, Return
             PROVE  TypeInv'
  OBVIOUS
<1>1. ~dead => active \in Nat \ {0}
  BY DEF Return, TypeInv, TypeOK
<1>2. active' \in Nat
  BY <1>1 DEF Return, TypeInv, TypeOK
<1> QED
  BY <1>2 DEF Return, TypeInv, TypeOK, Control, Pointer, mapVars

LEMMA TypesInductive == TypeInv /\ WalkInv /\ [Next]_vars => TypeInv'
<1> SUFFICES ASSUME TypeInv, WalkInv, [Next]_vars
             PROVE  TypeInv'
  OBVIOUS
<1>1. CASE UNCHANGED vars
  BY <1>1 DEF vars, loopVars, mapVars, TypeInv, TypeOK
<1> QED
  BY <1>1, TypesOfAdd, TypesOfMod, TypesOfDel, TypesOfDiscard, TypesOfRecurse, TypesOfSelect,
     TypesOfDispatching, TypesOfReturn DEF Next, Monitor

LEMMA TypesHold == Spec => []TypeInv
<1>1. Init => TypeInv
  BY TypesInitially
<1>2. TypeInv /\ WalkInv /\ [Next]_vars => TypeInv'
  BY TypesInductive
<1> QED
  BY <1>1, <1>2, MapIsSound, PTL DEF Spec

\* Every field of the loop keeps its type, whatever the heap holds.
THEOREM TypeCorrect == Spec => []TypeOK
<1>1. TypeInv => TypeOK
  BY DEF TypeInv
<1> QED
  BY <1>1, TypesHold, PTL

-----------------------------------------------------------------------------
(* What select() is asked to watch.                                        *)

LEMMA WatchedInitially == Init => WatchedAsAsked
<1> SUFFICES ASSUME Init
             PROVE  WatchedAsAsked
  OBVIOUS
<1>1. items = {} /\ nfds = 0 /\ \A e \in SkEvent : fds[e] = {}
  BY DEF Init, MapInit
<1> QED
  BY <1>1 DEF WatchedAsAsked, Above, SkEvent, RW

LEMMA WatchedOfAdd ==
  ASSUME TypeOK, WalkInv, WatchedAsAsked, NEW s \in Keys, NEW ev \in Masks, AddSocket(s, ev)
  PROVE  WatchedAsAsked'
<1>1. ev \in SUBSET RW /\ s \in Nat
  BY LoopAssumption, KeysAssumption
<1>2. PICK found : Register(s, ev, found)
  BY DEF AddSocket
<1>3. /\ s \notin items
      /\ items' = items \cup {s} /\ spliced' = spliced
      /\ events'[s] = ev /\ \A t \in items : events'[t] = events[t]
      /\ \A e \in SkEvent :
           fds'[e] = IF e \in ev \cup {"error"} THEN fds[e] \cup {s} ELSE fds[e]
  <2>1. At(Find(s)) = Null /\ items' = items \cup {s} /\ spliced' = spliced
    BY <1>2 DEF Register, Add
  <2>2. s \notin items
    BY <2>1, ItemFacts, KeysAssumption DEF Found
  <2>3. /\ events' = [events EXCEPT ![s] = ev]
        /\ fds' = [e \in SkEvent |-> IF e \in ev \cup {"error"} THEN fds[e] \cup {s} ELSE fds[e]]
    BY <1>2 DEF Register
  <2>4. events'[s] = ev /\ \A t \in items : events'[t] = events[t]
    BY <2>2, <2>3 DEF TypeOK
  <2> QED
    BY <2>1, <2>2, <2>3, <2>4
<1>4. fds'["error"] = items'
  BY <1>3 DEF WatchedAsAsked, SkEvent
<1>5. ASSUME NEW e \in RW
      PROVE  fds'[e] = {t \in items' : e \in events'[t]}
  <2>1. fds[e] = {t \in items : e \in events[t]} /\ e # "error"
    BY DEF WatchedAsAsked, RW
  <2>2. fds'[e] = IF e \in ev THEN fds[e] \cup {s} ELSE fds[e]
    BY <1>3, <2>1 DEF SkEvent
  <2> QED
    BY <1>1, <1>3, <2>1, <2>2
<1>6. ~spliced' => nfds' = Above(items')
  <2>1. items \in SUBSET Nat /\ IsFiniteSet(items)
    BY ItemFacts
  <2>2. Above(items \cup {s}) = IF s >= Above(items) THEN s + 1 ELSE Above(items)
    BY <1>1, <2>1, AboveAdded
  <2> QED
    BY <1>2, <1>3, <2>2 DEF Register, WatchedAsAsked
<1> QED
  BY <1>4, <1>5, <1>6 DEF WatchedAsAsked

LEMMA WatchedOfMod ==
  ASSUME TypeOK, WalkInv, WatchedAsAsked, NEW s \in Keys, NEW ev \in Masks, ModSocket(s, ev)
  PROVE  WatchedAsAsked'
<1>1. ev \in SUBSET RW /\ events[s] \in SUBSET RW /\ s \in items
  BY LoopAssumption, ItemFacts DEF ModSocket, TypeOK
<1>2. /\ items' = items /\ spliced' = spliced /\ nfds' = nfds
      /\ events'[s] = ev /\ \A t \in items : t # s => events'[t] = events[t]
      /\ \A e \in SkEvent :
           fds'[e] = IF e \in ev \ events[s] THEN fds[e] \cup {s}
                     ELSE IF e \in events[s] \ ev THEN fds[e] \ {s} ELSE fds[e]
  BY <1>1 DEF ModSocket, TypeOK, mapVars
<1>3. fds'["error"] = items'
  BY <1>1, <1>2 DEF WatchedAsAsked, SkEvent, RW
<1>4. ASSUME NEW e \in RW
      PROVE  fds'[e] = {t \in items' : e \in events'[t]}
  <2>1. fds[e] = {t \in items : e \in events[t]}
    BY DEF WatchedAsAsked
  <2>2. fds'[e] = IF e \in ev \ events[s] THEN fds[e] \cup {s}
                  ELSE IF e \in events[s] \ ev THEN fds[e] \ {s} ELSE fds[e]
    BY <1>2 DEF SkEvent
  <2> QED
    BY <1>1, <1>2, <2>1, <2>2
<1> QED
  BY <1>2, <1>3, <1>4 DEF WatchedAsAsked

LEMMA WatchedOfDel ==
  ASSUME TypeOK, WalkInv, WalkInv', WalksWell', WatchedAsAsked, NEW s \in Keys, DelSocket(s)
  PROVE  WatchedAsAsked'
<1>1. Unregister(s, events[s] \cup {"error"}) /\ Recalculate(s)
  BY DEF DelSocket
<1>2. /\ items' = items \ {s} /\ s \in items /\ (spliced => spliced')
      /\ \A t \in items' : events'[t] = events[t]
      /\ \A e \in SkEvent :
           fds'[e] = IF e \in events[s] \cup {"error"} THEN fds[e] \ {s} ELSE fds[e]
  <2>1. Found(s) /\ items' = items \ {s} /\ (spliced => spliced')
    BY <1>1 DEF Unregister, Del
  <2>2. s \in items
    BY <2>1, ItemFacts
  <2> QED
    BY <1>1, <2>1, <2>2 DEF Unregister, TypeOK
<1>3. fds'["error"] = items'
  BY <1>2 DEF WatchedAsAsked, SkEvent
<1>4. ASSUME NEW e \in RW
      PROVE  fds'[e] = {t \in items' : e \in events'[t]}
  <2>1. fds[e] = {t \in items : e \in events[t]} /\ e # "error"
    BY DEF WatchedAsAsked, RW
  <2>2. fds'[e] = IF e \in events[s] THEN fds[e] \ {s} ELSE fds[e]
    BY <1>2, <2>1 DEF SkEvent
  <2> QED
    BY <1>2, <2>1, <2>2
<1>5. ASSUME ~spliced'
      PROVE  nfds' = Above(items')
  <2>1. items \in SUBSET Nat /\ IsFiniteSet(items) /\ s \in Nat
    BY ItemFacts, KeysAssumption
  <2>2. nfds = Above(items)
    BY <1>2, <1>5 DEF WatchedAsAsked
  <2>3. CASE nfds # s + 1
    <3>1. Above(items \ {s}) = Above(items)
      BY <1>2, <2>1, <2>2, <2>3, AboveRemoved
    <3>2. nfds' = nfds
      BY <1>1, <2>3 DEF Recalculate
    <3> QED
      BY <1>2, <2>2, <3>1, <3>2
  <2>4. CASE nfds = s + 1
    <3>1. \A j \in items' : j < s
      <4>1. \A j \in items : j < s + 1 /\ j \in Nat
        BY <2>1, <2>2, <2>4, AboveType
      <4> QED
        BY <1>2, <2>1, <4>1
    <3>2. Ends(s - 1)' /\ Above(Visited(s - 1)' \ {Null}) = Above(items')
      BY <1>5, <3>1 DEF WalksWell
    <3> QED
      BY <1>1, <2>4, <3>2 DEF Recalculate
  <2> QED
    BY <2>3, <2>4
<1> QED
  BY <1>3, <1>4, <1>5 DEF WatchedAsAsked

LEMMA WatchedInductive ==
  TypeInv /\ WalkInv /\ WalkInv' /\ WalksWell' /\ WatchedAsAsked /\ [Next]_vars => WatchedAsAsked'
<1> SUFFICES ASSUME TypeOK, WalkInv, WalkInv', WalksWell', WatchedAsAsked, [Next]_vars
             PROVE  WatchedAsAsked'
  BY DEF TypeInv
<1>1. CASE UNCHANGED <<items, spliced, events, fds, nfds>>
  BY <1>1 DEF WatchedAsAsked
<1> QED
  BY <1>1, WatchedOfAdd, WatchedOfMod, WatchedOfDel
  DEF Next, Monitor, Dispatching, Discard, Recurse, Select, Collect, WalkOn, PassOver, Dispatch,
      WalkEnds, GoAstray, Return, vars, loopVars, mapVars

\* select() watches the registered sockets, each for what was asked, and,
\* until the map is damaged, is told the right number of descriptors.
THEOREM SocketsAreWatched == Spec => []WatchedAsAsked
<1>1. Init => WatchedAsAsked
  BY WatchedInitially
<1>2. TypeInv /\ WalkInv /\ WalkInv' /\ WalksWell' /\ WatchedAsAsked /\ [Next]_vars => WatchedAsAsked'
  BY WatchedInductive
<1> QED
  BY <1>1, <1>2, TypesHold, MapIsSound, PTL DEF Spec

-----------------------------------------------------------------------------
(* What is dispatched, as long as the map is sound.                        *)

LEMMA LoopInitially == Init => LoopInv
<1> SUFFICES ASSUME Init
             PROVE  LoopInv
  OBVIOUS
<1>1. items = {} /\ pc = "idle" /\ clear = (~inCallback /\ ~dead)
  BY DEF Init, MapInit
<1> QED
  BY <1>1 DEF LoopInv, PhaseInv, CountInv, AheadInv, ReportedInv, NoAbort, NothingLeftBehind,
     NeverAstray

\* A socket that was just added has no events, so none is dispatched to it
\* before select() has reported one, or else it counts as littered.
LEMMA LoopOfAdd ==
  ASSUME TypeInv, WalkInv, LoopInv, NEW s \in Keys, NEW ev \in Masks, AddSocket(s, ev)
  PROVE  LoopInv'
<1>1. PICK found \in Garbage :
        /\ Register(s, ev, found)
        /\ littered' = IF found = {} THEN littered ELSE littered \cup {s}
  BY DEF AddSocket
<1>2. /\ items' = items \cup {s} /\ s \notin items /\ spliced' = spliced /\ touched' = TRUE
      /\ have'[s] = found /\ \A t \in items : have'[t] = have[t]
      /\ pc \in {"idle", "callback", "closing"}
      /\ UNCHANGED <<inCallback, dead, pc, mi, active, clear, reported>>
  <2>1. At(Find(s)) = Null /\ items' = items \cup {s} /\ spliced' = spliced
    BY <1>1 DEF Register, Add
  <2>2. s \notin items
    BY <2>1, ItemFacts, KeysAssumption DEF Found
  <2>3. have' = [have EXCEPT ![s] = found] /\ have \in [Keys -> SUBSET SkEvent] /\ items \subseteq Keys
    BY <1>1 DEF Register, TypeInv, TypeOK
  <2>4. have'[s] = found /\ \A t \in items : have'[t] = have[t]
    BY <2>2, <2>3
  <2> QED
    BY <1>1, <2>1, <2>2, <2>4 DEF Register, Callable
<1>3. littered' = {} => littered = {} /\ found = {}
  BY <1>1
<1>4. CountInv'
  <2>1. found = {} => Undispatched' = Undispatched
    BY <1>2 DEF Undispatched
  <2> QED
    BY <1>2, <1>3, <2>1 DEF CountInv, LoopInv
<1>5. ReportedInv'
  BY <1>1, <1>2 DEF ReportedInv, LoopInv
<1>6. NothingLeftBehind'
  BY <1>2, <1>3 DEF NothingLeftBehind, LoopInv
<1>7. PhaseInv' /\ NoAbort' /\ AheadInv' /\ NeverAstray'
  BY <1>2 DEF PhaseInv, NoAbort, AheadInv, NeverAstray, LoopInv
<1> QED
  BY <1>4, <1>5, <1>6, <1>7 DEF LoopInv

LEMMA LoopOfMod ==
  ASSUME LoopInv, NEW s \in Keys, NEW ev \in Masks, ModSocket(s, ev)
  PROVE  LoopInv'
BY DEF ModSocket, mapVars, LoopInv, PhaseInv, CountInv, AheadInv, ReportedInv, NoAbort,
   NothingLeftBehind, NeverAstray, Undispatched

\* The largest descriptor is looked for by a walk that ends.
LEMMA DelStays ==
  ASSUME WalkInv, WatchedAsAsked, WalksWell', NEW s \in Keys, DelSocket(s), ~spliced'
  PROVE  pc' = pc
<1>1. Unregister(s, events[s] \cup {"error"}) /\ Recalculate(s)
  BY DEF DelSocket
<1>2. items' = items \ {s} /\ ~spliced
  BY <1>1 DEF Unregister, Del
<1>3. items \in SUBSET Nat /\ IsFiniteSet(items) /\ s \in Nat
  BY ItemFacts, KeysAssumption
<1>4. CASE nfds = s + 1
  <2>1. \A j \in items : j < s + 1
    BY <1>2, <1>3, <1>4, AboveType DEF WatchedAsAsked
  <2>2. \A j \in items' : j < s
    BY <1>2, <1>3, <2>1
  <2>3. Ends(s - 1)'
    BY <2>2 DEF WalksWell
  <2> QED
    BY <1>1, <1>4, <2>3 DEF Recalculate
<1>5. CASE nfds # s + 1
  BY <1>1, <1>5 DEF Recalculate
<1> QED
  BY <1>4, <1>5

LEMMA LoopOfDel ==
  ASSUME TypeInv, WalkInv, WalksWell', WatchedAsAsked, LoopInv, NEW s \in Keys, DelSocket(s)
  PROVE  LoopInv'
<1>1. Unregister(s, events[s] \cup {"error"}) /\ Recalculate(s)
  BY DEF DelSocket
<1>2. /\ items' = items \ {s} /\ (spliced => spliced') /\ touched' = TRUE
      /\ \A t \in items' : have'[t] = have[t] /\ reported'[t] = reported[t]
      /\ pc \in {"idle", "callback", "closing"} /\ pc' \in {pc, "astray"}
      /\ UNCHANGED <<inCallback, dead, mi, active, clear, littered>>
  <2>1. items' = items \ {s} /\ (spliced => spliced')
    BY <1>1 DEF Unregister, Del
  <2>2. /\ have' = [have EXCEPT ![s] = {}] /\ reported' = [reported EXCEPT ![s] = {}]
        /\ have \in [Keys -> SUBSET SkEvent] /\ reported \in [Keys -> SUBSET SkEvent]
        /\ items \subseteq Keys
    BY <1>1 DEF Unregister, TypeInv, TypeOK
  <2>3. \A t \in items' : have'[t] = have[t] /\ reported'[t] = reported[t]
    BY <2>1, <2>2
  <2>4. pc' \in {pc, "astray"}
    BY <1>1 DEF Recalculate
  <2> QED
    BY <1>1, <2>1, <2>3, <2>4 DEF Unregister, Callable
<1>3. ~spliced' => pc' = pc
  BY DelStays
<1>4. CountInv'
  <2>1. Undispatched' \in SUBSET Undispatched /\ Undispatched \in SUBSET Keys
    BY <1>2 DEF Undispatched, TypeInv, TypeOK
  <2>2. /\ Cardinality(Undispatched') <= Cardinality(Undispatched)
        /\ Cardinality(Undispatched') \in Nat /\ Cardinality(Undispatched) \in Nat
    BY <2>1, SocketsFinite, FS_Subset DEF TypeInv
  <2> QED
    BY <1>2, <1>3, <2>2 DEF LoopInv, CountInv, TypeInv, TypeOK
<1>5. PhaseInv' /\ NoAbort' /\ AheadInv' /\ NeverAstray'
  BY <1>2, <1>3 DEF LoopInv, PhaseInv, NoAbort, AheadInv, NeverAstray
<1>6. ReportedInv' /\ NothingLeftBehind'
  BY <1>2, <1>3 DEF LoopInv, ReportedInv, NothingLeftBehind
<1> QED
  BY <1>4, <1>5, <1>6 DEF LoopInv

LEMMA LoopOfDiscard == TypeInv /\ LoopInv /\ Discard => LoopInv'
<1> SUFFICES ASSUME TypeInv, LoopInv, Discard
             PROVE  LoopInv'
  OBVIOUS
<1>1. /\ pc \in {"idle", "callback"} /\ dead' = TRUE
      /\ pc' \in {"aborted", "freed", "closing", "leaked"}
      /\ UNCHANGED <<items, spliced, have, inCallback, touched, mi, active, clear, reported, littered>>
  BY DEF Discard, mapVars
<1>2. clear => pc' = IF pc = "callback" THEN "closing" ELSE "freed"
  BY <1>1 DEF Discard, LoopInv, PhaseInv
<1>3. PhaseInv' /\ NoAbort'
  BY <1>1, <1>2 DEF LoopInv, PhaseInv, NoAbort
<1>4. CountInv' /\ AheadInv' /\ NothingLeftBehind' /\ NeverAstray'
  BY <1>1 DEF CountInv, AheadInv, NothingLeftBehind, NeverAstray
<1>5. ReportedInv'
  BY <1>1 DEF LoopInv, ReportedInv
<1> QED
  BY <1>3, <1>4, <1>5 DEF LoopInv

\* A loop that was clear is not in a callback between calls of monitor().
LEMMA LoopOfRecurse == LoopInv /\ Recurse => LoopInv'
<1> SUFFICES ASSUME LoopInv, Recurse
             PROVE  LoopInv'
  OBVIOUS
<1>1. /\ pc = "idle" /\ inCallback /\ pc' = "aborted"
      /\ UNCHANGED <<items, spliced, have, inCallback, dead, clear, reported, littered>>
  BY DEF Recurse, mapVars
<1>2. ~clear
  BY <1>1 DEF LoopInv, PhaseInv
<1> QED
  BY <1>1, <1>2 DEF LoopInv, PhaseInv, CountInv, AheadInv, ReportedInv, NoAbort, NothingLeftBehind,
     NeverAstray

\* What select() reports is for registered sockets, and something is.
LEMMA SomethingReported ==
  ASSUME WatchedAsAsked, NEW rdy \in SelectResults
  PROVE  \E s \in items : rdy[s] # {}
<1> DEFINE watched == {w \in Keys \X SkEvent : w[1] < nfds /\ w[1] \in fds[w[2]]}
<1>1. PICK raised \in (SUBSET watched) \ {{}} :
        rdy = [s \in Keys |-> {e \in SkEvent : <<s, e>> \in raised}]
  BY DEF SelectResults
<1>2. PICK w \in raised : TRUE
  BY <1>1
<1>3. PICK s \in Keys, e \in SkEvent : w = <<s, e>>
  BY <1>1, <1>2
<1>4. s \in fds[e] /\ e \in rdy[s]
  BY <1>1, <1>2, <1>3
<1>5. s \in items
  BY <1>4 DEF WatchedAsAsked, SkEvent
<1> QED
  BY <1>4, <1>5

LEMMA LoopOfSelect == TypeInv /\ WalkInv /\ WalksWell /\ WatchedAsAsked /\ LoopInv /\ Select => LoopInv'
<1> SUFFICES ASSUME TypeInv, WalkInv, WalksWell, WatchedAsAsked, LoopInv, Select
             PROVE  LoopInv'
  OBVIOUS
<1> DEFINE seen == Visited(-1) \ {Null}
<1>1. PICK rdy \in SelectResults :
        /\ reported' = rdy
        /\ have' = [s \in Keys |-> IF s \in seen THEN rdy[s] ELSE have[s]]
        /\ active' = Cardinality({s \in seen : rdy[s] \cap SkEvent # {}})
  BY DEF Select, Collect
<1>2. /\ pc' = IF ~Ends(-1) THEN "astray" ELSE IF active' = 0 THEN "aborted" ELSE "dispatch"
      /\ pc = "idle" /\ ~inCallback /\ touched' = FALSE /\ mi' = Null /\ littered' = {}
      /\ items' = items /\ spliced' = spliced
      /\ UNCHANGED <<inCallback, dead, clear>>
  BY DEF Select, Collect, mapVars
<1>3. pc' # "idle" /\ pc' # "callback"
  BY <1>2
<1>4. PhaseInv'
  BY <1>2 DEF LoopInv, PhaseInv
<1>5. CASE spliced
  BY <1>2, <1>3, <1>4, <1>5
  DEF LoopInv, CountInv, AheadInv, ReportedInv, NoAbort, NothingLeftBehind, NeverAstray
<1>6. CASE ~spliced
  <2>1. Ends(-1) /\ seen = items
    BY <1>6 DEF WalksWell
  <2>2. items \subseteq Keys /\ \A s \in items : s \in Nat \ {Null}
    BY ItemFacts
  <2>3. \A s \in items : have'[s] = rdy[s] /\ rdy[s] \cap SkEvent = rdy[s]
    BY <1>1, <2>1, <2>2, ResultType
  <2> DEFINE D == {s \in items : rdy[s] # {}}
  <2>4. {s \in seen : rdy[s] \cap SkEvent # {}} = D
    BY <2>1, <2>3
  <2> HIDE DEF seen
  <2>5. Undispatched' = D /\ active' = Cardinality(D)
    BY <1>1, <1>2, <2>3, <2>4 DEF Undispatched
  <2>6. D # {} /\ D \in SUBSET Keys
    BY <2>2, SomethingReported
  <2> HIDE DEF D
  <2>7. active' \in Nat /\ active' # 0
    BY <2>5, <2>6, SocketsFinite, FS_EmptySet DEF TypeInv
  <2>8. pc' = "dispatch"
    BY <1>2, <2>1, <2>7
  <2>9. CountInv'
    BY <1>3, <2>5, <2>7 DEF CountInv
  <2>10. AheadInv'
    <3>1. Undispatched' \in SUBSET items
      BY <1>2 DEF Undispatched
    <3> QED
      BY <1>2, <2>2, <3>1 DEF AheadInv, Null
  <2>11. NoAbort' /\ NothingLeftBehind' /\ NeverAstray'
    BY <2>8 DEF NoAbort, NothingLeftBehind, NeverAstray
  <2>12. ReportedInv'
    BY <1>1, <1>2, <2>3 DEF ReportedInv
  <2> QED
    BY <1>4, <2>9, <2>10, <2>11, <2>12 DEF LoopInv
<1> QED
  BY <1>5, <1>6

\* Where the walk goes on from a socket that is still there: to the next one,
\* and all that is undispatched is ahead.
LEMMA WalkGoesOn ==
  ASSUME TypeInv, WalkInv, WalksWell, LoopInv, WalkOn, ~spliced
  PROVE  /\ mi' = Null => Undispatched = {}
         /\ mi' # Null => mi' \in items /\ \A s \in Undispatched : mi' <= s
<1>1. items \in SUBSET Nat /\ Null \notin items
  BY ItemFacts
<1>2. mi \in items \cup {Null} /\ \A s \in Undispatched : s > mi
  BY DEF WalkOn, LoopInv, AheadInv
<1> DEFINE A == {j \in items : mi < j}
<1>3. mi' = Least(A)
  BY <1>2 DEF WalkOn, WalksWell
<1>4. Undispatched \in SUBSET A
  BY <1>1, <1>2 DEF Undispatched, Null
<1>5. A \in SUBSET items /\ A \in SUBSET Nat
  BY <1>1
<1> HIDE DEF A
<1>6. CASE A = {}
  BY <1>3, <1>4, <1>6 DEF Least
<1>7. CASE A # {}
  <2>1. PICK m \in A : \A n \in A : m <= n
    BY <1>5, <1>7, LeastExists
  <2>2. mi' = m
    BY <1>3, <1>5, <2>1, LeastIs
  <2> QED
    BY <1>1, <1>4, <1>5, <2>1, <2>2
<1> QED
  BY <1>6, <1>7

LEMMA LoopOfPassOver == TypeInv /\ WalkInv /\ WalksWell /\ LoopInv /\ PassOver => LoopInv'
<1> SUFFICES ASSUME TypeInv, WalkInv, WalksWell, LoopInv, PassOver
             PROVE  LoopInv'
  OBVIOUS
<1>1. /\ WalkOn /\ mi' # Null /\ have[mi'] = {} /\ pc = "dispatch"
      /\ UNCHANGED <<items, spliced, have, pc, inCallback, dead, touched, active, clear, reported,
                     littered>>
  BY DEF PassOver, WalkOn, mapVars
<1>2. Undispatched' = Undispatched
  BY <1>1 DEF Undispatched
<1>3. AheadInv'
  <2>1. SUFFICES ASSUME ~spliced
                 PROVE  mi' \in items /\ \A s \in Undispatched : s > mi'
    BY <1>1, <1>2 DEF AheadInv, LoopInv
  <2>2. mi' \in items /\ \A s \in Undispatched : mi' <= s
    BY <1>1, <2>1, WalkGoesOn
  <2>3. mi' \notin Undispatched /\ Undispatched \in SUBSET items /\ items \in SUBSET Nat
    BY <1>1, ItemFacts DEF Undispatched
  <2> QED
    BY <2>2, <2>3
<1>4. PhaseInv' /\ CountInv' /\ ReportedInv' /\ NoAbort' /\ NothingLeftBehind' /\ NeverAstray'
  BY <1>1, <1>2 DEF LoopInv, PhaseInv, CountInv, ReportedInv, NoAbort, NothingLeftBehind, NeverAstray
<1> QED
  BY <1>3, <1>4 DEF LoopInv

LEMMA LoopOfDispatch == TypeInv /\ WalkInv /\ WalksWell /\ LoopInv /\ Dispatch => LoopInv'
<1> SUFFICES ASSUME TypeInv, WalkInv, WalksWell, LoopInv, Dispatch
             PROVE  LoopInv'
  OBVIOUS
<1>1. /\ WalkOn /\ mi' # Null /\ have[mi'] # {} /\ pc = "dispatch" /\ pc' = "callback"
      /\ inCallback' = TRUE
      /\ have' = [have EXCEPT ![mi'] = {}] /\ reported' = [reported EXCEPT ![mi'] = {}]
      /\ UNCHANGED <<items, spliced, dead, touched, active, clear, littered>>
  BY DEF Dispatch, WalkOn, mapVars
<1>2. PhaseInv' /\ NoAbort' /\ NothingLeftBehind' /\ NeverAstray'
  BY <1>1 DEF PhaseInv, NoAbort, NothingLeftBehind, NeverAstray, LoopInv
<1>3. CASE spliced
  BY <1>1, <1>2, <1>3 DEF LoopInv, CountInv, AheadInv, ReportedInv
<1>4. CASE ~spliced
  <2>1. mi' \in items /\ \A s \in Undispatched : mi' <= s
    BY <1>1, <1>4, WalkGoesOn
  <2>2. items \in SUBSET Nat /\ items \subseteq Keys
    BY ItemFacts
  <2>3. /\ have'[mi'] = {} /\ \A t \in items : t # mi' => have'[t] = have[t]
        /\ \A t \in items : t # mi' => reported'[t] = reported[t]
    BY <1>1, <2>1, <2>2 DEF TypeInv, TypeOK
  <2>4. Undispatched' = Undispatched \ {mi'} /\ mi' \in Undispatched
    BY <1>1, <2>1, <2>3 DEF Undispatched
  <2>5. CountInv'
    <3>1. Undispatched \in SUBSET Keys
      BY <2>2 DEF Undispatched
    <3>2. IsFiniteSet(Undispatched) /\ Cardinality(Undispatched) \in Nat
      BY <3>1, SocketsFinite DEF TypeInv
    <3>3. Cardinality(Undispatched') = Cardinality(Undispatched) - 1
      BY <2>4, <3>2, FS_RemoveElement
    <3>4. littered = {} => active >= Cardinality(Undispatched)
      BY <1>1, <1>4 DEF LoopInv, CountInv
    <3>5. active \in Nat
      BY DEF TypeInv, TypeOK
    <3>6. littered = {} => active > Cardinality(Undispatched')
      BY <3>2, <3>3, <3>4, <3>5
    <3> QED
      BY <1>1, <3>6 DEF CountInv
  <2>6. AheadInv'
    <3>1. Undispatched \in SUBSET Nat /\ mi' \in Nat
      BY <2>1, <2>2 DEF Undispatched
    <3>2. \A s \in Undispatched' : s > mi'
      BY <2>1, <2>4, <3>1
    <3> QED
      BY <1>1, <2>1, <3>2 DEF AheadInv
  <2>7. ReportedInv'
    BY <1>1, <1>4, <2>3 DEF LoopInv, ReportedInv
  <2> QED
    BY <1>2, <2>5, <2>6, <2>7 DEF LoopInv
<1> QED
  BY <1>3, <1>4

\* When the walk ends, all is dispatched.
LEMMA NothingUndispatched ==
  ASSUME Undispatched = {}
  PROVE  \A s \in items : have[s] = {}
BY DEF Undispatched

LEMMA LoopOfWalkEnds == TypeInv /\ WalkInv /\ WalksWell /\ LoopInv /\ WalkEnds => LoopInv'
<1> SUFFICES ASSUME TypeInv, WalkInv, WalksWell, LoopInv, WalkEnds
             PROVE  LoopInv'
  OBVIOUS
<1>1. /\ WalkOn /\ mi' = Null /\ pc = "dispatch" /\ pc' = "idle"
      /\ UNCHANGED <<items, spliced, have, inCallback, dead, clear, reported, littered>>
  BY DEF WalkEnds, WalkOn, mapVars
<1>2. NothingLeftBehind'
  <2>1. ~spliced => \A s \in items : have[s] = {}
    BY <1>1, WalkGoesOn, NothingUndispatched
  <2> QED
    BY <1>1, <2>1 DEF NothingLeftBehind
<1>3. PhaseInv' /\ CountInv' /\ AheadInv' /\ ReportedInv' /\ NoAbort' /\ NeverAstray'
  BY <1>1 DEF LoopInv, PhaseInv, CountInv, AheadInv, ReportedInv, NoAbort, NeverAstray
<1> QED
  BY <1>2, <1>3 DEF LoopInv

\* The walk does not fail at a socket that is there.
LEMMA LoopOfGoAstray == WalksWell /\ LoopInv /\ GoAstray => LoopInv'
<1> SUFFICES ASSUME WalksWell, LoopInv, GoAstray
             PROVE  LoopInv'
  OBVIOUS
<1>1. /\ pc = "dispatch" /\ WalkFails(mi) /\ pc' = "astray"
      /\ UNCHANGED <<items, spliced, have, clear, reported, littered>>
  BY DEF GoAstray, mapVars
<1>2. spliced
  <2>1. mi # Null
    BY <1>1 DEF WalkFails
  <2> QED
    BY <1>1, <2>1 DEF WalksWell, LoopInv, AheadInv
<1> QED
  BY <1>1, <1>2
  DEF LoopInv, PhaseInv, CountInv, AheadInv, ReportedInv, NoAbort, NothingLeftBehind, NeverAstray

LEMMA LoopOfReturn == TypeInv /\ WalkInv /\ LoopInv /\ Return => LoopInv'
<1> SUFFICES ASSUME TypeInv, WalkInv, LoopInv, Return
             PROVE  LoopInv'
  OBVIOUS
<1>1. /\ UNCHANGED <<items, spliced, have, dead, clear, reported, littered>>
      /\ inCallback' = FALSE /\ pc \in {"callback", "closing"}
      /\ Undispatched' = Undispatched
  BY DEF Return, mapVars, Undispatched
<1>2. ReportedInv'
  BY <1>1 DEF ReportedInv, LoopInv
<1>3. CASE dead
  <2>1. pc' = "freed"
    BY <1>3 DEF Return
  <2> QED
    BY <1>1, <1>2, <1>3, <2>1
    DEF LoopInv, PhaseInv, CountInv, AheadInv, NoAbort, NothingLeftBehind, NeverAstray
<1>4. CASE ~dead
  <2>1. /\ pc = "callback" /\ active' = active - 1
        /\ pc' = IF active' = 0 THEN "idle" ELSE "dispatch"
    BY <1>1, <1>4 DEF Return, TypeInv
  <2>2. Undispatched \in SUBSET items /\ items \subseteq Keys /\ items \in SUBSET Nat
        /\ Null \notin items
    BY ItemFacts DEF Undispatched
  <2>3. IsFiniteSet(Undispatched) /\ Cardinality(Undispatched) \in Nat
    BY <2>2, SocketsFinite DEF TypeInv
  <2>4. littered = {} /\ ~spliced => active' >= Cardinality(Undispatched)
    BY <2>1, <2>3 DEF LoopInv, CountInv, TypeInv, TypeOK
  <2>5. littered = {} /\ ~spliced /\ active' = 0 => Undispatched = {}
    <3>1. littered = {} /\ ~spliced /\ active' = 0 => Cardinality(Undispatched) = 0
      BY <2>3, <2>4
    <3> QED
      BY <2>3, <3>1, FS_EmptySet
  <2>6. NothingLeftBehind'
    BY <1>1, <2>1, <2>5, NothingUndispatched DEF NothingLeftBehind
  <2>7. AheadInv'
    <3>1. CASE active' = 0
      BY <2>1, <3>1 DEF AheadInv
    <3>2. CASE active' # 0 /\ touched
      <4>1. touched' = FALSE /\ mi' = Null
        BY <1>4, <3>2 DEF Return
      <4>2. \A s \in Undispatched : s > Null
        BY <2>2 DEF Null
      <4> QED
        BY <1>1, <4>1, <4>2 DEF AheadInv
    <3>3. CASE active' # 0 /\ ~touched
      <4>1. touched' = touched /\ mi' = mi
        BY <3>3 DEF Return
      <4> QED
        BY <1>1, <2>1, <3>3, <4>1 DEF AheadInv, LoopInv
    <3> QED
      BY <3>1, <3>2, <3>3
  <2>8. CountInv' /\ PhaseInv' /\ NoAbort' /\ NeverAstray'
    BY <1>1, <1>4, <2>1, <2>4 DEF CountInv, PhaseInv, NoAbort, NeverAstray, LoopInv
  <2> QED
    BY <1>2, <2>6, <2>7, <2>8 DEF LoopInv
<1> QED
  BY <1>3, <1>4

LEMMA LoopInductive ==
  TypeInv /\ WalkInv /\ WalksWell /\ WalksWell' /\ WatchedAsAsked /\ LoopInv /\ [Next]_vars => LoopInv'
<1> SUFFICES ASSUME TypeInv, WalkInv, WalksWell, WalksWell', WatchedAsAsked, LoopInv, [Next]_vars
             PROVE  LoopInv'
  OBVIOUS
<1>1. CASE UNCHANGED vars
  BY <1>1 DEF vars, mapVars, loopVars, LoopInv, PhaseInv, CountInv, AheadInv, ReportedInv, NoAbort,
     NothingLeftBehind, NeverAstray, Undispatched
<1> QED
  BY <1>1, LoopOfAdd, LoopOfMod, LoopOfDel, LoopOfDiscard, LoopOfRecurse, LoopOfSelect,
     LoopOfPassOver, LoopOfDispatch, LoopOfWalkEnds, LoopOfGoAstray, LoopOfReturn
  DEF Next, Monitor, Dispatching

\* The flags of the loop, its count, the position of the walk and the events
\* not yet dispatched agree in every state, whatever the heap holds, as far
\* as their conditions on the flags, the garbage and the map say.
THEOREM InvariantHolds == Spec => []LoopInv
<1>1. Init => LoopInv
  BY LoopInitially
<1>2. TypeInv /\ WalkInv /\ WalksWell /\ WalksWell' /\ WatchedAsAsked /\ LoopInv /\ [Next]_vars
        => LoopInv'
  BY LoopInductive
<1> QED
  BY <1>1, <1>2, TypesHold, MapIsSound, SocketsAreWatched, PTL DEF Spec

\* No assert() of the loop fires before the map is damaged, if the two flags
\* that new_event_loop_select() does not set happen to be zero.
THEOREM NoAssertFails == Spec => []NoAbort
<1>1. LoopInv => NoAbort
  BY DEF LoopInv
<1> QED
  BY <1>1, InvariantHolds, PTL

\* When monitor() returns, every event it was told of is dispatched, unless
\* the map is damaged or a socket was added with garbage for its events.
THEOREM NoEventIsLeft == Spec => []NothingLeftBehind
<1>1. LoopInv => NothingLeftBehind
  BY DEF LoopInv
<1> QED
  BY <1>1, InvariantHolds, PTL

\* Before a socket with two children is removed, no walk of the loop reads a
\* record that was freed, or goes on for ever, also not one that is under way
\* while callbacks add and remove sockets.
THEOREM NoWalkGoesAstray == Spec => []NeverAstray
<1>1. LoopInv => NeverAstray
  BY DEF LoopInv
<1> QED
  BY <1>1, InvariantHolds, PTL

\* What a socket is called back with was reported for it, unless it was added
\* in this round with garbage for its events, or the map is damaged.
THEOREM OnlyReportedIsDispatched == Spec => OnlyReported
<1> DEFINE Fits == mi' \in items /\ (mi' \notin littered => have[mi'] \subseteq reported[mi'])
<1>1. TypeInv /\ WalkInv /\ WalksWell /\ LoopInv /\ [Next]_vars =>
        [~spliced /\ pc = "dispatch" /\ pc' = "callback" => Fits]_vars
  <2> SUFFICES ASSUME TypeInv, WalkInv, WalksWell, LoopInv, [Next]_vars,
                      ~spliced, pc = "dispatch", pc' = "callback"
               PROVE  Fits
    OBVIOUS
  <2>1. Dispatch
    <3>1. \A s \in Keys, ev \in Masks : ~AddSocket(s, ev) /\ ~ModSocket(s, ev)
      BY DEF AddSocket, Register, ModSocket, Callable
    <3>2. \A s \in Keys : ~DelSocket(s)
      BY DEF DelSocket, Unregister, Callable
    <3>3. ~Discard /\ ~Recurse /\ ~Select /\ ~PassOver /\ ~WalkEnds /\ ~GoAstray /\ ~Return
      BY DEF Discard, Recurse, Select, Collect, PassOver, WalkEnds, GoAstray, Return
    <3>4. ~UNCHANGED vars
      BY DEF vars, loopVars
    <3> QED
      BY <3>1, <3>2, <3>3, <3>4 DEF Next, Monitor, Dispatching
  <2>2. mi' \in items
    BY <2>1, WalkGoesOn DEF Dispatch
  <2> QED
    BY <2>2 DEF LoopInv, ReportedInv
<1> QED
  BY <1>1, InvariantHolds, TypesHold, MapIsSound, PTL DEF Spec, OnlyReported

=============================================================================
