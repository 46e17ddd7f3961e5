------------------------------- MODULE PtrMap -------------------------------
(***************************************************************************)
(* data/src/map.c: the unbalanced binary tree in which the event loop      *)
(* keeps its sockets.  map_add() and map_del() weave caller-owned items    *)
(* together by three pointers each; map_find() follows l and r, map_walk() *)
(* also needs p.                                                           *)
(*                                                                         *)
(* An item is named by its key, which is all that head->comp() looks at.   *)
(***************************************************************************)
EXTENDS Integers, FiniteSets

CONSTANTS Keys

Null == 0  \* the null pointer

ASSUME KeysAssumption == Keys \subseteq Nat \ {Null} /\ IsFiniteSet(Keys)

VARIABLES
  root, l, r, p,  \* map_head.root, map_item.l, .r and .p
  items,          \* history: the items added and not removed
  spliced         \* history: an item with two children was removed

mapVars == <<root, l, r, p, items, spliced>>

Pointer == Keys \cup {Null}

\* A map_item ** : the root pointer, or the l or r of an item.
Slot == [dir : {"root", "l", "r"}, of : Pointer]

MapInit ==
  /\ root = Null
  /\ l = [k \in Keys |-> Null] /\ r = [k \in Keys |-> Null] /\ p = [k \in Keys |-> Null]
  /\ items = {}
  /\ spliced = FALSE

-----------------------------------------------------------------------------
\* *slot
At(slot) ==
  CASE slot.dir = "root" -> root
    [] slot.dir = "l" -> l[slot.of]
    [] slot.dir = "r" -> r[slot.of]

\* _map_find(): where the item with this key is, or where it would go.
Find(key) ==
  LET down[n \in 0..Cardinality(Keys)] ==
        IF n = 0 THEN [dir |-> "root", of |-> Null]
        ELSE LET s == down[n - 1]
                 q == At(s)
             IN IF q \in {Null, key} THEN s
                ELSE [dir |-> IF key < q THEN "l" ELSE "r", of |-> q]
  IN down[Cardinality(Keys)]

Found(key) == At(Find(key)) = key

\* The end of a chain of l or r pointers.
End(child, k) ==
  LET down[n \in 0..Cardinality(Keys)] ==
        IF n = 0 THEN k
        ELSE LET c == down[n - 1] IN IF child[c] = Null THEN c ELSE child[c]
  IN down[Cardinality(Keys)]

Leftmost(k) == End(l, k)
Rightmost(k) == End(r, k)

\* *slot = v, after lf and rf were written
Store(slot, v, lf, rf) ==
  /\ root' = IF slot.dir = "root" THEN v ELSE root
  /\ l' = IF slot.dir = "l" THEN [lf EXCEPT ![slot.of] = v] ELSE lf
  /\ r' = IF slot.dir = "r" THEN [rf EXCEPT ![slot.of] = v] ELSE rf

\* map_add() of an item that is not on the map
Add(k) ==
  /\ At(Find(k)) = Null
  /\ Store(Find(k), k, [l EXCEPT ![k] = Null], [r EXCEPT ![k] = Null])
  /\ p' = [p EXCEPT ![k] = Find(k).of]
  /\ items' = items \cup {k}
  /\ UNCHANGED spliced

\* Mutant: the right subtree of the removed item is left hanging.
DelTwoUnhooked(k) ==
  /\ Store(Find(k), l[k], [l EXCEPT ![k] = Null], [r EXCEPT ![k] = Null])
  /\ p' = [p EXCEPT ![l[k]] = p[k], ![k] = Null]

\* Both children: the right one goes below the greatest item of the left one.
\* The code writes that parent into the removed item (item->p = q), and then
\* copies it from there.
DelTwo(k) ==
  LET q == Rightmost(l[k])
  IN /\ Store(Find(k), l[k], [l EXCEPT ![k] = Null], [r EXCEPT ![q] = r[k], ![k] = Null])
     /\ p' = [p EXCEPT ![l[k]] = q, ![k] = Null]

\* Mutant: the child that takes the place of its parent keeps its own.
DelOneStale(k, child) ==
  /\ Store(Find(k), child, [l EXCEPT ![k] = Null], [r EXCEPT ![k] = Null])
  /\ p' = [p EXCEPT ![k] = Null]

DelOne(k, child) ==
  /\ Store(Find(k), child, [l EXCEPT ![k] = Null], [r EXCEPT ![k] = Null])
  /\ p' = [p EXCEPT ![child] = p[k], ![k] = Null]

DelLeaf(k) ==
  /\ Store(Find(k), Null, l, r)
  /\ p' = [p EXCEPT ![k] = Null]

\* map_del()
Del(k) ==
  /\ Found(k)
  /\ CASE l[k] # Null /\ r[k] # Null -> DelTwo(k)
       [] l[k] # Null /\ r[k] = Null -> DelOne(k, l[k])
       [] l[k] = Null /\ r[k] # Null -> DelOne(k, r[k])
       [] OTHER -> DelLeaf(k)
  /\ items' = items \ {k}
  /\ spliced' = (spliced \/ (l[k] # Null /\ r[k] # Null))

MapNext == \E k \in Keys : Add(k) \/ Del(k)

MapSpec == MapInit /\ [][MapNext]_mapVars

-----------------------------------------------------------------------------
\* The climb of map_walk() from an item without right child: up to the first
\* ancestor entered from the left.  A climb longer than the tree never ends.
Climb(k) ==
  LET up[n \in 0..Cardinality(Keys)] ==
        IF n = 0 THEN [now |-> k, done |-> FALSE]
        ELSE LET c == up[n - 1] IN
             IF c.done \/ p[c.now] = Null \/ l[p[c.now]] = c.now
               THEN [now |-> c.now, done |-> TRUE]
               ELSE [now |-> p[c.now], done |-> FALSE]
      top == up[Cardinality(Keys)]
  IN IF top.done THEN p[top.now] ELSE top.now

\* map_walk()
Walk(now) ==
  CASE now = Null -> IF root = Null THEN Null ELSE Leftmost(root)
    [] now # Null /\ r[now] # Null -> Leftmost(r[now])
    [] now # Null /\ r[now] = Null -> Climb(now)

Least(S) == IF S = {} THEN Null ELSE CHOOSE k \in S : \A j \in S : k <= j

-----------------------------------------------------------------------------
\* map_find() finds exactly the items that were added and not removed,
\* through every sequence of additions and removals.
FindIsExact == \A k \in Keys : Found(k) <=> k \in items

\* "walk() is an iterator, start the walk with NULL" (map.h): it leads from
\* each item to the next one in the order of the keys, and then ends; and it
\* never looks at an item that was removed, which its owner may have freed.
WalkIsOrdered ==
  /\ \A k \in items \cup {Null} : Walk(k) = Least({j \in items : k < j})
  /\ \A k \in items : p[k] \in items \cup {Null}

\* So it does as long as no item with two children was ever removed, which
\* needs three items: the two programs keep two.
WalkIsOrderedUntilSpliced == ~spliced => WalkIsOrdered

=============================================================================
