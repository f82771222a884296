------------------------ MODULE CategoryCountsProofs ------------------------
(***************************************************************************)
(* The counts of a category are exact for any number of categories and     *)
(* links.                                                                  *)
(*                                                                         *)
(* The direct ones are exact for any depth of the tree and any depth_max:  *)
(* each walk starts at the category whose direct count changes, wherever   *)
(* it is cut.  The subtree counts are exact while no category is below     *)
(* level depth_max, and a recount always makes them so.                    *)
(*                                                                         *)
(* The argument for the subtrees needs no walk.  Above(up, c) is the least *)
(* set that has c and, with a category, its parent; what a create, a move  *)
(* and a delete do to it is set theory.  A walk of enough levels is Above  *)
(* (ShortChain), and the sum a recount makes over the children is the size *)
(* of the subtree (AggregateIsSizes): both by induction on a number.       *)
(***************************************************************************)
EXTENDS CategoryCounts, FiniteSetTheorems, WellFoundedInduction, TLAPS

(* What keeps the direct counts exact: a finite forest whose parents and   *)
(* homes exist, ids that were issued, and a record for each category.      *)
Forest ==
    /\ nextCat \in 1 .. MaxCategory + 1 /\ nextLink \in 1 .. MaxLink + 1
    /\ Cats \subseteq 1 .. nextCat - 1 /\ Links \subseteq 1 .. nextLink - 1
    /\ parent \in [Cats -> Cats \cup {Root}]
    /\ home \in [Links -> Cats \cup {Root}]

IInv == Forest /\ DOMAIN counts = Cats /\ DirectCountsExact

-----------------------------------------------------------------------------
(* How many arguments a function maps to v.                                *)
Preimage(f, v) == {x \in DOMAIN f : f[x] = v}
Count(f, v) == Cardinality(Preimage(f, v))

(* 1 if the two are the same, else 0.                                      *)
Same(v, w) == IF v = w THEN 1 ELSE 0

(* A count of a finite function is a number.                               *)
LEMMA CountType ==
    ASSUME NEW f, IsFiniteSet(DOMAIN f), NEW v
    PROVE  Count(f, v) \in Nat /\ IsFiniteSet(Preimage(f, v))
<1>1. Preimage(f, v) \subseteq DOMAIN f
  BY DEF Preimage
<1> QED
  BY <1>1, FS_Subset, FS_CardinalityType DEF Count

(* A new argument is counted under its value.                              *)
LEMMA CountAdded ==
    ASSUME NEW f, IsFiniteSet(DOMAIN f), NEW k, k \notin DOMAIN f, NEW v, NEW w
    PROVE  Count(With(f, k, w), v) = Count(f, v) + Same(v, w)
<1>1. CASE v = w
  <2>1. Preimage(With(f, k, w), v) = Preimage(f, v) \cup {k}
    BY <1>1 DEF Preimage, With
  <2>2. k \notin Preimage(f, v)
    BY DEF Preimage
  <2> QED
    BY <1>1, <2>1, <2>2, CountType, FS_AddElement DEF Count, Same
<1>2. CASE v # w
  <2>1. Preimage(With(f, k, w), v) = Preimage(f, v)
    BY <1>2 DEF Preimage, With
  <2> QED
    BY <1>2, <2>1, CountType DEF Count, Same
<1> QED BY <1>1, <1>2

(* An argument that goes is no longer counted under its value.             *)
LEMMA CountRemoved ==
    ASSUME NEW f, IsFiniteSet(DOMAIN f), NEW k \in DOMAIN f, NEW v
    PROVE  Count(Without(f, k), v) = Count(f, v) - Same(v, f[k])
<1>1. CASE v = f[k]
  <2>1. Preimage(Without(f, k), v) = Preimage(f, v) \ {k}
    BY <1>1 DEF Preimage, Without
  <2>2. k \in Preimage(f, v)
    BY <1>1 DEF Preimage
  <2> QED
    BY <1>1, <2>1, <2>2, CountType, FS_RemoveElement DEF Count, Same
<1>2. CASE v # f[k]
  <2>1. Preimage(Without(f, k), v) = Preimage(f, v)
    BY <1>2 DEF Preimage, Without
  <2> QED
    BY <1>2, <2>1, CountType DEF Count, Same
<1> QED BY <1>1, <1>2

(* An argument that gets another value moves from one count to the other.  *)
LEMMA CountMoved ==
    ASSUME NEW f, IsFiniteSet(DOMAIN f), NEW k \in DOMAIN f, NEW v, NEW w, w # f[k]
    PROVE  Count(With(f, k, w), v) = Count(f, v) - Same(v, f[k]) + Same(v, w)
<1> DEFINE g == Without(f, k)
<1>1. DOMAIN g = DOMAIN f \ {k} /\ IsFiniteSet(DOMAIN g) /\ k \notin DOMAIN g
  BY FS_Subset DEF Without
<1>2. With(f, k, w) = With(g, k, w)
  BY <1>1 DEF With, Without
<1>3. Count(With(g, k, w), v) = Count(g, v) + Same(v, w)
  <2> HIDE DEF g
  <2> QED BY <1>1, CountAdded
<1>4. Count(g, v) = Count(f, v) - Same(v, f[k])
  BY CountRemoved
<1> QED BY <1>2, <1>3, <1>4

(* What an argument is counted under is at least one.                      *)
LEMMA CountPositive ==
    ASSUME NEW f, IsFiniteSet(DOMAIN f), NEW k \in DOMAIN f
    PROVE  Count(f, f[k]) >= 1
<1>1. Count(Without(f, k), f[k]) = Count(f, f[k]) - 1
  BY CountRemoved DEF Same
<1>2. IsFiniteSet(DOMAIN Without(f, k))
  BY FS_Subset DEF Without
<1> QED
  BY <1>1, <1>2, CountType

(* What nothing is mapped to has the count zero.                           *)
LEMMA CountNone ==
    ASSUME NEW f, NEW v, \A x \in DOMAIN f : f[x] # v
    PROVE  Count(f, v) = 0
<1>1. Preimage(f, v) = {}
  BY DEF Preimage
<1> QED BY <1>1, FS_EmptySet DEF Count

-----------------------------------------------------------------------------
(* The direct columns of a cascade: only the target's change, by direct.   *)

DirectTypes(cs) == \A c \in DOMAIN cs : cs[c].links \in Nat /\ cs[c].children \in Nat

(* Direct counts keep their type, and only those of the target change. *)
LEMMA CascadeDirect ==
    ASSUME NEW cs, DirectTypes(cs), NEW ancestors, NEW target, NEW dLinks, NEW dChildren,
           NEW direct \in [links : {-1, 0, 1}, children : {-1, 0, 1}],
           target \in ancestors \/ target \notin DOMAIN cs
    PROVE  LET new == Cascade(cs, ancestors, target, dLinks, dChildren, direct)
           IN  /\ DOMAIN new = DOMAIN cs
               /\ DirectTypes(new)
               /\ \A c \in DOMAIN cs :
                     /\ new[c].links = IF c = target THEN AddDelta(cs[c].links, direct.links)
                                       ELSE cs[c].links
                     /\ new[c].children = IF c = target THEN AddDelta(cs[c].children, direct.children)
                                          ELSE cs[c].children
<1> DEFINE new == Cascade(cs, ancestors, target, dLinks, dChildren, direct)
<1>1. DOMAIN new = DOMAIN cs
  BY DEF Cascade
<1>2. ASSUME NEW c \in DOMAIN cs
      PROVE  /\ new[c].links = IF c = target THEN AddDelta(cs[c].links, direct.links)
                               ELSE cs[c].links
             /\ new[c].children = IF c = target THEN AddDelta(cs[c].children, direct.children)
                                  ELSE cs[c].children
             /\ new[c].links \in Nat /\ new[c].children \in Nat
  <2>1. cs[c].links \in Nat /\ cs[c].children \in Nat
    BY DEF DirectTypes
  <2>2. direct.links \in {-1, 0, 1} /\ direct.children \in {-1, 0, 1}
    OBVIOUS
  <2>3. CASE c \notin ancestors
    <3>1. new[c] = cs[c] /\ c # target
      BY <2>3 DEF Cascade
    <3> QED BY <2>1, <3>1
  <2>4. CASE c \in ancestors
    <3>1. /\ new[c].links = AddDelta(cs[c].links, IF c = target THEN direct.links ELSE 0)
          /\ new[c].children = AddDelta(cs[c].children, IF c = target THEN direct.children ELSE 0)
      BY <2>4 DEF Cascade
    <3> HIDE DEF new
    <3> QED BY <2>1, <2>2, <3>1 DEF AddDelta
  <2> QED BY <2>3, <2>4
<1> QED BY <1>1, <1>2 DEF DirectTypes

(* A child that comes or goes changes the direct columns of its parent     *)
(* only; one that goes was counted, so that the floor is not reached.      *)
LEMMA ChildCascade ==
    ASSUME NEW cs, DirectTypes(cs), NEW ancestors, NEW target, NEW dLinks, NEW dChildren,
           NEW by \in {-1, 1}, target \in ancestors \/ target \notin DOMAIN cs,
           by = -1 /\ target \in DOMAIN cs => cs[target].children >= 1
    PROVE  LET new == Cascade(cs, ancestors, target, dLinks, dChildren, Child(by))
           IN  /\ DOMAIN new = DOMAIN cs
               /\ DirectTypes(new)
               /\ \A c \in DOMAIN cs :
                     /\ new[c].links = cs[c].links
                     /\ new[c].children = cs[c].children + (IF c = target THEN by ELSE 0)
<1> DEFINE new == Cascade(cs, ancestors, target, dLinks, dChildren, Child(by))
<1>1. Child(by) \in [links : {-1, 0, 1}, children : {-1, 0, 1}]
      /\ Child(by).links = 0 /\ Child(by).children = by
  BY DEF Child
<1>2. /\ DOMAIN new = DOMAIN cs
      /\ DirectTypes(new)
      /\ \A c \in DOMAIN cs :
            /\ new[c].links = IF c = target THEN AddDelta(cs[c].links, Child(by).links)
                              ELSE cs[c].links
            /\ new[c].children = IF c = target THEN AddDelta(cs[c].children, Child(by).children)
                                 ELSE cs[c].children
  BY <1>1, CascadeDirect
<1>3. ASSUME NEW c \in DOMAIN cs
      PROVE  /\ new[c].links = cs[c].links
             /\ new[c].children = cs[c].children + (IF c = target THEN by ELSE 0)
  <2> HIDE DEF new
  <2>1. cs[c].links \in Nat /\ cs[c].children \in Nat
    BY DEF DirectTypes
  <2> QED BY <1>1, <1>2, <2>1 DEF AddDelta
<1> QED BY <1>2, <1>3

(* The same of a link that comes or goes.                                  *)
LEMMA LinkCascade ==
    ASSUME NEW cs, DirectTypes(cs), NEW ancestors, NEW target, NEW dLinks, NEW dChildren,
           NEW by \in {-1, 1}, target \in ancestors \/ target \notin DOMAIN cs,
           by = -1 /\ target \in DOMAIN cs => cs[target].links >= 1
    PROVE  LET new == Cascade(cs, ancestors, target, dLinks, dChildren, Link(by))
           IN  /\ DOMAIN new = DOMAIN cs
               /\ DirectTypes(new)
               /\ \A c \in DOMAIN cs :
                     /\ new[c].children = cs[c].children
                     /\ new[c].links = cs[c].links + (IF c = target THEN by ELSE 0)
<1> DEFINE new == Cascade(cs, ancestors, target, dLinks, dChildren, Link(by))
<1>1. Link(by) \in [links : {-1, 0, 1}, children : {-1, 0, 1}]
      /\ Link(by).links = by /\ Link(by).children = 0
  BY DEF Link
<1>2. /\ DOMAIN new = DOMAIN cs
      /\ DirectTypes(new)
      /\ \A c \in DOMAIN cs :
            /\ new[c].links = IF c = target THEN AddDelta(cs[c].links, Link(by).links)
                              ELSE cs[c].links
            /\ new[c].children = IF c = target THEN AddDelta(cs[c].children, Link(by).children)
                                 ELSE cs[c].children
  BY <1>1, CascadeDirect
<1>3. ASSUME NEW c \in DOMAIN cs
      PROVE  /\ new[c].children = cs[c].children
             /\ new[c].links = cs[c].links + (IF c = target THEN by ELSE 0)
  <2> HIDE DEF new
  <2>1. cs[c].links \in Nat /\ cs[c].children \in Nat
    BY DEF DirectTypes
  <2> QED BY <1>1, <1>2, <2>1 DEF AddDelta
<1> QED BY <1>2, <1>3

(* The walk starts at the category it is given.                            *)
LEMMA WalkStarts ==
    ASSUME NEW id, id # Root
    PROVE  id \in Ancestors(id) /\ id \in Chain(parent, id, MaxCategory)
BY DEF Ancestors, Chain

-----------------------------------------------------------------------------
(* The direct counts a category should have, as a number.                  *)
LEMMA DirectIsCount ==
    ASSUME Forest, NEW id
    PROVE  /\ DirectLinks(id) = Count(home, id)
           /\ Cardinality(ChildrenOf(id)) = Count(parent, id)
BY DEF DirectLinks, ChildrenOf, Count, Preimage, Cats, Links

(* Categories and links are finite sets, and a new id is in none of them. *)
LEMMA Finite ==
    ASSUME Forest
    PROVE  /\ IsFiniteSet(Cats) /\ IsFiniteSet(Links)
           /\ Root \notin Cats /\ nextCat \notin Cats /\ nextLink \notin Links
           /\ nextCat # Root
<1>1. nextCat \in Nat /\ nextLink \in Nat
  BY CountsAssumption DEF Forest
<1>2. IsFiniteSet(1 .. nextCat - 1) /\ IsFiniteSet(1 .. nextLink - 1)
  BY <1>1, FS_Interval
<1>3. Cats \subseteq 1 .. nextCat - 1 /\ Links \subseteq 1 .. nextLink - 1
  BY DEF Forest
<1>4. IsFiniteSet(Cats) /\ IsFiniteSet(Links)
  BY <1>2, <1>3, FS_Subset
<1>5. Root \notin Cats /\ nextCat \notin Cats /\ nextLink \notin Links /\ nextCat # Root
  BY <1>1, <1>3, CountsAssumption DEF Root, Forest
<1> QED BY <1>4, <1>5

(* What the invariant says of a category: both direct counts, as numbers.  *)
LEMMA Opened ==
    ASSUME IInv
    PROVE  /\ DirectTypes(counts) /\ DOMAIN counts = Cats
           /\ \A id \in Cats : /\ counts[id].links = Count(home, id)
                               /\ counts[id].children = Count(parent, id)
           /\ \A id : Count(home, id) \in Nat /\ Count(parent, id) \in Nat
<1>1. \A id : Count(home, id) \in Nat /\ Count(parent, id) \in Nat
  BY Finite, CountType DEF IInv, Cats, Links
<1>2. \A id \in Cats : /\ counts[id].links = Count(home, id)
                      /\ counts[id].children = Count(parent, id)
  BY DirectIsCount DEF IInv, DirectCountsExact
<1> QED BY <1>1, <1>2 DEF DirectTypes, IInv

(* And what is to be shown of the next state.                              *)
LEMMA Closed ==
    ASSUME Forest', DOMAIN counts' = Cats',
           \A id \in Cats' : /\ counts'[id].links = Count(home', id)
                            /\ counts'[id].children = Count(parent', id)
    PROVE  IInv'
BY DEF IInv, DirectCountsExact, DirectLinks, ChildrenOf, Count, Preimage, Cats, Links

(* The target of a cascade is on its walk, or is no category.              *)
LEMMA TargetOnWalk ==
    ASSUME Forest, NEW id \in Cats \cup {Root}
    PROVE  id \in Ancestors(id) \/ id \notin Cats
BY WalkStarts, Finite

-----------------------------------------------------------------------------
(* A new category has no links and no children, and is one of its parent's. *)
LEMMA CreateCategoryStep == IInv /\ CreateCategory => IInv'
<1> SUFFICES ASSUME IInv, CreateCategory PROVE IInv'
  OBVIOUS
<1>0. Forest
  BY DEF IInv
<1>1. PICK under \in Cats \cup {Root} :
          /\ parent' = With(parent, nextCat, under)
          /\ counts' = With(Cascade(counts, Ancestors(under), under, 0, 1, Child(1)),
                            nextCat, Zero)
  BY DEF CreateCategory
<1> DEFINE mid == Cascade(counts, Ancestors(under), under, 0, 1, Child(1))
<1>2. /\ home' = home /\ nextLink' = nextLink
      /\ nextCat' = nextCat + 1 /\ nextCat <= MaxCategory /\ nextCat \in Nat
  BY <1>0, CountsAssumption DEF CreateCategory, Forest
<1>3. Cats' = Cats \cup {nextCat} /\ Links' = Links /\ nextCat \notin Cats
  BY <1>0, <1>1, <1>2, Finite DEF Cats, Links, With
<1>4. Forest'
  <2>1. nextCat' \in 1 .. MaxCategory + 1 /\ Cats' \subseteq 1 .. nextCat' - 1
    BY <1>0, <1>2, <1>3, CountsAssumption DEF Forest
  <2>2. parent' \in [Cats' -> Cats' \cup {Root}]
    BY <1>0, <1>1, <1>3 DEF Forest, With, Cats
  <2>3. home' \in [Links' -> Cats' \cup {Root}]
    BY <1>0, <1>2, <1>3 DEF Forest
  <2> QED BY <1>0, <1>2, <1>3, <2>1, <2>2, <2>3 DEF Forest
<1>5. /\ DOMAIN mid = Cats
      /\ \A c \in Cats :
            /\ mid[c].links = counts[c].links
            /\ mid[c].children = counts[c].children + Same(c, under)
  <2>1. under \in Ancestors(under) \/ under \notin DOMAIN counts
    BY <1>0, TargetOnWalk, Opened
  <2>2. /\ DOMAIN mid = DOMAIN counts
        /\ \A c \in DOMAIN counts :
              /\ mid[c].links = counts[c].links
              /\ mid[c].children = counts[c].children + (IF c = under THEN 1 ELSE 0)
    BY <2>1, Opened, ChildCascade
  <2> HIDE DEF mid
  <2> QED BY <2>2, Opened DEF Same
<1>6. DOMAIN counts' = Cats'
  BY <1>1, <1>3, <1>5 DEF With
<1>7. ASSUME NEW id \in Cats'
      PROVE  counts'[id].links = Count(home', id) /\ counts'[id].children = Count(parent', id)
  <2>1. Count(parent', id) = Count(parent, id) + Same(id, under)
    BY <1>0, <1>1, <1>3, Finite, CountAdded DEF Cats
  <2>2. CASE id = nextCat
    <3>1. counts'[id] = Zero
      BY <1>1, <1>3, <2>2 DEF With
    <3>2. Count(home, id) = 0 /\ Count(parent, id) = 0
      <4>1. \A x \in DOMAIN home : home[x] # id
        BY <1>0, <1>3, <2>2, Finite DEF Forest, Links
      <4>2. \A x \in DOMAIN parent : parent[x] # id
        BY <1>0, <1>3, <2>2, Finite DEF Forest, Cats
      <4> QED BY <4>1, <4>2, CountNone
    <3>3. id # under
      BY <1>0, <1>3, <2>2, Finite
    <3> QED BY <1>2, <2>1, <3>1, <3>2, <3>3 DEF Zero, Same
  <2>3. CASE id # nextCat
    <3>1. id \in Cats /\ counts'[id] = mid[id]
      BY <1>1, <1>3, <1>5, <2>3 DEF With
    <3> QED BY <1>2, <1>5, <2>1, <3>1, Opened
  <2> QED BY <2>2, <2>3
<1> QED BY <1>4, <1>6, <1>7, Closed

(* A moved category leaves the count of its old parent, where it was, and  *)
(* joins that of its new one.                                              *)
LEMMA MoveCategoryStep == IInv /\ MoveCategory => IInv'
<1> SUFFICES ASSUME IInv, MoveCategory PROVE IInv'
  OBVIOUS
<1>0. Forest
  BY DEF IInv
<1>1. PICK moved \in Cats, under \in Cats \cup {Root} :
          /\ under # parent[moved]
          /\ parent' = With(parent, moved, under)
          /\ counts' = Cascade(Cascade(counts, Ancestors(parent[moved]), parent[moved],
                                       -counts[moved].linksBelow, -SubtreeChildren(moved),
                                       Child(-1)),
                               Ancestors(under), under,
                               counts[moved].linksBelow, SubtreeChildren(moved), Child(1))
  BY DEF MoveCategory
<1> DEFINE links == counts[moved].linksBelow
           children == SubtreeChildren(moved)
           old == parent[moved]
           left == Cascade(counts, Ancestors(old), old, -links, -children, Child(-1))
<1>2. UNCHANGED <<home, nextCat, nextLink>>
  BY DEF MoveCategory
<1>3. Cats' = Cats /\ Links' = Links
  BY <1>1, <1>2 DEF Cats, Links, With
<1>4. Forest'
  <2>1. parent' \in [Cats' -> Cats' \cup {Root}]
    BY <1>0, <1>1, <1>3 DEF Forest, With, Cats
  <2> QED BY <1>0, <1>2, <1>3, <2>1 DEF Forest
<1>5. /\ DOMAIN left = Cats /\ DirectTypes(left)
      /\ \A c \in Cats : /\ left[c].links = counts[c].links
                          /\ left[c].children = counts[c].children + (IF c = old THEN -1 ELSE 0)
  <2>1. old \in Cats \cup {Root}
    BY <1>0 DEF Forest
  <2>2. old \in Ancestors(old) \/ old \notin DOMAIN counts
    BY <1>0, <2>1, TargetOnWalk, Opened
  <2>3. old \in DOMAIN counts => counts[old].children >= 1
    BY <1>0, Opened, Finite, CountPositive DEF Cats
  <2> HIDE DEF old
  <2> QED BY <2>2, <2>3, Opened, ChildCascade
<1>6. /\ DOMAIN counts' = Cats
      /\ \A c \in Cats : /\ counts'[c].links = left[c].links
                          /\ counts'[c].children = left[c].children + (IF c = under THEN 1 ELSE 0)
  <2>1. under \in Ancestors(under) \/ under \notin DOMAIN left
    BY <1>0, <1>5, TargetOnWalk
  <2>2. counts' = Cascade(left, Ancestors(under), under, links, children, Child(1))
    BY <1>1
  <2> HIDE DEF left
  <2> QED BY <1>5, <2>1, <2>2, ChildCascade
<1>7. ASSUME NEW id \in Cats'
      PROVE  counts'[id].links = Count(home', id) /\ counts'[id].children = Count(parent', id)
  <2>1. Count(parent', id) = Count(parent, id) - Same(id, old) + Same(id, under)
    BY <1>0, <1>1, Finite, CountMoved DEF Cats
  <2>2. counts[id].children = Count(parent, id) /\ Count(parent, id) \in Nat
    BY <1>3, Opened
  <2>3. counts'[id].children = counts[id].children + (IF id = old THEN -1 ELSE 0)
                               + (IF id = under THEN 1 ELSE 0)
    <3> HIDE DEF left, old
    <3> QED BY <1>3, <1>5, <1>6
  <2>4. counts'[id].links = Count(home', id)
    BY <1>2, <1>3, <1>5, <1>6, Opened
  <2> HIDE DEF old
  <2> QED BY <2>1, <2>2, <2>3, <2>4 DEF Same
<1> QED BY <1>3, <1>4, <1>6, <1>7, Closed

(* A category that goes has nothing left below it, and leaves its parent.  *)
LEMMA DeleteCategoryStep == IInv /\ DeleteCategory => IInv'
<1> SUFFICES ASSUME IInv, DeleteCategory PROVE IInv'
  OBVIOUS
<1>0. Forest
  BY DEF IInv
<1>1. PICK gone \in Cats :
          /\ \A c \in Cats : parent[c] # gone
          /\ \A l \in Links : home[l] # gone
          /\ parent' = Without(parent, gone)
          /\ counts' = Cascade(Without(counts, gone), Ancestors(parent[gone]), parent[gone],
                               -counts[gone].linksBelow, -1, Child(-1))
  BY DEF DeleteCategory
<1> DEFINE old == parent[gone]
           rest == Without(counts, gone)
<1>2. UNCHANGED <<home, nextCat, nextLink>>
  BY DEF DeleteCategory
<1>3. Cats' = Cats \ {gone} /\ Links' = Links
  BY <1>1, <1>2 DEF Cats, Links, Without
<1>4. Forest'
  <2>1. parent' \in [Cats' -> Cats' \cup {Root}]
    BY <1>0, <1>1, <1>3 DEF Forest, Without, Cats
  <2>2. home' \in [Links' -> Cats' \cup {Root}]
    BY <1>0, <1>1, <1>2, <1>3 DEF Forest
  <2> QED BY <1>0, <1>2, <1>3, <2>1, <2>2 DEF Forest
<1>5. /\ DOMAIN rest = Cats'
      /\ \A c \in Cats' : rest[c] = counts[c]
      /\ DirectTypes(rest)
  BY <1>3, Opened DEF Without, DirectTypes
<1>6. /\ DOMAIN counts' = Cats'
      /\ \A c \in Cats' : /\ counts'[c].links = counts[c].links
                           /\ counts'[c].children = counts[c].children + (IF c = old THEN -1 ELSE 0)
  <2>1. old \in Cats' \cup {Root}
    BY <1>0, <1>1, <1>3 DEF Forest
  <2>2. old \in Ancestors(old) \/ old \notin DOMAIN rest
    BY <1>0, <1>3, <1>5, <2>1, TargetOnWalk
  <2>3. old \in DOMAIN rest => rest[old].children >= 1
    <3>1. old \in Cats => counts[old].children >= 1
      BY <1>0, Opened, Finite, CountPositive DEF Cats
    <3> QED BY <1>3, <1>5, <3>1
  <2>4. counts' = Cascade(rest, Ancestors(old), old, -counts[gone].linksBelow, -1, Child(-1))
    BY <1>1
  <2> HIDE DEF old, rest
  <2> QED BY <1>5, <2>2, <2>3, <2>4, ChildCascade
<1>7. ASSUME NEW id \in Cats'
      PROVE  counts'[id].links = Count(home', id) /\ counts'[id].children = Count(parent', id)
  <2>1. Count(parent', id) = Count(parent, id) - Same(id, old)
    BY <1>0, <1>1, Finite, CountRemoved DEF Cats
  <2>2. counts[id].children = Count(parent, id) /\ Count(parent, id) \in Nat
    BY <1>3, Opened
  <2>3. counts'[id].links = Count(home', id)
    BY <1>2, <1>3, <1>6, Opened
  <2> HIDE DEF old
  <2> QED BY <1>6, <2>1, <2>2, <2>3 DEF Same
<1> QED BY <1>4, <1>6, <1>7, Closed

-----------------------------------------------------------------------------
(* A new link is counted in its home.                                      *)
LEMMA CreateLinkStep == IInv /\ CreateLink => IInv'
<1> SUFFICES ASSUME IInv, CreateLink PROVE IInv'
  OBVIOUS
<1>0. Forest
  BY DEF IInv
<1>1. PICK in \in Cats \cup {Root} :
          /\ home' = With(home, nextLink, in)
          /\ counts' = Cascade(counts, Ancestors(in), in, 1, 0, Link(1))
  BY DEF CreateLink
<1>2. /\ parent' = parent /\ nextCat' = nextCat
      /\ nextLink' = nextLink + 1 /\ nextLink <= MaxLink /\ nextLink \in Nat
  BY <1>0, CountsAssumption DEF CreateLink, Forest
<1>3. Cats' = Cats /\ Links' = Links \cup {nextLink} /\ nextLink \notin Links
  BY <1>0, <1>1, <1>2, Finite DEF Cats, Links, With
<1>4. Forest'
  <2>1. nextLink' \in 1 .. MaxLink + 1 /\ Links' \subseteq 1 .. nextLink' - 1
    BY <1>0, <1>2, <1>3, CountsAssumption DEF Forest
  <2>2. home' \in [Links' -> Cats' \cup {Root}]
    BY <1>0, <1>1, <1>3 DEF Forest, With, Links
  <2> QED BY <1>0, <1>2, <1>3, <2>1, <2>2 DEF Forest
<1>5. /\ DOMAIN counts' = Cats
      /\ \A c \in Cats : /\ counts'[c].children = counts[c].children
                          /\ counts'[c].links = counts[c].links + (IF c = in THEN 1 ELSE 0)
  <2>1. in \in Ancestors(in) \/ in \notin DOMAIN counts
    BY <1>0, TargetOnWalk, Opened
  <2> QED BY <1>1, <2>1, Opened, LinkCascade
<1>6. ASSUME NEW id \in Cats'
      PROVE  counts'[id].links = Count(home', id) /\ counts'[id].children = Count(parent', id)
  <2>1. Count(home', id) = Count(home, id) + Same(id, in)
    BY <1>0, <1>1, <1>3, Finite, CountAdded DEF Links
  <2> QED BY <1>2, <1>3, <1>5, <2>1, Opened DEF Same
<1> QED BY <1>3, <1>4, <1>5, <1>6, Closed

(* A moved link leaves the count of its old home and joins the new one's.  *)
LEMMA MoveLinkStep == IInv /\ MoveLink => IInv'
<1> SUFFICES ASSUME IInv, MoveLink PROVE IInv'
  OBVIOUS
<1>0. Forest
  BY DEF IInv
<1>1. PICK link \in Links, to \in Cats :
          /\ home[link] # to
          /\ home' = With(home, link, to)
          /\ counts' = Cascade(Cascade(counts, Ancestors(home[link]), home[link], -1, 0, Link(-1)),
                               Ancestors(to), to, 1, 0, Link(1))
  BY DEF MoveLink
<1> DEFINE old == home[link]
           left == Cascade(counts, Ancestors(old), old, -1, 0, Link(-1))
<1>2. UNCHANGED <<parent, nextCat, nextLink>>
  BY DEF MoveLink
<1>3. Cats' = Cats /\ Links' = Links
  BY <1>1, <1>2 DEF Cats, Links, With
<1>4. Forest'
  <2>1. home' \in [Links' -> Cats' \cup {Root}]
    BY <1>0, <1>1, <1>3 DEF Forest, With, Links
  <2> QED BY <1>0, <1>2, <1>3, <2>1 DEF Forest
<1>5. /\ DOMAIN left = Cats /\ DirectTypes(left)
      /\ \A c \in Cats : /\ left[c].children = counts[c].children
                          /\ left[c].links = counts[c].links + (IF c = old THEN -1 ELSE 0)
  <2>1. old \in Cats \cup {Root}
    BY <1>0 DEF Forest
  <2>2. old \in Ancestors(old) \/ old \notin DOMAIN counts
    BY <1>0, <2>1, TargetOnWalk, Opened
  <2>3. old \in DOMAIN counts => counts[old].links >= 1
    BY <1>0, Opened, Finite, CountPositive DEF Links
  <2> HIDE DEF old
  <2> QED BY <2>2, <2>3, Opened, LinkCascade
<1>6. /\ DOMAIN counts' = Cats
      /\ \A c \in Cats : /\ counts'[c].children = left[c].children
                          /\ counts'[c].links = left[c].links + (IF c = to THEN 1 ELSE 0)
  <2>1. to \in Ancestors(to) \/ to \notin DOMAIN left
    BY <1>0, <1>5, TargetOnWalk
  <2>2. counts' = Cascade(left, Ancestors(to), to, 1, 0, Link(1))
    BY <1>1
  <2> HIDE DEF left
  <2> QED BY <1>5, <2>1, <2>2, LinkCascade
<1>7. ASSUME NEW id \in Cats'
      PROVE  counts'[id].links = Count(home', id) /\ counts'[id].children = Count(parent', id)
  <2>1. Count(home', id) = Count(home, id) - Same(id, old) + Same(id, to)
    BY <1>0, <1>1, Finite, CountMoved DEF Links
  <2>2. counts[id].links = Count(home, id) /\ Count(home, id) \in Nat
    BY <1>3, Opened
  <2>3. counts'[id].links = counts[id].links + (IF id = old THEN -1 ELSE 0)
                            + (IF id = to THEN 1 ELSE 0)
    <3> HIDE DEF left, old
    <3> QED BY <1>3, <1>5, <1>6
  <2>4. counts'[id].children = Count(parent', id)
    BY <1>2, <1>3, <1>5, <1>6, Opened
  <2> HIDE DEF old
  <2> QED BY <2>1, <2>2, <2>3, <2>4 DEF Same
<1> QED BY <1>3, <1>4, <1>6, <1>7, Closed

(* A link that goes leaves the count of its home.                          *)
LEMMA DeleteLinkStep == IInv /\ DeleteLink => IInv'
<1> SUFFICES ASSUME IInv, DeleteLink PROVE IInv'
  OBVIOUS
<1>0. Forest
  BY DEF IInv
<1>1. PICK link \in Links :
          /\ home' = Without(home, link)
          /\ counts' = Cascade(counts, Ancestors(home[link]), home[link], -1, 0, Link(-1))
  BY DEF DeleteLink
<1> DEFINE old == home[link]
<1>2. UNCHANGED <<parent, nextCat, nextLink>>
  BY DEF DeleteLink
<1>3. Cats' = Cats /\ Links' = Links \ {link}
  BY <1>1, <1>2 DEF Cats, Links, Without
<1>4. Forest'
  <2>1. home' \in [Links' -> Cats' \cup {Root}]
    BY <1>0, <1>1, <1>3 DEF Forest, Without, Links
  <2> QED BY <1>0, <1>2, <1>3, <2>1 DEF Forest
<1>5. /\ DOMAIN counts' = Cats
      /\ \A c \in Cats : /\ counts'[c].children = counts[c].children
                          /\ counts'[c].links = counts[c].links + (IF c = old THEN -1 ELSE 0)
  <2>1. old \in Cats \cup {Root}
    BY <1>0 DEF Forest
  <2>2. old \in Ancestors(old) \/ old \notin DOMAIN counts
    BY <1>0, <2>1, TargetOnWalk, Opened
  <2>3. old \in DOMAIN counts => counts[old].links >= 1
    BY <1>0, Opened, Finite, CountPositive DEF Links
  <2>4. counts' = Cascade(counts, Ancestors(old), old, -1, 0, Link(-1))
    BY <1>1
  <2> HIDE DEF old
  <2> QED BY <2>2, <2>3, <2>4, Opened, LinkCascade
<1>6. ASSUME NEW id \in Cats'
      PROVE  counts'[id].links = Count(home', id) /\ counts'[id].children = Count(parent', id)
  <2>1. Count(home', id) = Count(home, id) - Same(id, old)
    BY <1>0, <1>1, Finite, CountRemoved DEF Links
  <2> HIDE DEF old
  <2> QED BY <1>2, <1>3, <1>5, <2>1, Opened DEF Same
<1> QED BY <1>3, <1>4, <1>5, <1>6, Closed

-----------------------------------------------------------------------------
(* A recount stores the direct counts themselves.                          *)
LEMMA RecountStep == IInv /\ Recount => IInv'
<1> SUFFICES ASSUME IInv, Recount PROVE IInv'
  OBVIOUS
<1>1. UNCHANGED <<parent, home, nextCat, nextLink>>
  BY DEF Recount
<1>2. Forest'
  BY <1>1 DEF IInv, Forest, Cats, Links
<1>3. /\ DOMAIN counts' = Cats
      /\ \A id \in Cats : /\ counts'[id].links = DirectLinks(id)
                           /\ counts'[id].children = Cardinality(ChildrenOf(id))
  BY DEF Recount
<1> QED BY <1>1, <1>2, <1>3 DEF IInv, DirectCountsExact, DirectLinks, ChildrenOf, Cats, Links

(* An empty store has nothing to count.                                    *)
LEMMA InitStep == Init => IInv
<1> SUFFICES ASSUME Init PROVE IInv
  OBVIOUS
<1>1. Cats = {} /\ Links = {} /\ DOMAIN counts = {}
  BY DEF Init, Cats, Links
<1>2. Forest
  BY <1>1, CountsAssumption DEF Init, Forest, Cats, Links
<1> QED BY <1>1, <1>2 DEF IInv, DirectCountsExact

(* Every step keeps the invariant.                                         *)
LEMMA NextStep == IInv /\ [Next]_vars => IInv'
<1> SUFFICES ASSUME IInv, [Next]_vars PROVE IInv'
  OBVIOUS
<1>1. CASE UNCHANGED vars
  BY <1>1 DEF vars, IInv, Forest, DirectCountsExact, DirectLinks, ChildrenOf, Cats, Links
<1>2. CASE Next
  BY <1>2, CreateCategoryStep, MoveCategoryStep, DeleteCategoryStep,
     CreateLinkStep, MoveLinkStep, DeleteLinkStep, RecountStep DEF Next
<1> QED BY <1>1, <1>2

(* The tree stays a map into itself and every category keeps its record,   *)
(* through every create, move, delete and recount.                         *)
THEOREM InductiveInvariant == Spec => []IInv
<1> QED BY InitStep, NextStep, PTL DEF Spec

(* link_count and child_count are exact in every category, whatever        *)
(* depth_max is and however deep the tree grows.                           *)
THEOREM DirectCountsAreExact == Spec => []DirectCountsExact
<1>1. IInv => DirectCountsExact
  BY DEF IInv
<1> QED BY <1>1, InductiveInvariant, PTL
-----------------------------------------------------------------------------
(* Induction, for sets in the place of predicates.                         *)

(* A set of numbers has a least member: what fails somewhere fails first.  *)
LEMMA LeastNumber ==
    ASSUME NEW S, S \subseteq Nat, S # {}
    PROVE  \E m \in S : \A n \in S : m <= n
<1> DEFINE R == OpToRel(<, Nat)
<1>1. IsWellFoundedOn(R, Nat)
  BY NatLessThanWellFounded
<1>2. \A x, y \in Nat : <<x, y>> \in R <=> x < y
  BY DEF OpToRel
<1> HIDE DEF R
<1>3. PICK m \in S : \A y \in S : ~(<<y, m>> \in R)
  BY <1>1, WFMin
<1>4. \A n \in S : m <= n
  <2> TAKE n \in S
  <2>1. m \in Nat /\ n \in Nat /\ ~(n < m)
    BY <1>2, <1>3
  <2> QED
    BY <2>1
<1> QED
  BY <1>4

LEMMA AllNumbers ==
    ASSUME NEW S, 0 \in S, \A n \in Nat : n \in S => n + 1 \in S
    PROVE  Nat \subseteq S
<1> DEFINE T == Nat \ S
<1> SUFFICES ASSUME T # {} PROVE FALSE
  OBVIOUS
<1>1. T \subseteq Nat
  OBVIOUS
<1>2. PICK m \in T : \A n \in T : m <= n
  <2> HIDE DEF T
  <2> QED
    BY <1>1, LeastNumber
<1>3. m # 0 /\ m - 1 \in Nat /\ m - 1 \notin T
  BY <1>2
<1>4. (m - 1) + 1 \in S
  BY <1>3
<1> QED
  BY <1>3, <1>4

-----------------------------------------------------------------------------
(* A walk up the parents, and where it gets.                               *)

Above1(up, x) == IF x \in DOMAIN up THEN up[x] ELSE Root

IsWalk(at, up, id, limit) ==
    at = [n \in 0..limit |-> IF n = 0 THEN id ELSE Above1(up, at[n - 1])]

(* A walk can be made from anywhere, of any length.                        *)
LEMMA WalkExists ==
    ASSUME NEW up, NEW id, NEW limit \in Nat
    PROVE  \E at : IsWalk(at, up, id, limit)
<1> DEFINE S == {m \in Nat : \E at : IsWalk(at, up, id, m)}
<1>1. 0 \in S
  <2> DEFINE first == [n \in 0..0 |-> id]
  <2>1. first = [n \in 0..0 |-> IF n = 0 THEN id ELSE Above1(up, first[n - 1])]
    OBVIOUS
  <2>2. IsWalk(first, up, id, 0)
    BY <2>1 DEF IsWalk
  <2> HIDE DEF first
  <2> QED
    BY <2>2
<1>2. ASSUME NEW m \in Nat, m \in S PROVE m + 1 \in S
  <2>1. PICK at : IsWalk(at, up, id, m)
    BY <1>2
  <2> DEFINE longer == [n \in 0..m + 1 |-> IF n <= m THEN at[n] ELSE Above1(up, at[m])]
  <2>2. /\ DOMAIN at = 0..m /\ at[0] = id
        /\ \A n \in 1..m : at[n] = Above1(up, at[n - 1])
    BY <2>1 DEF IsWalk
  <2>3. longer[0] = id /\ \A n \in 1..m + 1 : longer[n] = Above1(up, longer[n - 1])
    <3>1. longer[0] = id
      BY <2>2
    <3>2. ASSUME NEW n \in 1..m + 1 PROVE longer[n] = Above1(up, longer[n - 1])
      <4>1. longer[n - 1] = at[n - 1]
        OBVIOUS
      <4> QED
        BY <2>2, <4>1
    <3> QED
      BY <3>1, <3>2
  <2>4. longer = [n \in 0..m + 1 |-> longer[n]]
    OBVIOUS
  <2> HIDE DEF longer
  <2>5. longer = [n \in 0..m + 1 |-> IF n = 0 THEN id ELSE Above1(up, longer[n - 1])]
    BY <2>3, <2>4
  <2>6. IsWalk(longer, up, id, m + 1)
    BY <2>5 DEF IsWalk
  <2> QED
    BY <2>6
<1> HIDE DEF S
<1>3. limit \in S
  BY <1>1, <1>2, AllNumbers
<1> QED
  BY <1>3 DEF S

(* A chain is what a walk passes.                                          *)
LEMMA ChainIsWalk ==
    ASSUME NEW up, NEW id, NEW limit \in Nat
    PROVE  \E at : /\ IsWalk(at, up, id, limit)
                   /\ Chain(up, id, limit) = ({id} \cup {at[n] : n \in 1 .. limit - 1}) \ {Root}
<1> DEFINE at == CHOOSE walk : IsWalk(walk, up, id, limit)
<1>1. IsWalk(at, up, id, limit)
  BY WalkExists
<1>2. Chain(up, id, limit) = ({id} \cup {at[n] : n \in 1 .. limit - 1}) \ {Root}
  BY DEF Chain, IsWalk, Above1
<1> QED
  BY <1>1, <1>2

(* The next steps of a walk are the walk of the parent.                    *)
LEMMA WalkShift ==
    ASSUME NEW up, NEW id \in DOMAIN up, NEW limit \in Nat,
           NEW at, IsWalk(at, up, id, limit + 1), NEW next, IsWalk(next, up, up[id], limit)
    PROVE  \A n \in 0..limit : at[n + 1] = next[n]
<1> DEFINE S == {n \in Nat : n <= limit => at[n + 1] = next[n]}
<1>1. /\ at[0] = id /\ \A n \in 1..limit + 1 : at[n] = Above1(up, at[n - 1])
      /\ next[0] = up[id] /\ \A n \in 1..limit : next[n] = Above1(up, next[n - 1])
  BY DEF IsWalk
<1>2. 0 \in S
  <2>1. at[0 + 1] = Above1(up, at[0])
    BY <1>1
  <2> QED
    BY <1>1, <2>1 DEF Above1
<1>3. ASSUME NEW n \in Nat, n \in S PROVE n + 1 \in S
  <2> SUFFICES ASSUME n + 1 <= limit PROVE at[n + 1 + 1] = next[n + 1]
    OBVIOUS
  <2>1. at[n + 1] = next[n]
    BY <1>3
  <2>2. at[n + 1 + 1] = Above1(up, at[n + 1 + 1 - 1]) /\ n + 1 + 1 - 1 = n + 1
    BY <1>1
  <2>3. next[n + 1] = Above1(up, next[n + 1 - 1]) /\ n + 1 - 1 = n
    BY <1>1
  <2> QED
    BY <2>1, <2>2, <2>3
<1> HIDE DEF S
<1>4. Nat \subseteq S
  BY <1>2, <1>3, AllNumbers
<1> QED
  BY <1>4 DEF S

(* A longer chain is the category and the chain of its parent.             *)
LEMMA ChainStep ==
    ASSUME NEW up, NEW id \in DOMAIN up, id # Root, NEW limit \in Nat \ {0}
    PROVE  Chain(up, id, limit + 1) = {id} \cup Chain(up, up[id], limit)
<1>1. PICK at : /\ IsWalk(at, up, id, limit + 1)
                /\ Chain(up, id, limit + 1) =
                     ({id} \cup {at[n] : n \in 1 .. limit + 1 - 1}) \ {Root}
  BY ChainIsWalk
<1>2. PICK next : /\ IsWalk(next, up, up[id], limit)
                  /\ Chain(up, up[id], limit) =
                       ({up[id]} \cup {next[n] : n \in 1 .. limit - 1}) \ {Root}
  BY ChainIsWalk
<1>3. \A n \in 0..limit : at[n + 1] = next[n]
  BY <1>1, <1>2, WalkShift
<1>4. next[0] = up[id]
  BY <1>2 DEF IsWalk
<1>5. {at[n] : n \in 1 .. limit + 1 - 1} = {up[id]} \cup {next[n] : n \in 1 .. limit - 1}
  <2>1. ASSUME NEW n \in 1 .. limit + 1 - 1
        PROVE  at[n] \in {up[id]} \cup {next[k] : k \in 1 .. limit - 1}
    <3>1. at[n - 1 + 1] = next[n - 1] /\ n - 1 + 1 = n
      BY <1>3
    <3> QED
      BY <1>4, <3>1
  <2>2. up[id] \in {at[n] : n \in 1 .. limit + 1 - 1}
    <3>1. at[0 + 1] = next[0]
      BY <1>3
    <3> QED
      BY <1>4, <3>1
  <2>3. ASSUME NEW n \in 1 .. limit - 1 PROVE next[n] \in {at[k] : k \in 1 .. limit + 1 - 1}
    <3>1. at[n + 1] = next[n] /\ n + 1 \in 1 .. limit + 1 - 1
      BY <1>3
    <3> QED
      BY <3>1
  <2> QED
    BY <2>1, <2>2, <2>3
<1> QED
  BY <1>1, <1>2, <1>5

(* A chain of one, and the chain of no category.                           *)
LEMMA ChainOfOne ==
    ASSUME NEW up, NEW id PROVE Chain(up, id, 1) = {id} \ {Root}
<1>1. PICK at : Chain(up, id, 1) = ({id} \cup {at[n] : n \in 1 .. 1 - 1}) \ {Root}
  BY ChainIsWalk
<1> QED
  BY <1>1

LEMMA ChainOfRoot ==
    ASSUME NEW up, Root \notin DOMAIN up, NEW limit \in Nat PROVE Chain(up, Root, limit) = {}
<1>1. PICK at : /\ IsWalk(at, up, Root, limit)
                /\ Chain(up, Root, limit) = ({Root} \cup {at[n] : n \in 1 .. limit - 1}) \ {Root}
  BY ChainIsWalk
<1> DEFINE S == {n \in Nat : n <= limit => at[n] = Root}
<1>2. at[0] = Root /\ \A n \in 1..limit : at[n] = Above1(up, at[n - 1])
  BY <1>1 DEF IsWalk
<1>3. 0 \in S
  BY <1>2
<1>4. ASSUME NEW n \in Nat, n \in S PROVE n + 1 \in S
  <2> SUFFICES ASSUME n + 1 <= limit PROVE at[n + 1] = Root
    OBVIOUS
  <2>1. at[n + 1] = Above1(up, at[n + 1 - 1]) /\ n + 1 - 1 = n
    BY <1>2
  <2>2. at[n] = Root
    BY <1>4
  <2> QED
    BY <2>1, <2>2 DEF Above1
<1> HIDE DEF S
<1>5. Nat \subseteq S
  BY <1>3, <1>4, AllNumbers
<1>6. \A n \in 1 .. limit - 1 : at[n] = Root
  BY <1>5 DEF S
<1> QED
  BY <1>1, <1>6
-----------------------------------------------------------------------------
(* The ancestors of a category, whatever the depth: the least set that has *)
(* it and, with a category, its parent.                                    *)

ClosedUp(up, S) == \A x \in S : up[x] \in DOMAIN up => up[x] \in S

Above(up, c) ==
    {a \in DOMAIN up : \A S \in SUBSET DOMAIN up :
                           (c \in DOMAIN up => c \in S) /\ ClosedUp(up, S) => a \in S}

(* No category is among the ancestors of its parent.                       *)
Acyclic(up) == \A c \in DOMAIN up : c \notin Above(up, up[c])

LEMMA AboveType ==
    ASSUME NEW up, NEW c
    PROVE  /\ Above(up, c) \subseteq DOMAIN up
           /\ ClosedUp(up, Above(up, c))
           /\ c \in DOMAIN up => c \in Above(up, c)
BY DEF Above, ClosedUp

LEMMA AboveLeast ==
    ASSUME NEW up, NEW c, NEW S \in SUBSET DOMAIN up, c \in DOMAIN up => c \in S, ClosedUp(up, S)
    PROVE  Above(up, c) \subseteq S
BY DEF Above

LEMMA AboveNone ==
    ASSUME NEW up, NEW c, c \notin DOMAIN up
    PROVE  Above(up, c) = {}
<1>1. ClosedUp(up, {})
  BY DEF ClosedUp
<1> QED
  BY <1>1, AboveLeast

(* What is above an ancestor is above the category.                        *)
LEMMA AboveWithin ==
    ASSUME NEW up, NEW c, NEW a \in Above(up, c)
    PROVE  Above(up, a) \subseteq Above(up, c)
BY AboveType, AboveLeast

LEMMA AboveStep ==
    ASSUME NEW up, NEW c \in DOMAIN up
    PROVE  Above(up, c) = {c} \cup Above(up, up[c])
<1>1. Above(up, c) \subseteq {c} \cup Above(up, up[c])
  <2>1. ClosedUp(up, {c} \cup Above(up, up[c]))
    BY AboveType DEF ClosedUp
  <2> QED
    BY <2>1, AboveType, AboveLeast
<1>2. c \in Above(up, c)
  BY AboveType
<1>3. Above(up, up[c]) \subseteq Above(up, c)
  <2>1. CASE up[c] \in DOMAIN up
    <3>1. up[c] \in Above(up, c)
      BY <1>2, <2>1, AboveType DEF ClosedUp
    <3> QED
      BY <3>1, AboveWithin
  <2>2. CASE up[c] \notin DOMAIN up
    BY <2>2, AboveNone
  <2> QED
    BY <2>1, <2>2
<1> QED
  BY <1>1, <1>2, <1>3

(* Two forests that agree on a closed set have the same ancestors there.   *)
LEMMA AboveLocal ==
    ASSUME NEW up, NEW v, NEW S, S \subseteq DOMAIN up, S \subseteq DOMAIN v,
           ClosedUp(up, S), ClosedUp(v, S), \A x \in S : v[x] = up[x], NEW c \in S
    PROVE  Above(v, c) = Above(up, c)
<1>1. Above(up, c) \subseteq S /\ Above(v, c) \subseteq S
  BY AboveLeast
<1>2. ClosedUp(v, Above(up, c)) /\ ClosedUp(up, Above(v, c))
  BY <1>1, AboveType DEF ClosedUp
<1>3. c \in Above(up, c) /\ c \in Above(v, c)
  BY AboveType
<1> QED
  BY <1>1, <1>2, <1>3, AboveLeast

-----------------------------------------------------------------------------
(* A chain that is long enough is all the ancestors.                       *)

LEMMA AboveSize ==
    ASSUME NEW up, IsFiniteSet(DOMAIN up), Acyclic(up), NEW c
    PROVE  /\ IsFiniteSet(Above(up, c)) /\ Cardinality(Above(up, c)) \in Nat
           /\ c \in DOMAIN up => Cardinality(Above(up, c)) = Cardinality(Above(up, up[c])) + 1
<1>1. \A x : IsFiniteSet(Above(up, x)) /\ Cardinality(Above(up, x)) \in Nat
  BY AboveType, FS_Subset, FS_CardinalityType
<1>2. ASSUME c \in DOMAIN up
      PROVE  Cardinality(Above(up, c)) = Cardinality(Above(up, up[c])) + 1
  <2>1. c \notin Above(up, up[c])
    BY <1>2 DEF Acyclic
  <2>2. Above(up, c) = Above(up, up[c]) \cup {c}
    BY <1>2, AboveStep
  <2> QED
    BY <1>1, <2>1, <2>2, FS_AddElement
<1> QED
  BY <1>1, <1>2

LEMMA ChainIsAbove ==
    ASSUME NEW up, IsFiniteSet(DOMAIN up), Root \notin DOMAIN up, Acyclic(up),
           \A x \in DOMAIN up : up[x] \in DOMAIN up \cup {Root},
           NEW c \in DOMAIN up \cup {Root}, NEW k \in Nat \ {0}, Cardinality(Above(up, c)) <= k
    PROVE  Chain(up, c, k) = Above(up, c)
<1> DEFINE Right(x, n) == Cardinality(Above(up, x)) <= n + 1 => Chain(up, x, n + 1) = Above(up, x)
           S == {n \in Nat : \A x \in DOMAIN up \cup {Root} : Right(x, n)}
<1>0. \A n \in Nat : Right(Root, n)
  BY ChainOfRoot, AboveNone
<1>1. 0 \in S
  <2> SUFFICES ASSUME NEW x \in DOMAIN up, Cardinality(Above(up, x)) <= 1
               PROVE  Chain(up, x, 1) = Above(up, x)
    BY <1>0
  <2>1. Cardinality(Above(up, up[x])) = 0
    BY AboveSize
  <2>2. Above(up, up[x]) = {}
    BY <2>1, AboveSize, FS_EmptySet
  <2> QED
    BY <2>2, AboveStep, ChainOfOne
<1>2. ASSUME NEW n \in Nat, n \in S PROVE n + 1 \in S
  <2> SUFFICES ASSUME NEW x \in DOMAIN up, Cardinality(Above(up, x)) <= n + 1 + 1
               PROVE  Chain(up, x, n + 1 + 1) = Above(up, x)
    BY <1>0
  <2>1. Cardinality(Above(up, up[x])) <= n + 1
    BY AboveSize
  <2>2. Chain(up, up[x], n + 1) = Above(up, up[x])
    BY <1>2, <2>1
  <2>3. Chain(up, x, n + 1 + 1) = {x} \cup Chain(up, up[x], n + 1)
    BY ChainStep
  <2> QED
    BY <2>2, <2>3, AboveStep
<1>3. Nat \subseteq S
  <2> HIDE DEF S
  <2> QED
    BY <1>1, <1>2, AllNumbers
<1>4. k - 1 \in Nat /\ k - 1 + 1 = k
  OBVIOUS
<1>5. Right(c, k - 1)
  BY <1>3, <1>4
<1> QED
  BY <1>4, <1>5

(* A forest of issued ids without cycles.                                  *)
Tree(up) ==
    /\ DOMAIN up \subseteq Category
    /\ \A c \in DOMAIN up : up[c] \in DOMAIN up \cup {Root}
    /\ Acyclic(up)

LEMMA TreeFinite ==
    ASSUME NEW up, Tree(up)
    PROVE  /\ IsFiniteSet(DOMAIN up) /\ Root \notin DOMAIN up
           /\ \A c : Cardinality(Above(up, c)) <= MaxCategory
<1>1. /\ IsFiniteSet(Category) /\ Cardinality(Category) = MaxCategory
      /\ Root \notin Category
  BY CountsAssumption, FS_Interval DEF Category, Root
<1>2. IsFiniteSet(DOMAIN up) /\ Root \notin DOMAIN up
  BY <1>1, FS_Subset DEF Tree
<1>3. \A c : Above(up, c) \subseteq Category
  BY AboveType DEF Tree
<1>4. \A c : Cardinality(Above(up, c)) <= MaxCategory
  BY <1>1, <1>3, FS_Subset
<1> QED
  BY <1>2, <1>4

(* The chain a level is the length of goes all the way up.                 *)
LEMMA FullChain ==
    ASSUME NEW up, Tree(up), NEW c \in DOMAIN up \cup {Root}
    PROVE  Chain(up, c, MaxCategory) = Above(up, c)
<1>1. CASE MaxCategory = 0
  <2>1. c = Root
    BY <1>1 DEF Tree, Category
  <2> QED
    BY <1>1, <2>1, TreeFinite, ChainOfRoot, AboveNone
<1>2. CASE MaxCategory # 0
  BY <1>2, CountsAssumption, TreeFinite, ChainIsAbove DEF Tree
<1> QED
  BY <1>1, <1>2

(* In a tree that is not too deep a walk meets every ancestor.             *)
LEMMA ShortChain ==
    ASSUME NEW up, Tree(up), ~TooDeep(up), NEW c \in DOMAIN up \cup {Root}
    PROVE  Chain(up, c, DepthMax) = Above(up, c)
<1>1. CASE c = Root
  BY <1>1, CountsAssumption, TreeFinite, ChainOfRoot, AboveNone
<1>2. CASE c \in DOMAIN up
  <2>1. Cardinality(Above(up, c)) \in Nat
    BY TreeFinite, AboveSize DEF Tree
  <2>2. Cardinality(Above(up, c)) <= DepthMax
    BY <1>2, <2>1, FullChain, CountsAssumption DEF TooDeep, Level
  <2> QED
    BY <2>2, CountsAssumption, TreeFinite, ChainIsAbove DEF Tree
<1> QED
  BY <1>1, <1>2

-----------------------------------------------------------------------------
(* What the writes do to the ancestors.                                    *)

(* A new category has its own and its parent's, and no other changes.      *)
LEMMA AboveAdded ==
    ASSUME NEW up, Tree(up), NEW n \in Category, n \notin DOMAIN up,
           NEW p \in DOMAIN up \cup {Root}, NEW v, v = With(up, n, p)
    PROVE  /\ Tree(v)
           /\ \A c \in DOMAIN up \cup {Root} : Above(v, c) = Above(up, c)
           /\ Above(v, n) = {n} \cup Above(up, p)
<1>1. /\ DOMAIN v = DOMAIN up \cup {n} /\ v[n] = p
      /\ \A c \in DOMAIN up : v[c] = up[c]
      /\ \A c \in DOMAIN up : up[c] \in DOMAIN up \cup {Root}
      /\ Root \notin Category
  BY CountsAssumption DEF With, Tree, Category, Root
<1>2. Root \notin DOMAIN v /\ Root \notin DOMAIN up
  BY <1>1 DEF Tree
<1>3. \A c \in DOMAIN up \cup {Root} : Above(v, c) = Above(up, c)
  <2>1. ClosedUp(up, DOMAIN up) /\ ClosedUp(v, DOMAIN up)
    BY <1>1, <1>2 DEF ClosedUp
  <2>2. \A c \in DOMAIN up : Above(v, c) = Above(up, c)
    BY <1>1, <2>1, AboveLocal
  <2>3. Above(v, Root) = Above(up, Root)
    BY <1>2, AboveNone
  <2> QED
    BY <2>2, <2>3
<1>4. Above(v, n) = {n} \cup Above(up, p)
  BY <1>1, <1>3, AboveStep
<1>5. Acyclic(v)
  <2> SUFFICES ASSUME NEW c \in DOMAIN v PROVE c \notin Above(v, v[c])
    BY DEF Acyclic
  <2>1. Above(up, p) \subseteq DOMAIN up
    BY AboveType
  <2> QED
    BY <1>1, <1>3, <2>1 DEF Acyclic, Tree
<1>6. Tree(v)
  BY <1>1, <1>5 DEF Tree
<1> QED
  BY <1>3, <1>4, <1>6

(* A category without children that goes is nobody's ancestor.             *)
LEMMA AboveRemoved ==
    ASSUME NEW up, Tree(up), NEW d \in DOMAIN up, \A c \in DOMAIN up : up[c] # d,
           NEW v, v = Without(up, d)
    PROVE  /\ Tree(v)
           /\ \A c \in DOMAIN v \cup {Root} : Above(v, c) = Above(up, c)
           /\ \A c \in DOMAIN v : d \notin Above(up, c)
<1>1. /\ DOMAIN v = DOMAIN up \ {d}
      /\ \A c \in DOMAIN v : v[c] = up[c]
      /\ \A c \in DOMAIN v : up[c] \in DOMAIN v \cup {Root}
      /\ Root \notin Category
  BY CountsAssumption DEF Without, Tree, Category, Root
<1>2. Root \notin DOMAIN v /\ Root \notin DOMAIN up
  BY <1>1 DEF Tree
<1>3. ClosedUp(up, DOMAIN v) /\ ClosedUp(v, DOMAIN v)
  BY <1>1, <1>2 DEF ClosedUp
<1>4. \A c \in DOMAIN v \cup {Root} : Above(v, c) = Above(up, c)
  <2>1. \A c \in DOMAIN v : Above(v, c) = Above(up, c)
    BY <1>1, <1>3, AboveLocal
  <2>2. Above(v, Root) = Above(up, Root)
    BY <1>2, AboveNone
  <2> QED
    BY <2>1, <2>2
<1>5. \A c \in DOMAIN v : d \notin Above(up, c)
  BY <1>1, <1>4, AboveType
<1>6. Tree(v)
  BY <1>1, <1>4 DEF Tree, Acyclic
<1> QED
  BY <1>4, <1>5, <1>6

(* The ancestors of what is under id: those under id, then its parent's.   *)
LEMMA AboveThrough ==
    ASSUME NEW up, NEW id \in DOMAIN up, NEW c, id \in Above(up, c)
    PROVE  Above(up, c) = {x \in Above(up, c) : id \in Above(up, x)} \cup Above(up, up[id])
<1> DEFINE Between == {x \in Above(up, c) : id \in Above(up, x)}
<1>1. c \in DOMAIN up
  BY AboveNone
<1>2. ClosedUp(up, Between \cup Above(up, up[id]))
  <2> SUFFICES ASSUME NEW x \in Between \cup Above(up, up[id]), up[x] \in DOMAIN up
               PROVE  up[x] \in Between \cup Above(up, up[id])
    BY DEF ClosedUp
  <2>1. CASE x \in Above(up, up[id])
    BY <2>1, AboveType DEF ClosedUp
  <2>2. CASE x = id
    BY <2>2, AboveType
  <2>3. CASE x \in Between /\ x # id
    <3>1. up[x] \in Above(up, c)
      BY <2>3, AboveType DEF ClosedUp
    <3>2. x \in DOMAIN up
      BY <2>3, AboveType
    <3>3. id \in Above(up, up[x])
      BY <2>3, <3>2, AboveStep
    <3> QED
      BY <3>1, <3>3
  <2> QED
    BY <2>1, <2>2, <2>3
<1>3. Above(up, c) \subseteq Between \cup Above(up, up[id])
  <2>1. c \in Between
    BY <1>1, AboveType
  <2>2. Between \cup Above(up, up[id]) \in SUBSET DOMAIN up
    BY AboveType
  <2> HIDE DEF Between
  <2> QED
    BY <1>2, <2>1, <2>2, AboveLeast
<1>4. Above(up, up[id]) \subseteq Above(up, c)
  BY AboveWithin, AboveStep
<1> QED
  BY <1>3, <1>4

(* A category that moves takes what is under it along.                     *)
LEMMA AboveMoved ==
    ASSUME NEW up, Tree(up), NEW id \in DOMAIN up, NEW q \in DOMAIN up \cup {Root},
           id \notin Above(up, q), NEW v, v = With(up, id, q)
    PROVE  /\ Tree(v)
           /\ \A c : id \notin Above(up, c) => Above(v, c) = Above(up, c)
           /\ \A c : id \in Above(up, c) =>
                 Above(v, c) = {x \in Above(up, c) : id \in Above(up, x)} \cup Above(up, q)
<1>1. /\ DOMAIN v = DOMAIN up /\ v[id] = q
      /\ \A c \in DOMAIN up \ {id} : v[c] = up[c]
      /\ \A c \in DOMAIN up : up[c] \in DOMAIN up \cup {Root}
  BY DEF With, Tree
<1>2. ASSUME NEW c, id \notin Above(up, c) PROVE Above(v, c) = Above(up, c)
  <2>1. CASE c \in DOMAIN up
    <3>1. Above(up, c) \subseteq DOMAIN up /\ ClosedUp(up, Above(up, c)) /\ c \in Above(up, c)
      BY <2>1, AboveType
    <3>2. \A x \in Above(up, c) : v[x] = up[x]
      BY <1>1, <1>2, <3>1
    <3>3. ClosedUp(v, Above(up, c))
      BY <1>1, <3>1, <3>2 DEF ClosedUp
    <3> QED
      BY <1>1, <3>1, <3>2, <3>3, AboveLocal
  <2>2. CASE c \notin DOMAIN up
    BY <1>1, <2>2, AboveNone
  <2> QED
    BY <2>1, <2>2
<1>3. ASSUME NEW c, id \in Above(up, c)
      PROVE  Above(v, c) = {x \in Above(up, c) : id \in Above(up, x)} \cup Above(up, q)
  <2> DEFINE Between == {x \in Above(up, c) : id \in Above(up, x)}
             T == Between \cup Above(up, q)
             U == {x \in Above(up, c) : x \in Between => x \in Above(v, c)}
  <2>1. c \in DOMAIN up
    BY <1>3, AboveNone
  <2>2. Above(v, c) \subseteq T
    <3>1. ASSUME NEW x \in T, v[x] \in DOMAIN v PROVE v[x] \in T
      <4>1. CASE x \in Above(up, q)
        <5>1. v[x] = up[x]
          BY <1>1, <4>1, AboveType
        <5> QED
          BY <1>1, <3>1, <4>1, <5>1, AboveType DEF ClosedUp
      <4>2. CASE x = id
        BY <1>1, <3>1, <4>2, AboveType
      <4>3. CASE x \in Between /\ x # id
        <5>1. x \in DOMAIN up /\ v[x] = up[x]
          BY <1>1, <4>3, AboveType
        <5>2. up[x] \in Above(up, c)
          BY <1>1, <3>1, <4>3, <5>1, AboveType DEF ClosedUp
        <5>3. id \in Above(up, up[x])
          BY <4>3, <5>1, AboveStep
        <5> QED
          BY <5>1, <5>2, <5>3
      <4> QED
        BY <4>1, <4>2, <4>3
    <3>2. c \in T /\ T \in SUBSET DOMAIN v
      BY <1>1, <1>3, <2>1, AboveType
    <3>3. ClosedUp(v, T)
      BY <3>1 DEF ClosedUp
    <3> HIDE DEF T
    <3> QED
      BY <3>2, <3>3, AboveLeast
  <2>3. Between \subseteq Above(v, c)
    <3>1. ASSUME NEW x \in U, up[x] \in DOMAIN up PROVE up[x] \in U
      <4>1. x \in DOMAIN up /\ up[x] \in Above(up, c)
        BY <3>1, AboveType DEF ClosedUp
      <4> SUFFICES ASSUME up[x] \in Between PROVE up[x] \in Above(v, c)
        BY <4>1
      <4>2. x # id
        BY DEF Tree, Acyclic
      <4>3. x \in Above(v, c)
        BY <4>1, AboveStep
      <4>4. v[x] = up[x]
        BY <1>1, <4>1, <4>2
      <4> QED
        BY <1>1, <3>1, <4>3, <4>4, AboveType DEF ClosedUp
    <3>2. c \in U /\ U \in SUBSET DOMAIN up
      BY <1>1, <2>1, AboveType
    <3>3. ClosedUp(up, U)
      BY <3>1 DEF ClosedUp
    <3>4. Above(up, c) \subseteq U
      <4> HIDE DEF U
      <4> QED
        BY <3>2, <3>3, AboveLeast
    <3> QED
      BY <3>4
  <2>4. Above(up, q) \subseteq Above(v, c)
    <3>1. id \in Above(v, c)
      BY <1>3, <2>3, AboveType
    <3>2. Above(v, id) \subseteq Above(v, c)
      BY <3>1, AboveWithin
    <3>3. Above(v, id) = {id} \cup Above(v, q)
      BY <1>1, AboveStep
    <3> QED
      BY <1>2, <3>2, <3>3
  <2> QED
    BY <2>2, <2>3, <2>4
<1>4. Acyclic(v)
  <2> SUFFICES ASSUME NEW c \in DOMAIN up PROVE c \notin Above(v, v[c])
    BY <1>1 DEF Acyclic
  <2>1. CASE c = id
    BY <1>1, <1>2, <2>1
  <2>2. CASE c # id /\ id \notin Above(up, up[c])
    BY <1>1, <1>2, <2>2 DEF Tree, Acyclic
  <2>3. CASE c # id /\ id \in Above(up, up[c])
    <3>1. id \in Above(up, c)
      BY <2>3, AboveStep
    <3>2. c \notin Above(up, q)
      BY <3>1, AboveWithin
    <3>3. c \notin Above(up, up[c])
      BY DEF Tree, Acyclic
    <3> QED
      BY <1>1, <1>3, <2>3, <3>2, <3>3
  <2> QED
    BY <2>1, <2>2, <2>3
<1>5. Tree(v)
  BY <1>1, <1>4 DEF Tree
<1> QED
  BY <1>2, <1>3, <1>5

-----------------------------------------------------------------------------
(* The subtree of a category, and the links of a set of categories.        *)

Sub(up, a) == {c \in DOMAIN up : a \in Above(up, c)}
Held(h, S) == {l \in DOMAIN h : h[l] \in S}

CatsUnder(up, a) == Cardinality(Sub(up, a))
LinksUnder(up, h, a) == Cardinality(Held(h, Sub(up, a)))

LEMMA UnderType ==
    ASSUME NEW up, IsFiniteSet(DOMAIN up), NEW h, IsFiniteSet(DOMAIN h)
    PROVE  /\ \A a : IsFiniteSet(Sub(up, a)) /\ CatsUnder(up, a) \in Nat
           /\ \A S : IsFiniteSet(Held(h, S)) /\ Cardinality(Held(h, S)) \in Nat
           /\ \A a : LinksUnder(up, h, a) \in Nat
           /\ \A a \in DOMAIN up : a \in Sub(up, a) /\ CatsUnder(up, a) >= 1
<1>1. \A a : IsFiniteSet(Sub(up, a)) /\ CatsUnder(up, a) \in Nat
  <2>1. \A a : Sub(up, a) \subseteq DOMAIN up
    BY DEF Sub
  <2> QED
    BY <2>1, FS_Subset, FS_CardinalityType DEF CatsUnder
<1>2. \A S : IsFiniteSet(Held(h, S)) /\ Cardinality(Held(h, S)) \in Nat
  <2>1. \A S : Held(h, S) \subseteq DOMAIN h
    BY DEF Held
  <2> QED
    BY <2>1, FS_Subset, FS_CardinalityType
<1>3. ASSUME NEW a \in DOMAIN up PROVE a \in Sub(up, a) /\ CatsUnder(up, a) >= 1
  <2>1. a \in Sub(up, a)
    BY AboveType DEF Sub
  <2>2. CatsUnder(up, a) # 0
    BY <1>1, <2>1, FS_EmptySet DEF CatsUnder
  <2> QED
    BY <1>1, <2>1, <2>2
<1> QED
  BY <1>1, <1>2, <1>3 DEF LinksUnder

(* A set without a part of it, and with a set apart from it.               *)
LEMMA HeldWithout ==
    ASSUME NEW h, IsFiniteSet(DOMAIN h), NEW X, IsFiniteSet(X), NEW S, S \subseteq X
    PROVE  /\ Cardinality(X \ S) = Cardinality(X) - Cardinality(S)
           /\ Cardinality(Held(h, X \ S)) = Cardinality(Held(h, X)) - Cardinality(Held(h, S))
<1>1. X \cap S = S /\ Held(h, X) \cap Held(h, S) = Held(h, S)
      /\ Held(h, X \ S) = Held(h, X) \ Held(h, S)
  BY DEF Held
<1>2. IsFiniteSet(Held(h, X))
  BY FS_Subset DEF Held
<1>3. /\ Cardinality(X \ S) = Cardinality(X) - Cardinality(X \cap S)
      /\ Cardinality(Held(h, X) \ Held(h, S)) =
            Cardinality(Held(h, X)) - Cardinality(Held(h, X) \cap Held(h, S))
  BY <1>2, FS_Difference
<1> QED
  BY <1>1, <1>3

LEMMA HeldUnion ==
    ASSUME NEW h, IsFiniteSet(DOMAIN h), NEW X, IsFiniteSet(X), NEW S, IsFiniteSet(S),
           X \cap S = {}
    PROVE  /\ Cardinality(X \cup S) = Cardinality(X) + Cardinality(S)
           /\ Cardinality(Held(h, X \cup S)) = Cardinality(Held(h, X)) + Cardinality(Held(h, S))
<1>1. Held(h, X) \cap Held(h, S) = {} /\ Held(h, X \cup S) = Held(h, X) \cup Held(h, S)
  BY DEF Held
<1>2. IsFiniteSet(Held(h, X)) /\ IsFiniteSet(Held(h, S))
  BY FS_Subset DEF Held
<1>3. Cardinality(X \cap S) = 0 /\ Cardinality(Held(h, X) \cap Held(h, S)) = 0
  BY <1>1, FS_EmptySet
<1>4. /\ Cardinality(X) \in Nat /\ Cardinality(S) \in Nat
      /\ Cardinality(Held(h, X)) \in Nat /\ Cardinality(Held(h, S)) \in Nat
  BY <1>2, FS_CardinalityType
<1>5. /\ Cardinality(X \cup S) = Cardinality(X) + Cardinality(S) - Cardinality(X \cap S)
      /\ Cardinality(Held(h, X) \cup Held(h, S)) =
            Cardinality(Held(h, X)) + Cardinality(Held(h, S))
              - Cardinality(Held(h, X) \cap Held(h, S))
  BY <1>2, FS_Union
<1>6. Cardinality(X \cup S) = Cardinality(X) + Cardinality(S)
  BY <1>3, <1>4, <1>5
<1>7. Cardinality(Held(h, X) \cup Held(h, S)) =
        Cardinality(Held(h, X)) + Cardinality(Held(h, S))
  BY <1>3, <1>4, <1>5
<1> QED
  BY <1>1, <1>6, <1>7

-----------------------------------------------------------------------------
(* What each write does to the numbers of a subtree.                       *)

LEMMA UnderAdded ==
    ASSUME NEW up, Tree(up), NEW n \in Category, n \notin DOMAIN up,
           NEW p \in DOMAIN up \cup {Root}, NEW v, v = With(up, n, p),
           NEW h, IsFiniteSet(DOMAIN h), \A l \in DOMAIN h : h[l] # n
    PROVE  /\ \A a \in DOMAIN up :
                 /\ CatsUnder(v, a) = CatsUnder(up, a) + (IF a \in Above(up, p) THEN 1 ELSE 0)
                 /\ LinksUnder(v, h, a) = LinksUnder(up, h, a)
           /\ CatsUnder(v, n) = 1
           /\ LinksUnder(v, h, n) = 0
<1>1. /\ DOMAIN v = DOMAIN up \cup {n}
      /\ \A c \in DOMAIN up : Above(v, c) = Above(up, c)
      /\ Above(v, n) = {n} \cup Above(up, p)
  BY AboveAdded DEF With
<1>2. ASSUME NEW a \in DOMAIN up
      PROVE  /\ CatsUnder(v, a) = CatsUnder(up, a) + (IF a \in Above(up, p) THEN 1 ELSE 0)
             /\ LinksUnder(v, h, a) = LinksUnder(up, h, a)
  <2>1. Sub(v, a) = Sub(up, a) \cup (IF a \in Above(up, p) THEN {n} ELSE {})
    BY <1>1 DEF Sub
  <2>2. Held(h, Sub(v, a)) = Held(h, Sub(up, a))
    BY <2>1 DEF Held
  <2>3. n \notin Sub(up, a) /\ IsFiniteSet(Sub(up, a)) /\ CatsUnder(up, a) \in Nat
    BY TreeFinite, UnderType DEF Sub
  <2>4. CASE a \in Above(up, p)
    BY <2>1, <2>2, <2>3, <2>4, FS_AddElement DEF CatsUnder, LinksUnder
  <2>5. CASE a \notin Above(up, p)
    <3>1. Sub(v, a) = Sub(up, a)
      BY <2>1, <2>5
    <3> QED
      BY <2>2, <2>3, <2>5, <3>1 DEF CatsUnder, LinksUnder
  <2> QED
    BY <2>4, <2>5
<1>3. Sub(v, n) = {n} /\ Held(h, Sub(v, n)) = {}
  <2>1. \A c \in DOMAIN up : n \notin Above(up, c)
    BY AboveType
  <2>2. Sub(v, n) = {n}
    BY <1>1, <2>1 DEF Sub
  <2> QED
    BY <2>2 DEF Held
<1> QED
  BY <1>2, <1>3, FS_Singleton, FS_EmptySet DEF CatsUnder, LinksUnder

LEMMA UnderRemoved ==
    ASSUME NEW up, Tree(up), NEW d \in DOMAIN up, \A c \in DOMAIN up : up[c] # d,
           NEW v, v = Without(up, d),
           NEW h, IsFiniteSet(DOMAIN h), \A l \in DOMAIN h : h[l] # d
    PROVE  /\ \A a \in DOMAIN v :
                 /\ CatsUnder(v, a) = CatsUnder(up, a) - (IF a \in Above(up, up[d]) THEN 1 ELSE 0)
                 /\ a \in Above(up, up[d]) => CatsUnder(up, a) >= 2
                 /\ LinksUnder(v, h, a) = LinksUnder(up, h, a)
           /\ LinksUnder(up, h, d) = 0
<1>1. /\ DOMAIN v = DOMAIN up \ {d}
      /\ \A c \in DOMAIN v : Above(v, c) = Above(up, c) /\ d \notin Above(up, c)
      /\ Above(up, d) = {d} \cup Above(up, up[d])
  BY AboveRemoved, AboveStep DEF Without
<1>2. ASSUME NEW a \in DOMAIN v
      PROVE  /\ CatsUnder(v, a) = CatsUnder(up, a) - (IF a \in Above(up, up[d]) THEN 1 ELSE 0)
             /\ a \in Above(up, up[d]) => CatsUnder(up, a) >= 2
             /\ LinksUnder(v, h, a) = LinksUnder(up, h, a)
  <2>1. Sub(up, a) = Sub(v, a) \cup (IF a \in Above(up, up[d]) THEN {d} ELSE {})
    BY <1>1 DEF Sub
  <2>2. Held(h, Sub(v, a)) = Held(h, Sub(up, a))
    BY <2>1 DEF Held
  <2>3. d \notin Sub(v, a)
    BY <1>1 DEF Sub
  <2>4. IsFiniteSet(DOMAIN v)
    BY <1>1, TreeFinite, FS_Subset
  <2>5. IsFiniteSet(Sub(v, a)) /\ CatsUnder(v, a) \in Nat /\ CatsUnder(v, a) >= 1
    BY <2>4, UnderType
  <2>6. CASE a \in Above(up, up[d])
    <3>1. Cardinality(Sub(v, a) \cup {d}) = Cardinality(Sub(v, a)) + 1
      BY <2>3, <2>5, FS_AddElement
    <3>2. Sub(up, a) = Sub(v, a) \cup {d}
      BY <2>1, <2>6
    <3> QED
      BY <2>2, <2>5, <2>6, <3>1, <3>2 DEF CatsUnder, LinksUnder
  <2>7. CASE a \notin Above(up, up[d])
    <3>1. Sub(v, a) = Sub(up, a)
      BY <2>1, <2>7
    <3> QED
      BY <2>2, <2>5, <2>7, <3>1 DEF CatsUnder, LinksUnder
  <2> QED
    BY <2>6, <2>7
<1>3. Held(h, Sub(up, d)) = {}
  <2>1. Sub(up, d) = {d}
    BY <1>1 DEF Sub
  <2> QED
    BY <2>1 DEF Held
<1> QED
  BY <1>2, <1>3, FS_EmptySet DEF LinksUnder

(* The old ancestors lose what is under the category, the new ones gain    *)
(* it; an old ancestor has all of it, and itself besides.                  *)
LEMMA UnderMoved ==
    ASSUME NEW up, Tree(up), NEW id \in DOMAIN up, NEW q \in DOMAIN up \cup {Root},
           id \notin Above(up, q), NEW v, v = With(up, id, q),
           NEW h, IsFiniteSet(DOMAIN h), NEW a \in DOMAIN up
    PROVE  /\ CatsUnder(v, a) = CatsUnder(up, a)
                 - (IF a \in Above(up, up[id]) THEN CatsUnder(up, id) ELSE 0)
                 + (IF a \in Above(up, q) THEN CatsUnder(up, id) ELSE 0)
           /\ LinksUnder(v, h, a) = LinksUnder(up, h, a)
                 - (IF a \in Above(up, up[id]) THEN LinksUnder(up, h, id) ELSE 0)
                 + (IF a \in Above(up, q) THEN LinksUnder(up, h, id) ELSE 0)
           /\ a \in Above(up, up[id]) => /\ CatsUnder(up, a) - 1 >= CatsUnder(up, id)
                                         /\ LinksUnder(up, h, a) >= LinksUnder(up, h, id)
<1> DEFINE S == Sub(up, id)
           A == Sub(up, a)
           Kept == IF a \in Above(up, up[id]) THEN A \ S ELSE A
           Gained == IF a \in Above(up, q) THEN S ELSE {}
<1>1. /\ DOMAIN v = DOMAIN up
      /\ \A c : id \notin Above(up, c) => Above(v, c) = Above(up, c)
      /\ \A c : id \in Above(up, c) =>
            Above(v, c) = {x \in Above(up, c) : id \in Above(up, x)} \cup Above(up, q)
  BY AboveMoved DEF With
<1>2. IsFiniteSet(DOMAIN up) /\ id \notin Above(up, up[id])
  BY TreeFinite DEF Tree, Acyclic
<1>3. \A c : id \in Above(up, c) =>
          Above(up, c) = {x \in Above(up, c) : id \in Above(up, x)} \cup Above(up, up[id])
  BY AboveThrough
<1>4. /\ a \in Above(up, q) => id \notin Above(up, a)
      /\ a \in Above(up, up[id]) => id \notin Above(up, a)
  BY <1>2, AboveWithin
<1>5. Sub(v, a) = Kept \cup Gained
  BY <1>1, <1>3, <1>4 DEF Sub
<1>6. Kept \cap Gained = {}
  BY <1>3, <1>4 DEF Sub
<1>7. a \in Above(up, up[id]) => S \subseteq A \ {a}
  BY <1>3, <1>4 DEF Sub
<1>8. /\ IsFiniteSet(S) /\ IsFiniteSet(A) /\ a \in A
      /\ Cardinality(S) \in Nat /\ Cardinality(A) \in Nat
      /\ Cardinality(Held(h, S)) \in Nat /\ Cardinality(Held(h, A)) \in Nat
  BY <1>2, UnderType DEF CatsUnder
<1>9. IsFiniteSet(Kept) /\ IsFiniteSet(Gained)
  BY <1>8, FS_Subset, FS_EmptySet
<1>10. /\ Cardinality(Kept) = Cardinality(A)
              - (IF a \in Above(up, up[id]) THEN Cardinality(S) ELSE 0)
       /\ Cardinality(Held(h, Kept)) = Cardinality(Held(h, A))
              - (IF a \in Above(up, up[id]) THEN Cardinality(Held(h, S)) ELSE 0)
  <2>1. CASE a \in Above(up, up[id])
    <3>1. S \subseteq A /\ Kept = A \ S
      BY <1>7, <2>1
    <3> HIDE DEF S, A, Kept
    <3> QED
      BY <1>8, <2>1, <3>1, HeldWithout
  <2>2. CASE a \notin Above(up, up[id])
    <3>1. Kept = A
      BY <2>2
    <3> HIDE DEF S, A, Kept
    <3> QED
      BY <1>8, <2>2, <3>1
  <2> QED
    BY <2>1, <2>2
<1>11. /\ Cardinality(Gained) = IF a \in Above(up, q) THEN Cardinality(S) ELSE 0
       /\ Cardinality(Held(h, Gained)) = IF a \in Above(up, q) THEN Cardinality(Held(h, S)) ELSE 0
  <2>1. Held(h, {}) = {}
    BY DEF Held
  <2> QED
    BY <2>1, FS_EmptySet
<1>12. /\ Cardinality(Kept \cup Gained) = Cardinality(Kept) + Cardinality(Gained)
       /\ Cardinality(Held(h, Kept \cup Gained)) =
             Cardinality(Held(h, Kept)) + Cardinality(Held(h, Gained))
  <2> HIDE DEF Kept, Gained
  <2> QED
    BY <1>6, <1>9, HeldUnion
<1>13. ASSUME a \in Above(up, up[id])
       PROVE  /\ Cardinality(A) - 1 >= Cardinality(S)
              /\ Cardinality(Held(h, A)) >= Cardinality(Held(h, S))
  <2>1. Held(h, S) \subseteq Held(h, A) /\ IsFiniteSet(Held(h, A))
    BY <1>2, <1>7, <1>13, UnderType DEF Held
  <2>2. Cardinality(A \ {a}) = Cardinality(A) - 1 /\ IsFiniteSet(A \ {a})
    BY <1>8, FS_RemoveElement
  <2> QED
    BY <1>7, <1>13, <2>1, <2>2, FS_Subset
<1> HIDE DEF S, A, Kept, Gained
<1>14. /\ CatsUnder(v, a) = Cardinality(Kept \cup Gained)
       /\ LinksUnder(v, h, a) = Cardinality(Held(h, Kept \cup Gained))
       /\ CatsUnder(up, a) = Cardinality(A) /\ LinksUnder(up, h, a) = Cardinality(Held(h, A))
       /\ CatsUnder(up, id) = Cardinality(S) /\ LinksUnder(up, h, id) = Cardinality(Held(h, S))
  BY <1>5 DEF CatsUnder, LinksUnder, A, S
<1> QED
  BY <1>8, <1>10, <1>11, <1>12, <1>13, <1>14

(* Links that come, go and move.                                           *)
LEMMA LinksUnderAdded ==
    ASSUME NEW up, NEW h, IsFiniteSet(DOMAIN h), NEW l, l \notin DOMAIN h,
           NEW in \in DOMAIN up \cup {Root}, Root \notin DOMAIN up, NEW a
    PROVE  LinksUnder(up, With(h, l, in), a) =
             LinksUnder(up, h, a) + (IF a \in Above(up, in) THEN 1 ELSE 0)
<1>1. a \in Above(up, in) => in \in Sub(up, a)
  BY AboveNone DEF Sub
<1>2. Held(With(h, l, in), Sub(up, a)) =
        Held(h, Sub(up, a)) \cup (IF a \in Above(up, in) THEN {l} ELSE {})
  BY <1>1 DEF Held, With, Sub
<1>3. l \notin Held(h, Sub(up, a)) /\ IsFiniteSet(Held(h, Sub(up, a)))
      /\ Cardinality(Held(h, Sub(up, a))) \in Nat
  BY FS_Subset, FS_CardinalityType DEF Held
<1>4. CASE a \in Above(up, in)
  BY <1>2, <1>3, <1>4, FS_AddElement DEF LinksUnder
<1>5. CASE a \notin Above(up, in)
  <2>1. Held(With(h, l, in), Sub(up, a)) = Held(h, Sub(up, a))
    BY <1>2, <1>5
  <2> QED
    BY <1>3, <1>5, <2>1 DEF LinksUnder
<1> QED
  BY <1>4, <1>5

LEMMA LinksUnderRemoved ==
    ASSUME NEW up, NEW h, IsFiniteSet(DOMAIN h), NEW l \in DOMAIN h,
           h[l] \in DOMAIN up \cup {Root}, Root \notin DOMAIN up, NEW a
    PROVE  /\ LinksUnder(up, Without(h, l), a) =
                LinksUnder(up, h, a) - (IF a \in Above(up, h[l]) THEN 1 ELSE 0)
           /\ a \in Above(up, h[l]) => LinksUnder(up, h, a) >= 1
<1>1. a \in Above(up, h[l]) => h[l] \in Sub(up, a)
  BY AboveNone DEF Sub
<1>2. Held(Without(h, l), Sub(up, a)) =
        Held(h, Sub(up, a)) \ (IF a \in Above(up, h[l]) THEN {l} ELSE {})
  BY <1>1 DEF Held, Without, Sub
<1>3. /\ a \in Above(up, h[l]) => l \in Held(h, Sub(up, a))
      /\ IsFiniteSet(Held(h, Sub(up, a))) /\ Cardinality(Held(h, Sub(up, a))) \in Nat
  BY <1>1, FS_Subset, FS_CardinalityType DEF Held
<1>4. CASE a \in Above(up, h[l])
  <2>1. Held(Without(h, l), Sub(up, a)) = Held(h, Sub(up, a)) \ {l}
    BY <1>2, <1>4
  <2>2. Cardinality(Held(h, Sub(up, a))) # 0
    BY <1>3, <1>4, FS_EmptySet
  <2>3. Cardinality(Held(h, Sub(up, a)) \ {l}) = Cardinality(Held(h, Sub(up, a))) - 1
    BY <1>3, <1>4, FS_RemoveElement
  <2> QED
    BY <1>3, <1>4, <2>1, <2>2, <2>3 DEF LinksUnder
<1>5. CASE a \notin Above(up, h[l])
  <2>1. Held(Without(h, l), Sub(up, a)) = Held(h, Sub(up, a))
    BY <1>2, <1>5
  <2> QED
    BY <1>3, <1>5, <2>1 DEF LinksUnder
<1> QED
  BY <1>4, <1>5

-----------------------------------------------------------------------------
(* The counts of a subtree.                                                *)

BelowOK ==
    \A a \in Cats : /\ counts[a].linksBelow = LinksUnder(parent, home, a)
                    /\ counts[a].childrenBelow = CatsUnder(parent, a) - 1

(* The parents have no cycle; and while no category has been too deep, no  *)
(* walk is cut and the subtree counts are exact.                           *)
TreeInv ==
    /\ IInv
    /\ Acyclic(parent)
    /\ deep \in Nat
    /\ deep = 0 => ~TooDeep(parent) /\ BelowOK

(* What the invariant says of the state before a write.                    *)
LEMMA TreeOpened ==
    ASSUME TreeInv
    PROVE  /\ Tree(parent) /\ IsFiniteSet(DOMAIN parent) /\ IsFiniteSet(DOMAIN home)
           /\ Root \notin DOMAIN parent /\ DOMAIN counts = DOMAIN parent
           /\ \A c \in DOMAIN parent : parent[c] \in DOMAIN parent \cup {Root}
           /\ \A l \in DOMAIN home : home[l] \in DOMAIN parent \cup {Root}
           /\ nextCat # Root /\ nextCat \notin DOMAIN parent /\ nextLink \notin DOMAIN home
<1>1. Forest
  BY DEF TreeInv, IInv
<1>2. DOMAIN parent \subseteq Category
  BY <1>1, CountsAssumption DEF Forest, Cats, Category
<1> QED
  BY <1>1, <1>2, Finite DEF TreeInv, IInv, Forest, Tree, Cats, Links

(* And of what it says of the next one, all but the counts is known.       *)
LEMMA WriteKeeps ==
    ASSUME TreeInv, IInv', Acyclic(parent'), Write,
           (~TooDeep(parent) /\ BelowOK) => BelowOK'
    PROVE  TreeInv'
<1>1. deep' \in Nat /\ (deep' = 0 => deep = 0 /\ ~TooDeep(parent'))
  BY DEF TreeInv, Write
<1> QED
  BY <1>1 DEF TreeInv, TooDeep, Level, Chain, Acyclic, Above, ClosedUp

(* The columns of a cascade that count what is below.                      *)
LEMMA CascadeBelow ==
    ASSUME NEW cs, NEW ancestors, NEW target, NEW dLinks, NEW dChildren, NEW direct,
           NEW new, new = Cascade(cs, ancestors, target, dLinks, dChildren, direct)
    PROVE  /\ DOMAIN new = DOMAIN cs
           /\ \A c \in DOMAIN cs :
                 /\ new[c].linksBelow = IF c \in ancestors THEN AddDelta(cs[c].linksBelow, dLinks)
                                        ELSE cs[c].linksBelow
                 /\ new[c].childrenBelow = IF c \in ancestors
                                           THEN AddDelta(cs[c].childrenBelow, dChildren)
                                           ELSE cs[c].childrenBelow
BY DEF Cascade

(* Whose walk it is does not matter, if none is cut.                       *)
LEMMA WalkIsWhole ==
    ASSUME TreeInv, ~TooDeep(parent), NEW c \in DOMAIN parent \cup {Root}
    PROVE  Ancestors(c) = Above(parent, c)
BY TreeOpened, ShortChain DEF Ancestors

LEMMA BelowClosed ==
    ASSUME NEW v, v = parent', NEW h, h = home',
           \A a \in DOMAIN v : /\ counts'[a].linksBelow = LinksUnder(v, h, a)
                               /\ counts'[a].childrenBelow = CatsUnder(v, a) - 1
    PROVE  BelowOK'
<1>1. \A a \in DOMAIN parent' : /\ counts'[a].linksBelow = LinksUnder(parent', home', a)
                                 /\ counts'[a].childrenBelow = CatsUnder(parent', a) - 1
  OBVIOUS
<1> QED
  BY <1>1 DEF BelowOK, Cats, LinksUnder, CatsUnder, Sub, Held, Above, ClosedUp

LEMMA CreateCategoryBelow == TreeInv /\ CreateCategory => TreeInv'
<1> SUFFICES ASSUME TreeInv, CreateCategory PROVE TreeInv'
  OBVIOUS
<1>1. PICK under \in DOMAIN parent \cup {Root} :
          /\ parent' = With(parent, nextCat, under)
          /\ counts' = With(Cascade(counts, Ancestors(under), under, 0, 1, Child(1)),
                            nextCat, Zero)
  BY DEF CreateCategory, Cats
<1>2. nextCat \in Category /\ home' = home /\ Write
  BY CountsAssumption DEF CreateCategory, TreeInv, IInv, Forest, Category
<1>3. IInv'
  BY CreateCategoryStep DEF TreeInv
<1>4. Acyclic(parent')
  <2> DEFINE v == parent'
  <2>1. Tree(v)
    <3>1. v = With(parent, nextCat, under)
      BY <1>1
    <3> HIDE DEF v
    <3> QED
      BY <1>2, <3>1, TreeOpened, AboveAdded
  <2> QED
    BY <2>1 DEF Tree
<1>5. ASSUME ~TooDeep(parent), BelowOK PROVE BelowOK'
  <2>1. PICK v : v = With(parent, nextCat, under)
    OBVIOUS
  <2>2. PICK mid : mid = Cascade(counts, Ancestors(under), under, 0, 1, Child(1))
    OBVIOUS
  <2>3. Ancestors(under) = Above(parent, under)
    BY <1>5, WalkIsWhole
  <2>4. /\ \A a \in DOMAIN parent :
              /\ CatsUnder(v, a) =
                   CatsUnder(parent, a) + (IF a \in Above(parent, under) THEN 1 ELSE 0)
              /\ LinksUnder(v, home, a) = LinksUnder(parent, home, a)
        /\ CatsUnder(v, nextCat) = 1
        /\ LinksUnder(v, home, nextCat) = 0
    <3>1. \A l \in DOMAIN home : home[l] # nextCat
      BY TreeOpened
    <3> QED
      BY <1>2, <2>1, <3>1, TreeOpened, UnderAdded
  <2>5. DOMAIN v = DOMAIN parent \cup {nextCat} /\ nextCat \notin DOMAIN parent
    BY <2>1, TreeOpened DEF With
  <2>6. ASSUME NEW a \in DOMAIN v
        PROVE  /\ counts'[a].linksBelow = LinksUnder(v, home, a)
               /\ counts'[a].childrenBelow = CatsUnder(v, a) - 1
    <3>1. CASE a = nextCat
      <4>1. counts'[a] = Zero
        BY <1>1, <3>1 DEF With
      <4> QED
        BY <2>4, <3>1, <4>1 DEF Zero
    <3>2. CASE a \in DOMAIN parent
      <4>1. counts'[a] = mid[a]
        BY <1>1, <2>2, <2>5, <3>2, TreeOpened, CascadeBelow DEF With
      <4>2. /\ mid[a].linksBelow = IF a \in Ancestors(under) THEN AddDelta(counts[a].linksBelow, 0)
                                   ELSE counts[a].linksBelow
            /\ mid[a].childrenBelow = IF a \in Ancestors(under)
                                      THEN AddDelta(counts[a].childrenBelow, 1)
                                      ELSE counts[a].childrenBelow
        BY <2>2, <3>2, TreeOpened, CascadeBelow
      <4>3. /\ counts[a].linksBelow = LinksUnder(parent, home, a)
            /\ counts[a].childrenBelow = CatsUnder(parent, a) - 1
        BY <1>5, <3>2 DEF BelowOK, Cats
      <4>4. LinksUnder(parent, home, a) \in Nat /\ CatsUnder(parent, a) \in Nat
            /\ CatsUnder(parent, a) >= 1
        BY <3>2, TreeOpened, UnderType
      <4> QED
        BY <2>3, <2>4, <3>2, <4>1, <4>2, <4>3, <4>4 DEF AddDelta
    <3> QED
      BY <2>5, <3>1, <3>2
  <2> QED
    BY <1>1, <1>2, <2>1, <2>6, BelowClosed
<1> QED
  BY <1>2, <1>3, <1>4, <1>5, WriteKeeps

LEMMA MoveCategoryBelow == TreeInv /\ MoveCategory => TreeInv'
<1> SUFFICES ASSUME TreeInv, MoveCategory PROVE TreeInv'
  OBVIOUS
<1>1. PICK id \in DOMAIN parent, under \in DOMAIN parent \cup {Root} :
        /\ id \notin Chain(parent, under, MaxCategory)
        /\ parent' = With(parent, id, under)
        /\ counts' =
             Cascade(Cascade(counts, Ancestors(parent[id]), parent[id],
                             -counts[id].linksBelow, -SubtreeChildren(id), Child(-1)),
                     Ancestors(under), under,
                     counts[id].linksBelow, SubtreeChildren(id), Child(1))
  BY DEF MoveCategory, Cats
<1>2. home' = home /\ Write
  BY DEF MoveCategory
<1>3. IInv'
  BY MoveCategoryStep DEF TreeInv
<1>4. id \notin Above(parent, under)
  BY <1>1, TreeOpened, FullChain
<1>5. PICK v : v = With(parent, id, under)
  OBVIOUS
<1>6. Acyclic(parent')
  <2>1. Tree(v)
    BY <1>4, <1>5, TreeOpened, AboveMoved
  <2> QED
    BY <1>1, <1>5, <2>1 DEF Tree
<1>7. ASSUME ~TooDeep(parent), BelowOK PROVE BelowOK'
  <2>1. PICK old : old = parent[id]
    OBVIOUS
  <2>2. PICK links, children : links = LinksUnder(parent, home, id) /\ children = CatsUnder(parent, id)
    OBVIOUS
  <2>3. /\ links \in Nat /\ children \in Nat
        /\ counts[id].linksBelow = links /\ SubtreeChildren(id) = children
    BY <1>7, <2>2, TreeOpened, UnderType DEF BelowOK, Cats, SubtreeChildren
  <2>4. Ancestors(under) = Above(parent, under) /\ Ancestors(old) = Above(parent, old)
    BY <1>7, <2>1, TreeOpened, WalkIsWhole
  <2>5. PICK left : left = Cascade(counts, Above(parent, old), old, -links, -children, Child(-1))
    OBVIOUS
  <2>6. counts' = Cascade(left, Above(parent, under), under, links, children, Child(1))
    BY <1>1, <2>1, <2>3, <2>4, <2>5
  <2>7. DOMAIN v = DOMAIN parent
    BY <1>5 DEF With
  <2>8. ASSUME NEW a \in DOMAIN v
        PROVE  /\ counts'[a].linksBelow = LinksUnder(v, home, a)
               /\ counts'[a].childrenBelow = CatsUnder(v, a) - 1
    <3>1. /\ left[a].linksBelow = IF a \in Above(parent, old)
                                  THEN AddDelta(counts[a].linksBelow, -links)
                                  ELSE counts[a].linksBelow
          /\ left[a].childrenBelow = IF a \in Above(parent, old)
                                     THEN AddDelta(counts[a].childrenBelow, -children)
                                     ELSE counts[a].childrenBelow
          /\ DOMAIN left = DOMAIN parent
      BY <2>5, <2>7, TreeOpened, CascadeBelow
    <3>2. /\ counts'[a].linksBelow = IF a \in Above(parent, under)
                                     THEN AddDelta(left[a].linksBelow, links)
                                     ELSE left[a].linksBelow
          /\ counts'[a].childrenBelow = IF a \in Above(parent, under)
                                        THEN AddDelta(left[a].childrenBelow, children)
                                        ELSE left[a].childrenBelow
      BY <2>6, <2>7, <3>1, CascadeBelow
    <3>3. /\ counts[a].linksBelow = LinksUnder(parent, home, a)
          /\ counts[a].childrenBelow = CatsUnder(parent, a) - 1
      BY <1>7, <2>7 DEF BelowOK, Cats
    <3>4. LinksUnder(parent, home, a) \in Nat /\ CatsUnder(parent, a) \in Nat
          /\ CatsUnder(parent, a) >= 1
      BY <2>7, TreeOpened, UnderType
    <3>5. /\ CatsUnder(v, a) = CatsUnder(parent, a)
                - (IF a \in Above(parent, old) THEN children ELSE 0)
                + (IF a \in Above(parent, under) THEN children ELSE 0)
          /\ LinksUnder(v, home, a) = LinksUnder(parent, home, a)
                - (IF a \in Above(parent, old) THEN links ELSE 0)
                + (IF a \in Above(parent, under) THEN links ELSE 0)
          /\ a \in Above(parent, old) => /\ CatsUnder(parent, a) - 1 >= children
                                         /\ LinksUnder(parent, home, a) >= links
      BY <1>4, <1>5, <2>1, <2>2, <2>7, TreeOpened, UnderMoved
    <3>6. counts'[a].linksBelow = LinksUnder(v, home, a)
      BY <2>3, <3>1, <3>2, <3>3, <3>4, <3>5 DEF AddDelta
    <3>7. counts'[a].childrenBelow = CatsUnder(v, a) - 1
      BY <2>3, <3>1, <3>2, <3>3, <3>4, <3>5 DEF AddDelta
    <3> QED
      BY <3>6, <3>7
  <2> QED
    BY <1>1, <1>2, <1>5, <2>8, BelowClosed
<1> QED
  BY <1>2, <1>3, <1>6, <1>7, WriteKeeps

LEMMA DeleteCategoryBelow == TreeInv /\ DeleteCategory => TreeInv'
<1> SUFFICES ASSUME TreeInv, DeleteCategory PROVE TreeInv'
  OBVIOUS
<1>1. PICK id \in DOMAIN parent :
        /\ \A c \in DOMAIN parent : parent[c] # id
        /\ \A l \in DOMAIN home : home[l] # id
        /\ parent' = Without(parent, id)
        /\ counts' = Cascade(Without(counts, id), Ancestors(parent[id]), parent[id],
                             -counts[id].linksBelow, -1, Child(-1))
  BY DEF DeleteCategory, Cats, Links
<1>2. home' = home /\ Write
  BY DEF DeleteCategory
<1>3. IInv'
  BY DeleteCategoryStep DEF TreeInv
<1>4. PICK v : v = Without(parent, id)
  OBVIOUS
<1>5. Acyclic(parent')
  <2>1. Tree(v)
    BY <1>1, <1>4, TreeOpened, AboveRemoved
  <2> QED
    BY <1>1, <1>4, <2>1 DEF Tree
<1>6. ASSUME ~TooDeep(parent), BelowOK PROVE BelowOK'
  <2>1. PICK old : old = parent[id]
    OBVIOUS
  <2>2. Ancestors(old) = Above(parent, old)
    BY <1>6, <2>1, TreeOpened, WalkIsWhole
  <2>3. /\ \A a \in DOMAIN v :
              /\ CatsUnder(v, a) =
                   CatsUnder(parent, a) - (IF a \in Above(parent, old) THEN 1 ELSE 0)
              /\ a \in Above(parent, old) => CatsUnder(parent, a) >= 2
              /\ LinksUnder(v, home, a) = LinksUnder(parent, home, a)
        /\ LinksUnder(parent, home, id) = 0
    BY <1>1, <1>4, <2>1, TreeOpened, UnderRemoved
  <2>4. counts[id].linksBelow = 0
    BY <1>6, <2>3 DEF BelowOK, Cats
  <2>5. PICK rest : rest = Without(counts, id)
    OBVIOUS
  <2>6. counts' = Cascade(rest, Above(parent, old), old, 0, -1, Child(-1))
    BY <1>1, <2>1, <2>2, <2>4, <2>5
  <2>7. /\ DOMAIN v = DOMAIN parent \ {id} /\ DOMAIN rest = DOMAIN v
        /\ \A a \in DOMAIN v : rest[a] = counts[a]
    BY <1>4, <2>5, TreeOpened DEF Without
  <2>8. ASSUME NEW a \in DOMAIN v
        PROVE  /\ counts'[a].linksBelow = LinksUnder(v, home, a)
               /\ counts'[a].childrenBelow = CatsUnder(v, a) - 1
    <3>1. /\ counts'[a].linksBelow = IF a \in Above(parent, old)
                                     THEN AddDelta(rest[a].linksBelow, 0)
                                     ELSE rest[a].linksBelow
          /\ counts'[a].childrenBelow = IF a \in Above(parent, old)
                                        THEN AddDelta(rest[a].childrenBelow, -1)
                                        ELSE rest[a].childrenBelow
      BY <2>6, <2>7, CascadeBelow
    <3>2. /\ rest[a].linksBelow = LinksUnder(parent, home, a)
          /\ rest[a].childrenBelow = CatsUnder(parent, a) - 1
      BY <1>6, <2>7 DEF BelowOK, Cats
    <3>3. LinksUnder(parent, home, a) \in Nat /\ CatsUnder(parent, a) \in Nat
      BY <2>7, TreeOpened, UnderType
    <3> QED
      BY <2>3, <3>1, <3>2, <3>3 DEF AddDelta
  <2> QED
    BY <1>1, <1>2, <1>4, <2>8, BelowClosed
<1> QED
  BY <1>2, <1>3, <1>5, <1>6, WriteKeeps

-----------------------------------------------------------------------------
(* A link that comes or goes is counted by every category it is under.     *)
LEMMA LinkBelow ==
    ASSUME TreeInv, NEW cs, DOMAIN cs = DOMAIN parent,
           NEW h, IsFiniteSet(DOMAIN h),
           \A a \in DOMAIN parent : /\ cs[a].linksBelow = LinksUnder(parent, h, a)
                                    /\ cs[a].childrenBelow = CatsUnder(parent, a) - 1,
           NEW target, NEW by \in {-1, 1}, NEW next, IsFiniteSet(DOMAIN next),
           \A a \in DOMAIN parent : LinksUnder(parent, next, a) = LinksUnder(parent, h, a)
               + (IF a \in Above(parent, target) THEN by ELSE 0),
           NEW new, new = Cascade(cs, Above(parent, target), target, by, 0, Link(by))
    PROVE  /\ DOMAIN new = DOMAIN parent
           /\ \A a \in DOMAIN parent : /\ new[a].linksBelow = LinksUnder(parent, next, a)
                                       /\ new[a].childrenBelow = CatsUnder(parent, a) - 1
<1>1. DOMAIN new = DOMAIN parent
  BY CascadeBelow
<1>2. ASSUME NEW a \in DOMAIN parent
      PROVE  /\ new[a].linksBelow = LinksUnder(parent, next, a)
             /\ new[a].childrenBelow = CatsUnder(parent, a) - 1
  <2>1. /\ new[a].linksBelow = IF a \in Above(parent, target) THEN AddDelta(cs[a].linksBelow, by)
                               ELSE cs[a].linksBelow
        /\ new[a].childrenBelow = IF a \in Above(parent, target)
                                  THEN AddDelta(cs[a].childrenBelow, 0)
                                  ELSE cs[a].childrenBelow
    BY CascadeBelow
  <2>2. /\ LinksUnder(parent, h, a) \in Nat /\ LinksUnder(parent, next, a) \in Nat
        /\ CatsUnder(parent, a) \in Nat /\ CatsUnder(parent, a) >= 1
    BY TreeOpened, UnderType
  <2> QED
    BY <2>1, <2>2 DEF AddDelta
<1> QED
  BY <1>1, <1>2

LEMMA CreateLinkBelow == TreeInv /\ CreateLink => TreeInv'
<1> SUFFICES ASSUME TreeInv, CreateLink PROVE TreeInv'
  OBVIOUS
<1>1. PICK in \in DOMAIN parent \cup {Root} :
        /\ home' = With(home, nextLink, in)
        /\ counts' = Cascade(counts, Ancestors(in), in, 1, 0, Link(1))
  BY DEF CreateLink, Cats
<1>2. parent' = parent /\ Write
  BY DEF CreateLink
<1>3. IInv'
  BY CreateLinkStep DEF TreeInv
<1>4. ASSUME ~TooDeep(parent), BelowOK PROVE BelowOK'
  <2>1. PICK next : next = With(home, nextLink, in)
    OBVIOUS
  <2>2. PICK new : new = Cascade(counts, Above(parent, in), in, 1, 0, Link(1))
    OBVIOUS
  <2>3. counts' = new
    BY <1>1, <1>4, <2>2, WalkIsWhole
  <2>4. IsFiniteSet(DOMAIN next)
    BY <2>1, TreeOpened, FS_AddElement DEF With
  <2>5. \A a \in DOMAIN parent : LinksUnder(parent, next, a) = LinksUnder(parent, home, a)
            + (IF a \in Above(parent, in) THEN 1 ELSE 0)
    BY <2>1, TreeOpened, LinksUnderAdded
  <2>6. \A a \in DOMAIN parent : /\ counts[a].linksBelow = LinksUnder(parent, home, a)
                                 /\ counts[a].childrenBelow = CatsUnder(parent, a) - 1
    BY <1>4 DEF BelowOK, Cats
  <2>7. \A a \in DOMAIN parent : /\ new[a].linksBelow = LinksUnder(parent, next, a)
                                 /\ new[a].childrenBelow = CatsUnder(parent, a) - 1
    <3>1. DOMAIN counts = DOMAIN parent /\ IsFiniteSet(DOMAIN home)
      BY TreeOpened
    <3> QED
      BY <2>2, <2>4, <2>5, <2>6, <3>1, LinkBelow
  <2> QED
    BY <1>1, <1>2, <2>1, <2>3, <2>7, BelowClosed
<1> QED
  BY <1>2, <1>3, <1>4, WriteKeeps DEF TreeInv

LEMMA DeleteLinkBelow == TreeInv /\ DeleteLink => TreeInv'
<1> SUFFICES ASSUME TreeInv, DeleteLink PROVE TreeInv'
  OBVIOUS
<1>1. PICK link \in DOMAIN home :
        /\ home' = Without(home, link)
        /\ counts' = Cascade(counts, Ancestors(home[link]), home[link], -1, 0, Link(-1))
  BY DEF DeleteLink, Links
<1>2. parent' = parent /\ Write
  BY DEF DeleteLink
<1>3. IInv'
  BY DeleteLinkStep DEF TreeInv
<1>4. ASSUME ~TooDeep(parent), BelowOK PROVE BelowOK'
  <2>1. PICK next : next = Without(home, link)
    OBVIOUS
  <2>2. PICK old : old = home[link]
    OBVIOUS
  <2>3. PICK new : new = Cascade(counts, Above(parent, old), old, -1, 0, Link(-1))
    OBVIOUS
  <2>4. counts' = new
    BY <1>1, <1>4, <2>2, <2>3, TreeOpened, WalkIsWhole
  <2>5. IsFiniteSet(DOMAIN next)
    BY <2>1, TreeOpened, FS_RemoveElement DEF Without
  <2>6. \A a \in DOMAIN parent : LinksUnder(parent, next, a) = LinksUnder(parent, home, a)
            + (IF a \in Above(parent, old) THEN -1 ELSE 0)
    <3> TAKE a \in DOMAIN parent
    <3>1. LinksUnder(parent, next, a) = LinksUnder(parent, home, a)
            - (IF a \in Above(parent, old) THEN 1 ELSE 0)
      BY <2>1, <2>2, TreeOpened, LinksUnderRemoved
    <3>2. LinksUnder(parent, home, a) \in Nat
      BY TreeOpened, UnderType
    <3> QED
      BY <3>1, <3>2
  <2>7. \A a \in DOMAIN parent : /\ counts[a].linksBelow = LinksUnder(parent, home, a)
                                 /\ counts[a].childrenBelow = CatsUnder(parent, a) - 1
    BY <1>4 DEF BelowOK, Cats
  <2>8. \A a \in DOMAIN parent : /\ new[a].linksBelow = LinksUnder(parent, next, a)
                                 /\ new[a].childrenBelow = CatsUnder(parent, a) - 1
    BY <2>3, <2>5, <2>6, <2>7, TreeOpened, LinkBelow
  <2> QED
    BY <1>1, <1>2, <2>1, <2>4, <2>8, BelowClosed
<1> QED
  BY <1>2, <1>3, <1>4, WriteKeeps DEF TreeInv

(* A link that moves goes from its old ancestors and comes to its new ones. *)
LEMMA MoveLinkBelow == TreeInv /\ MoveLink => TreeInv'
<1> SUFFICES ASSUME TreeInv, MoveLink PROVE TreeInv'
  OBVIOUS
<1>1. PICK link \in DOMAIN home, to \in DOMAIN parent :
        /\ home' = With(home, link, to)
        /\ counts' = Cascade(Cascade(counts, Ancestors(home[link]), home[link], -1, 0, Link(-1)),
                             Ancestors(to), to, 1, 0, Link(1))
  BY DEF MoveLink, Links, Cats
<1>2. parent' = parent /\ Write
  BY DEF MoveLink
<1>3. IInv'
  BY MoveLinkStep DEF TreeInv
<1>4. ASSUME ~TooDeep(parent), BelowOK PROVE BelowOK'
  <2>1. PICK gone : gone = Without(home, link)
    OBVIOUS
  <2>2. PICK next : next = With(gone, link, to)
    OBVIOUS
  <2>3. home' = next
    BY <1>1, <2>1, <2>2 DEF With, Without
  <2>4. PICK old : old = home[link]
    OBVIOUS
  <2>5. PICK left : left = Cascade(counts, Above(parent, old), old, -1, 0, Link(-1))
    OBVIOUS
  <2>6. PICK new : new = Cascade(left, Above(parent, to), to, 1, 0, Link(1))
    OBVIOUS
  <2>7. counts' = new
    BY <1>1, <1>4, <2>4, <2>5, <2>6, TreeOpened, WalkIsWhole
  <2>8. /\ IsFiniteSet(DOMAIN gone) /\ link \notin DOMAIN gone
    BY <2>1, TreeOpened, FS_RemoveElement DEF Without
  <2>9. IsFiniteSet(DOMAIN next)
    BY <2>2, <2>8, FS_AddElement DEF With
  <2>10. \A a \in DOMAIN parent : LinksUnder(parent, gone, a) = LinksUnder(parent, home, a)
             + (IF a \in Above(parent, old) THEN -1 ELSE 0)
    <3> TAKE a \in DOMAIN parent
    <3>1. LinksUnder(parent, gone, a) = LinksUnder(parent, home, a)
            - (IF a \in Above(parent, old) THEN 1 ELSE 0)
      BY <2>1, <2>4, TreeOpened, LinksUnderRemoved
    <3>2. LinksUnder(parent, home, a) \in Nat
      BY TreeOpened, UnderType
    <3> QED
      BY <3>1, <3>2
  <2>11. \A a \in DOMAIN parent : LinksUnder(parent, next, a) = LinksUnder(parent, gone, a)
             + (IF a \in Above(parent, to) THEN 1 ELSE 0)
    BY <2>2, <2>8, TreeOpened, LinksUnderAdded
  <2>12. \A a \in DOMAIN parent : /\ counts[a].linksBelow = LinksUnder(parent, home, a)
                                  /\ counts[a].childrenBelow = CatsUnder(parent, a) - 1
    BY <1>4 DEF BelowOK, Cats
  <2>13. /\ DOMAIN left = DOMAIN parent
         /\ \A a \in DOMAIN parent : /\ left[a].linksBelow = LinksUnder(parent, gone, a)
                                     /\ left[a].childrenBelow = CatsUnder(parent, a) - 1
    BY <2>5, <2>8, <2>10, <2>12, TreeOpened, LinkBelow
  <2>14. \A a \in DOMAIN parent : /\ new[a].linksBelow = LinksUnder(parent, next, a)
                                  /\ new[a].childrenBelow = CatsUnder(parent, a) - 1
    BY <2>6, <2>8, <2>9, <2>11, <2>13, LinkBelow
  <2> QED
    BY <1>2, <2>3, <2>7, <2>14, BelowClosed
<1> QED
  BY <1>2, <1>3, <1>4, WriteKeeps DEF TreeInv

-----------------------------------------------------------------------------
(* What a recount adds up.                                                 *)

SumOfLinks(agg, S) == MapThenSumSet(LAMBDA c : agg[c].links, S)
SumOfChildren(agg, S) == MapThenSumSet(LAMBDA c : 1 + agg[c].children, S)

IsAggregate(agg) ==
    agg = [id \in Cats |-> [links |-> DirectLinks(id) + SumOfLinks(agg, ChildrenOf(id)),
                            children |-> SumOfChildren(agg, ChildrenOf(id))]]

LEMMA AggregateIs ==
    ASSUME \E agg : IsAggregate(agg)
    PROVE  IsAggregate(Aggregate)
<1> DEFINE agg == CHOOSE a : IsAggregate(a)
<1>1. IsAggregate(agg)
  OBVIOUS
<1>2. Aggregate = agg
  BY DEF Aggregate, IsAggregate, SumOfLinks, SumOfChildren, MapThenSumSet, MapThenFoldSet
<1> QED
  BY <1>1, <1>2

(* A fold of f over the subsets of S.                                      *)
IsFold(iter, f, S) ==
    iter = [s \in SUBSET S |->
               IF s = {} THEN 0
               ELSE f[CHOOSE x \in s : TRUE] + iter[s \ {CHOOSE x \in s : TRUE}]]

LEMMA LinksFold ==
    ASSUME NEW agg, NEW S, NEW f, f = [c \in S |-> agg[c].links],
           \E iter : IsFold(iter, f, S)
    PROVE  \E iter : IsFold(iter, f, S) /\ SumOfLinks(agg, S) = iter[S]
<1> DEFINE Body(iter, s) == IF s = {} THEN 0
                            ELSE agg[CHOOSE x \in s : TRUE].links
                                   + iter[s \ {CHOOSE x \in s : TRUE}]
           Fold(iter) == iter = [s \in SUBSET S |-> Body(iter, s)]
           it == CHOOSE iter : Fold(iter)
<1>1. \A iter : IsFold(iter, f, S) <=> Fold(iter)
  <2> TAKE iter
  <2>1. \A s \in SUBSET S : s # {} => f[CHOOSE x \in s : TRUE] = agg[CHOOSE x \in s : TRUE].links
    OBVIOUS
  <2>2. [s \in SUBSET S |-> Body(iter, s)] =
          [s \in SUBSET S |-> IF s = {} THEN 0
               ELSE f[CHOOSE x \in s : TRUE] + iter[s \ {CHOOSE x \in s : TRUE}]]
    BY <2>1
  <2> QED
    BY <2>2 DEF IsFold
<1>2. Fold(it)
  <2> HIDE DEF Fold
  <2>1. \E iter : Fold(iter)
    BY <1>1
  <2> QED
    BY <2>1
<1>3. SumOfLinks(agg, S) = it[S]
  BY DEF SumOfLinks, MapThenSumSet, MapThenFoldSet
<1> QED
  BY <1>1, <1>2, <1>3

LEMMA ChildrenFold ==
    ASSUME NEW agg, NEW S, NEW f, f = [c \in S |-> 1 + agg[c].children],
           \E iter : IsFold(iter, f, S)
    PROVE  \E iter : IsFold(iter, f, S) /\ SumOfChildren(agg, S) = iter[S]
<1> DEFINE Body(iter, s) == IF s = {} THEN 0
                            ELSE 1 + agg[CHOOSE x \in s : TRUE].children
                                   + iter[s \ {CHOOSE x \in s : TRUE}]
           Fold(iter) == iter = [s \in SUBSET S |-> Body(iter, s)]
           it == CHOOSE iter : Fold(iter)
<1>1. \A iter : IsFold(iter, f, S) <=> Fold(iter)
  <2> TAKE iter
  <2>1. \A s \in SUBSET S : s # {} =>
            f[CHOOSE x \in s : TRUE] = 1 + agg[CHOOSE x \in s : TRUE].children
    OBVIOUS
  <2>2. [s \in SUBSET S |-> Body(iter, s)] =
          [s \in SUBSET S |-> IF s = {} THEN 0
               ELSE f[CHOOSE x \in s : TRUE] + iter[s \ {CHOOSE x \in s : TRUE}]]
    BY <2>1
  <2> QED
    BY <2>2 DEF IsFold
<1>2. Fold(it)
  <2> HIDE DEF Fold
  <2>1. \E iter : Fold(iter)
    BY <1>1
  <2> QED
    BY <2>1
<1>3. SumOfChildren(agg, S) = it[S]
  BY DEF SumOfChildren, MapThenSumSet, MapThenFoldSet
<1> QED
  BY <1>1, <1>2, <1>3

(* A fold can be made over any finite set.                                 *)
LEMMA FoldExists ==
    ASSUME NEW f, NEW S, IsFiniteSet(S)
    PROVE  \E iter : IsFold(iter, f, S)
<1> DEFINE Body(iter, s) == IF s = {} THEN 0
                            ELSE f[CHOOSE x \in s : TRUE] + iter[s \ {CHOOSE x \in s : TRUE}]
           Small(n) == {s \in SUBSET S : Cardinality(s) <= n}
           Upto(iter, n) == iter = [s \in Small(n) |-> Body(iter, s)]
           N == {n \in Nat : \E iter : Upto(iter, n)}
<1>0. /\ \A s \in SUBSET S : IsFiniteSet(s) /\ Cardinality(s) \in Nat
      /\ \A s \in SUBSET S : Cardinality(s) <= Cardinality(S)
      /\ \A s \in SUBSET S : Cardinality(s) = 0 <=> s = {}
  BY FS_Subset, FS_CardinalityType, FS_EmptySet
<1>1. \A s \in SUBSET S : s # {} =>
          /\ s \ {CHOOSE x \in s : TRUE} \in SUBSET S
          /\ Cardinality(s \ {CHOOSE x \in s : TRUE}) = Cardinality(s) - 1
  <2> TAKE s \in SUBSET S
  <2> HAVE s # {}
  <2> DEFINE x == CHOOSE y \in s : TRUE
  <2>1. x \in s
    OBVIOUS
  <2> HIDE DEF x
  <2>2. s \ {x} \in SUBSET S /\ Cardinality(s \ {x}) = Cardinality(s) - 1
    BY <1>0, <2>1, FS_RemoveElement
  <2> QED
    BY <2>2 DEF x
<1>2. 0 \in N
  <2> DEFINE first == [s \in Small(0) |-> 0]
  <2>1. \A s \in Small(0) : s = {}
    BY <1>0
  <2>2. \A s \in Small(0) : Body(first, s) = 0
    BY <2>1
  <2> HIDE DEF Body, Small
  <2>3. Upto(first, 0)
    BY <2>2
  <2> HIDE DEF Upto, first
  <2> QED
    BY <2>3
<1>3. ASSUME NEW n \in Nat, n \in N PROVE n + 1 \in N
  <2>1. PICK iter : Upto(iter, n)
    BY <1>3
  <2> DEFINE longer == [s \in Small(n + 1) |-> IF s \in Small(n) THEN iter[s] ELSE Body(iter, s)]
  <2>2. ASSUME NEW s \in Small(n + 1) PROVE longer[s] = Body(longer, s)
    <3>1. longer[s] = Body(iter, s)
      <4>1. s \in Small(n) => iter[s] = Body(iter, s)
        <5> HIDE DEF Body, Small
        <5> QED
          BY <2>1
      <4> HIDE DEF Body, Small
      <4> QED
        BY <4>1
    <3>2. CASE s = {}
      BY <3>1, <3>2
    <3>3. CASE s # {}
      <4> DEFINE rest == s \ {CHOOSE x \in s : TRUE}
      <4>1. rest \in SUBSET S /\ Cardinality(rest) = Cardinality(s) - 1
            /\ Cardinality(s) \in Nat /\ Cardinality(s) <= n + 1
        BY <1>0, <1>1, <3>3
      <4>2. rest \in Small(n) /\ rest \in Small(n + 1)
        <5> HIDE DEF rest
        <5> QED
          BY <4>1
      <4>3. longer[rest] = iter[rest]
        <5> HIDE DEF rest, Small, Body
        <5> QED
          BY <4>2
      <4> HIDE DEF longer, Small
      <4> QED
        BY <3>1, <3>3, <4>3
    <3> QED
      BY <3>2, <3>3
  <2>3. Upto(longer, n + 1)
    <3>1. longer = [s \in Small(n + 1) |-> longer[s]]
      <4> HIDE DEF Small, Body
      <4> QED
        OBVIOUS
    <3> HIDE DEF longer, Small, Body
    <3> QED
      BY <2>2, <3>1
  <2> HIDE DEF longer, Upto
  <2> QED
    BY <2>3
<1>4. Cardinality(S) \in N
  <2>1. Cardinality(S) \in Nat
    BY <1>0
  <2> HIDE DEF N
  <2> QED
    BY <1>2, <1>3, <2>1, AllNumbers
<1>5. PICK iter : Upto(iter, Cardinality(S))
  BY <1>4
<1>6. Small(Cardinality(S)) = SUBSET S
  BY <1>0
<1>7. iter = [s \in SUBSET S |-> Body(iter, s)]
  <2> HIDE DEF Small, Body
  <2> QED
    BY <1>5, <1>6
<1> QED
  BY <1>7 DEF IsFold

UnionOf(P, S) == UNION {P[x] : x \in S}

(* A fold of the sizes of sets apart is the size of their union.           *)
LEMMA FoldIsSize ==
    ASSUME NEW f, NEW S, IsFiniteSet(S), NEW iter, IsFold(iter, f, S), NEW P,
           \A x \in S : IsFiniteSet(P[x]) /\ f[x] = Cardinality(P[x]),
           \A x, y \in S : x # y => P[x] \cap P[y] = {}
    PROVE  iter[S] = Cardinality(UnionOf(P, S)) /\ IsFiniteSet(UnionOf(P, S))
<1> DEFINE All(s) == UNION {P[x] : x \in s}
           N == {n \in Nat : \A s \in SUBSET S : Cardinality(s) = n =>
                                 iter[s] = Cardinality(All(s)) /\ IsFiniteSet(All(s))}
<1>0. \A s \in SUBSET S : /\ IsFiniteSet(s) /\ Cardinality(s) \in Nat
                          /\ Cardinality(s) = 0 <=> s = {}
  BY FS_Subset, FS_CardinalityType, FS_EmptySet
<1>1. 0 \in N
  <2>1. iter[{}] = 0
    BY DEF IsFold
  <2>2. All({}) = {}
    OBVIOUS
  <2> QED
    BY <1>0, <2>1, <2>2, FS_EmptySet
<1>2. ASSUME NEW n \in Nat, n \in N PROVE n + 1 \in N
  <2> SUFFICES ASSUME NEW s \in SUBSET S, Cardinality(s) = n + 1
               PROVE  iter[s] = Cardinality(All(s)) /\ IsFiniteSet(All(s))
    OBVIOUS
  <2>1. s # {}
    BY <1>0
  <2>2. PICK x : x = CHOOSE y \in s : TRUE
    OBVIOUS
  <2>3. x \in s
    BY <2>1, <2>2
  <2> DEFINE rest == s \ {x}
  <2>4. iter[s] = f[x] + iter[rest]
    BY <2>1, <2>2 DEF IsFold
  <2>5. rest \in SUBSET S /\ Cardinality(rest) = n
    <3>1. IsFiniteSet(s)
      BY <1>0
    <3>2. Cardinality(rest) = Cardinality(s) - 1
      BY <2>3, <3>1, FS_RemoveElement
    <3> QED
      BY <3>2
  <2>6. iter[rest] = Cardinality(All(rest)) /\ IsFiniteSet(All(rest))
    <3> HIDE DEF rest, All
    <3> QED
      BY <1>2, <2>5
  <2>7. All(s) = P[x] \cup All(rest)
    BY <2>3
  <2>8. P[x] \cap All(rest) = {}
    BY <2>3
  <2>9. IsFiniteSet(P[x]) /\ f[x] = Cardinality(P[x])
    BY <2>3
  <2> HIDE DEF rest, All
  <2>10. /\ IsFiniteSet(P[x] \cup All(rest))
         /\ Cardinality(P[x] \cup All(rest)) =
              Cardinality(P[x]) + Cardinality(All(rest)) - Cardinality(P[x] \cap All(rest))
    BY <2>6, <2>9, FS_Union
  <2>11. Cardinality(P[x] \cap All(rest)) = 0
    BY <2>8, FS_EmptySet
  <2>12. Cardinality(P[x]) \in Nat /\ Cardinality(All(rest)) \in Nat
    BY <2>6, <2>9, FS_CardinalityType
  <2> QED
    BY <2>4, <2>6, <2>7, <2>9, <2>10, <2>11, <2>12
<1>3. Cardinality(S) \in N
  <2>1. Cardinality(S) \in Nat
    BY <1>0
  <2> HIDE DEF N
  <2> QED
    BY <1>1, <1>2, <2>1, AllNumbers
<1> QED
  BY <1>3 DEF UnionOf

(* What the children of a category add up to, if each of them is right.    *)
LEMMA AggregateStep ==
    ASSUME Tree(parent), IsFiniteSet(DOMAIN home), NEW id \in Cats, NEW agg,
           \A c \in ChildrenOf(id) : /\ agg[c].links = LinksUnder(parent, home, c)
                                     /\ agg[c].children = CatsUnder(parent, c) - 1
    PROVE  /\ DirectLinks(id) + SumOfLinks(agg, ChildrenOf(id)) = LinksUnder(parent, home, id)
           /\ SumOfChildren(agg, ChildrenOf(id)) = CatsUnder(parent, id) - 1
<1> DEFINE S == ChildrenOf(id)
           Cs == [c \in S |-> Sub(parent, c)]
           Ls == [c \in S |-> Held(home, Sub(parent, c))]
           below == UnionOf(Cs, S)
           heldBelow == UnionOf(Ls, S)
           own == {l \in Links : home[l] = id}
<1>0. IsFiniteSet(DOMAIN parent) /\ Root \notin DOMAIN parent
      /\ \A c \in DOMAIN parent : c \notin Above(parent, parent[c])
  BY TreeFinite DEF Tree, Acyclic
<1>1. S \subseteq DOMAIN parent /\ IsFiniteSet(S) /\ id \in DOMAIN parent
  BY <1>0, FS_Subset DEF ChildrenOf, Cats
<1>2. \A c \in S : parent[c] = id /\ Above(parent, c) = {c} \cup Above(parent, id)
  BY <1>1, AboveStep DEF ChildrenOf
<1>3. \A c \in S : id \notin Sub(parent, c)
  <2> SUFFICES ASSUME NEW c \in S, c \in Above(parent, id) PROVE FALSE
    BY DEF Sub
  <2> QED
    BY <1>0, <1>1, <1>2
<1>4. \A c, d \in S : c # d => Sub(parent, c) \cap Sub(parent, d) = {}
  <2> SUFFICES ASSUME NEW c \in S, NEW d \in S, c # d,
                      NEW x \in DOMAIN parent, c \in Above(parent, x), d \in Above(parent, x)
               PROVE  FALSE
    BY DEF Sub
  (* x is under both: its ancestors under c or c's own, and those above.   *)
  <2>1. Above(parent, x) = {y \in Above(parent, x) : c \in Above(parent, y)} \cup Above(parent, id)
    BY <1>1, <1>2, AboveThrough
  <2>2. d \notin Above(parent, id) /\ c \notin Above(parent, id)
    BY <1>0, <1>1, <1>2
  <2>3. c \in Above(parent, d)
    BY <2>1, <2>2
  <2> QED
    BY <1>2, <2>2, <2>3
<1>5. Sub(parent, id) = {id} \cup below
  <2>1. ASSUME NEW x \in Sub(parent, id), x # id PROVE \E c \in S : x \in Sub(parent, c)
    <3> DEFINE T == {y \in Above(parent, x) : id \in Above(parent, y) /\ y # id}
    <3> SUFFICES ASSUME \A c \in S : c \notin Above(parent, x) PROVE FALSE
      BY <2>1 DEF Sub
    <3>1. x \in DOMAIN parent /\ id \in Above(parent, x) /\ x \in Above(parent, x)
      BY <2>1, AboveType DEF Sub
    <3>2. ASSUME NEW y \in T, parent[y] \in DOMAIN parent PROVE parent[y] \in T
      <4>1. y \in DOMAIN parent /\ Above(parent, y) = {y} \cup Above(parent, parent[y])
        BY AboveType, AboveStep
      <4>2. parent[y] # id
        BY <4>1 DEF ChildrenOf, Cats
      <4>3. id \in Above(parent, parent[y])
        BY <4>1
      <4>4. parent[y] \in Above(parent, x)
        BY <3>2, AboveType DEF ClosedUp
      <4> QED
        BY <4>2, <4>3, <4>4
    <3>3. x \in T /\ T \in SUBSET DOMAIN parent /\ ClosedUp(parent, T) /\ id \notin T
      BY <2>1, <3>1, <3>2, AboveType DEF ClosedUp
    <3>4. Above(parent, x) \subseteq T
      <4> HIDE DEF T
      <4> QED
        BY <3>3, AboveLeast
    <3> QED
      BY <3>1, <3>3, <3>4
  <2>2. \A c \in S : Sub(parent, c) \subseteq Sub(parent, id)
    <3> SUFFICES ASSUME NEW c \in S, NEW x \in Sub(parent, c) PROVE id \in Above(parent, x)
      BY DEF Sub
    <3>1. id \in Above(parent, c)
      BY <1>1, <1>2, AboveType
    <3>2. Above(parent, c) \subseteq Above(parent, x)
      BY AboveWithin DEF Sub
    <3> QED
      BY <3>1, <3>2
  <2>3. id \in Sub(parent, id)
    BY <1>1, AboveType DEF Sub
  <2> QED
    BY <2>1, <2>2, <2>3 DEF UnionOf
<1>6. /\ SumOfChildren(agg, S) = Cardinality(below) /\ IsFiniteSet(below)
  <2> DEFINE f == [c \in S |-> 1 + agg[c].children]
  <2>1. \E iter : IsFold(iter, f, S)
    BY <1>1, FoldExists
  <2>2. PICK iter : IsFold(iter, f, S) /\ SumOfChildren(agg, S) = iter[S]
    <3> HIDE DEF S
    <3> QED
      BY <2>1, ChildrenFold
  <2>3. \A c \in S : IsFiniteSet(Cs[c]) /\ f[c] = Cardinality(Cs[c])
    <3> TAKE c \in S
    <3>1. IsFiniteSet(Sub(parent, c)) /\ CatsUnder(parent, c) \in Nat
      BY <1>0, UnderType
    <3> QED
      BY <3>1 DEF CatsUnder
  <2>4. \A c, d \in S : c # d => Cs[c] \cap Cs[d] = {}
    BY <1>4
  <2> HIDE DEF S, Cs, f
  <2> QED
    BY <1>1, <2>2, <2>3, <2>4, FoldIsSize
<1>7. /\ SumOfLinks(agg, S) = Cardinality(heldBelow) /\ IsFiniteSet(heldBelow)
  <2> DEFINE f == [c \in S |-> agg[c].links]
  <2>1. \E iter : IsFold(iter, f, S)
    BY <1>1, FoldExists
  <2>2. PICK iter : IsFold(iter, f, S) /\ SumOfLinks(agg, S) = iter[S]
    <3> HIDE DEF S
    <3> QED
      BY <2>1, LinksFold
  <2>3. \A c \in S : IsFiniteSet(Ls[c]) /\ f[c] = Cardinality(Ls[c])
    <3> TAKE c \in S
    <3>1. IsFiniteSet(Held(home, Sub(parent, c)))
      BY <1>0, UnderType
    <3> QED
      BY <3>1 DEF LinksUnder
  <2>4. \A c, d \in S : c # d => Ls[c] \cap Ls[d] = {}
    BY <1>4 DEF Held
  <2> HIDE DEF S, Ls, f
  <2> QED
    BY <1>1, <2>2, <2>3, <2>4, FoldIsSize
<1>8. Cardinality({id} \cup below) = Cardinality(below) + 1
  <2>1. id \notin below
    BY <1>3 DEF UnionOf
  <2> HIDE DEF below
  <2>2. {id} \cup below = below \cup {id}
    OBVIOUS
  <2> QED
    BY <1>6, <2>1, <2>2, FS_AddElement
<1>9. Cardinality(own \cup heldBelow) = Cardinality(own) + Cardinality(heldBelow)
  <2>1. own \cap heldBelow = {}
    BY <1>3 DEF Held, UnionOf
  <2>2. IsFiniteSet(own)
    BY FS_Subset DEF Links
  <2> HIDE DEF own, heldBelow
  <2>3. Cardinality(own \cup heldBelow) =
          Cardinality(own) + Cardinality(heldBelow) - Cardinality(own \cap heldBelow)
    BY <1>7, <2>2, FS_Union
  <2>4. Cardinality(own \cap heldBelow) = 0
    BY <2>1, FS_EmptySet
  <2>5. Cardinality(own) \in Nat /\ Cardinality(heldBelow) \in Nat
    BY <1>7, <2>2, FS_CardinalityType
  <2> QED
    BY <2>3, <2>4, <2>5
<1>10. Held(home, Sub(parent, id)) = own \cup heldBelow
  BY <1>5 DEF Held, Links, UnionOf
<1>11. DirectLinks(id) = Cardinality(own)
  BY DEF DirectLinks
<1>12. Cardinality(below) \in Nat
  BY <1>6, FS_CardinalityType
<1> HIDE DEF own, heldBelow, below, S
<1>13. DirectLinks(id) + SumOfLinks(agg, S) = LinksUnder(parent, home, id)
  BY <1>7, <1>9, <1>10, <1>11 DEF LinksUnder
<1>14. SumOfChildren(agg, S) = CatsUnder(parent, id) - 1
  BY <1>5, <1>6, <1>8, <1>12 DEF CatsUnder
<1> QED
  BY <1>13, <1>14 DEF S

(* The aggregate is the sizes of the subtrees: they satisfy its equation,  *)
(* and nothing else does.                                                  *)
LEMMA AggregateIsSizes ==
    ASSUME Tree(parent), IsFiniteSet(DOMAIN home)
    PROVE  \A id \in Cats : /\ Aggregate[id].links = LinksUnder(parent, home, id)
                            /\ Aggregate[id].children = CatsUnder(parent, id) - 1
<1> DEFINE g == [id \in Cats |-> [links |-> LinksUnder(parent, home, id),
                                  children |-> CatsUnder(parent, id) - 1]]
           Right(a, id) == /\ a[id].links = LinksUnder(parent, home, id)
                           /\ a[id].children = CatsUnder(parent, id) - 1
<1>1. \A id \in Cats : Right(g, id)
  OBVIOUS
<1>2. \A id : ChildrenOf(id) \subseteq Cats
  BY DEF ChildrenOf
<1>3. IsAggregate(g)
  <2>1. ASSUME NEW id \in Cats
        PROVE  /\ DirectLinks(id) + SumOfLinks(g, ChildrenOf(id)) = LinksUnder(parent, home, id)
               /\ SumOfChildren(g, ChildrenOf(id)) = CatsUnder(parent, id) - 1
    <3>1. \A c \in ChildrenOf(id) : Right(g, c)
      BY <1>1, <1>2
    <3> HIDE DEF g
    <3> QED
      BY <3>1, AggregateStep
  <2>2. g = [id \in Cats |-> [links |-> g[id].links, children |-> g[id].children]]
    OBVIOUS
  <2>3. \A id \in Cats : /\ g[id].links = DirectLinks(id) + SumOfLinks(g, ChildrenOf(id))
                         /\ g[id].children = SumOfChildren(g, ChildrenOf(id))
    BY <1>1, <2>1
  <2> HIDE DEF g
  <2> QED
    BY <2>2, <2>3 DEF IsAggregate
<1>4. PICK agg : agg = Aggregate /\ IsAggregate(agg)
  <2> HIDE DEF g
  <2> QED
    BY <1>3, AggregateIs
<1>5. \A id \in Cats :
          /\ agg[id].links = DirectLinks(id) + SumOfLinks(agg, ChildrenOf(id))
          /\ agg[id].children = SumOfChildren(agg, ChildrenOf(id))
  BY <1>4 DEF IsAggregate
<1>6. /\ IsFiniteSet(DOMAIN parent)
      /\ \A id : IsFiniteSet(Sub(parent, id)) /\ CatsUnder(parent, id) \in Nat
  BY TreeFinite, UnderType
(* A child has a smaller subtree: induction on the size.                   *)
<1>7. ASSUME NEW id \in Cats, NEW c \in ChildrenOf(id)
      PROVE  CatsUnder(parent, c) < CatsUnder(parent, id)
  <2>1. c \in DOMAIN parent /\ parent[c] = id /\ id \in DOMAIN parent
    BY DEF ChildrenOf, Cats
  <2>2. Above(parent, c) = {c} \cup Above(parent, id) /\ c \notin Above(parent, id)
    BY <2>1, AboveStep DEF Tree, Acyclic
  <2>3. id \in Above(parent, c) /\ id \in Above(parent, id)
    BY <2>1, <2>2, AboveType
  <2>4. Sub(parent, c) \subseteq Sub(parent, id)
    <3> SUFFICES ASSUME NEW x \in Sub(parent, c) PROVE id \in Above(parent, x)
      BY DEF Sub
    <3>1. Above(parent, c) \subseteq Above(parent, x)
      BY AboveWithin DEF Sub
    <3> QED
      BY <2>3, <3>1
  <2>5. id \in Sub(parent, id) /\ id \notin Sub(parent, c)
    BY <2>1, <2>2, <2>3 DEF Sub
  <2>6. CatsUnder(parent, c) <= CatsUnder(parent, id) /\ CatsUnder(parent, c) # CatsUnder(parent, id)
    BY <1>6, <2>4, <2>5, FS_Subset DEF CatsUnder
  <2> QED
    BY <1>6, <2>6
<1> DEFINE N == {n \in Nat : \A id \in Cats : CatsUnder(parent, id) <= n => Right(agg, id)}
<1>8. 0 \in N
  BY <1>6, UnderType DEF Cats
<1>9. ASSUME NEW n \in Nat, n \in N PROVE n + 1 \in N
  <2> SUFFICES ASSUME NEW id \in Cats, CatsUnder(parent, id) <= n + 1 PROVE Right(agg, id)
    OBVIOUS
  <2>1. \A c \in ChildrenOf(id) : Right(agg, c)
    BY <1>2, <1>6, <1>7, <1>9
  <2>2. /\ DirectLinks(id) + SumOfLinks(agg, ChildrenOf(id)) = LinksUnder(parent, home, id)
        /\ SumOfChildren(agg, ChildrenOf(id)) = CatsUnder(parent, id) - 1
    BY <2>1, AggregateStep
  <2> QED
    BY <1>5, <2>2
<1>10. Nat \subseteq N
  <2> HIDE DEF N
  <2> QED
    BY <1>8, <1>9, AllNumbers
<1>11. \A id \in Cats : Right(agg, id)
  BY <1>6, <1>10
<1> QED
  BY <1>4, <1>11

LEMMA RecountBelow == TreeInv /\ Recount => TreeInv' /\ BelowOK'
<1> SUFFICES ASSUME TreeInv, Recount PROVE TreeInv' /\ BelowOK'
  OBVIOUS
<1>1. UNCHANGED <<parent, home, nextCat, nextLink>> /\ deep' = IF TooDeep(parent) THEN 1 ELSE 0
  BY DEF Recount
<1>2. IInv'
  BY RecountStep DEF TreeInv
<1>3. \A a \in DOMAIN parent : /\ counts'[a].linksBelow = LinksUnder(parent, home, a)
                               /\ counts'[a].childrenBelow = CatsUnder(parent, a) - 1
  <2>1. \A a \in DOMAIN parent : /\ counts'[a].linksBelow = Aggregate[a].links
                                 /\ counts'[a].childrenBelow = Aggregate[a].children
    BY DEF Recount, Cats
  <2>2. \A id \in Cats : /\ Aggregate[id].links = LinksUnder(parent, home, id)
                         /\ Aggregate[id].children = CatsUnder(parent, id) - 1
    BY TreeOpened, AggregateIsSizes
  <2> QED
    BY <2>1, <2>2 DEF Cats
<1>4. BelowOK'
  BY <1>1, <1>3, BelowClosed
<1>5. Acyclic(parent') /\ (deep' = 0 => ~TooDeep(parent')) /\ deep' \in Nat
  BY <1>1 DEF TreeInv
<1> QED
  BY <1>2, <1>4, <1>5 DEF TreeInv, TooDeep, Level, Chain, Acyclic, Above, ClosedUp

LEMMA TreeInit == Init => TreeInv
<1> SUFFICES ASSUME Init PROVE TreeInv
  OBVIOUS
<1>1. DOMAIN parent = {} /\ deep = 0
  BY DEF Init
<1> QED
  BY <1>1, InitStep DEF TreeInv, Acyclic, TooDeep, BelowOK, Cats

LEMMA TreeNext == TreeInv /\ [Next]_vars => TreeInv'
<1> SUFFICES ASSUME TreeInv, [Next]_vars PROVE TreeInv'
  OBVIOUS
<1>1. CASE UNCHANGED vars
  <2>1. IInv'
    BY <1>1, NextStep DEF TreeInv
  <2>2. UNCHANGED <<parent, home, counts, deep>>
    BY <1>1 DEF vars
  <2>3. Acyclic(parent') /\ deep' \in Nat /\ (deep' = 0 => ~TooDeep(parent'))
    BY <2>2 DEF TreeInv
  <2>4. ASSUME BelowOK PROVE BelowOK'
    <3>1. \A a \in DOMAIN parent : /\ counts'[a].linksBelow = LinksUnder(parent, home, a)
                                   /\ counts'[a].childrenBelow = CatsUnder(parent, a) - 1
      BY <2>2, <2>4 DEF BelowOK, Cats
    <3> QED
      BY <2>2, <3>1, BelowClosed
  <2>5. deep' = 0 => BelowOK'
    BY <2>2, <2>4 DEF TreeInv
  <2> QED
    BY <2>1, <2>3, <2>5 DEF TreeInv, TooDeep, Level, Chain, Acyclic, Above, ClosedUp
<1>2. CASE Next
  BY <1>2, CreateCategoryBelow, MoveCategoryBelow, DeleteCategoryBelow,
     CreateLinkBelow, MoveLinkBelow, DeleteLinkBelow, RecountBelow DEF Next
<1> QED
  BY <1>1, <1>2

(* The counts of the invariant are those the model's property compares.    *)
LEMMA BelowIsExact == TreeInv /\ BelowOK => \A id \in Cats : BelowExact(id)
<1> SUFFICES ASSUME TreeInv, BelowOK, NEW id \in Cats PROVE BelowExact(id)
  OBVIOUS
<1>1. Subtree(id) = Sub(parent, id)
  <2>1. \A c \in DOMAIN parent : Chain(parent, c, MaxCategory) = Above(parent, c)
    BY TreeOpened, FullChain
  <2> QED
    BY <2>1 DEF Subtree, Sub, Cats
<1>2. {l \in Links : home[l] \in Subtree(id)} = Held(home, Sub(parent, id))
  BY <1>1 DEF Held, Links
<1> QED
  BY <1>1, <1>2 DEF BelowExact, BelowOK, LinksUnder, CatsUnder

(* No category is its own ancestor and, as long as none is below level     *)
(* DepthMax, no walk of collect_ancestor_updates is cut.                   *)
THEOREM TreeIsSound == Spec => []TreeInv
<1> QED BY TreeInit, TreeNext, PTL DEF Spec

(* link_count_subtree and child_count_subtree are what a count of the      *)
(* subtree gives, after any sequence of creates, moves, deletes and        *)
(* recounts, unless a category has been deeper than the walk goes.         *)
THEOREM SubtreeCountsAreExact == Spec => []SubtreeCountsExact
<1>1. TreeInv => SubtreeCountsExact
  BY BelowIsExact DEF SubtreeCountsExact, TreeInv
<1> QED BY <1>1, TreeIsSound, PTL

(* A recount makes all of them exact, whatever drift it finds and however  *)
(* deep the tree is.                                                       *)
THEOREM RecountsAreExact == Spec => RecountIsExact
<1> DEFINE Exact == \A id \in Cats : BelowExact(id)
<1>1. TreeInv /\ BelowOK => Exact
  BY BelowIsExact
<1>2. TreeInv /\ Recount => TreeInv' /\ BelowOK'
  BY RecountBelow
<1>3. TreeInv /\ Recount => Exact'
  BY <1>1, <1>2, PTL
<1>4. TreeInv /\ [Next]_vars => [Recount => \A id \in Cats : BelowExact(id)']_vars
  <2> SUFFICES ASSUME TreeInv, Recount PROVE \A id \in Cats : BelowExact(id)'
    OBVIOUS
  <2>1. Exact'
    BY <1>3
  <2>2. Cats' = Cats
    BY DEF Recount, Cats
  <2> QED
    BY <2>1, <2>2
<1> QED
  BY <1>4, TreeIsSound, PTL DEF Spec, RecountIsExact
=============================================================================
