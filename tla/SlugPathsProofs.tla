--------------------------- MODULE SlugPathsProofs ---------------------------
(***************************************************************************)
(* Theorems about SlugPaths.                                               *)
(*                                                                         *)
(* A climb from a category is a function of the number of steps; it gets   *)
(* to the top iff there is a line of that many live categories below it.   *)
(* The length of a line is bounded by the number of categories, so a path  *)
(* does not depend on the depth it is looked for, once it is found.        *)
(*                                                                         *)
(* The second part is about writes that are done inline: the descendants   *)
(* collect_descendant_swaps finds are those below the category, each once, *)
(* their swaps take the old paths out of the index and put the new ones    *)
(* in, and both indexes stay what the records say.                         *)
(*                                                                         *)
(* The third part is about renames and moves that are queued.  A category  *)
(* below the root of a task has two names: its canonical path and the old  *)
(* path the task still knows it by.  Each category is indexed by one of    *)
(* its names, no two share a name, and nothing comes to lie where a task   *)
(* has paths to free.  The walk of the worker has all that is still under  *)
(* an old path ahead of it, so that nothing is left when it ends.          *)
(*                                                                         *)
(* The last part is about the path a lookup builds record by record while  *)
(* writes come between: put together of the trees before and after one     *)
(* write, it is a path of one of the two.                                  *)
(***************************************************************************)
EXTENDS SlugPaths, FiniteSetTheorems, SequenceTheorems, WellFoundedInduction, TLAPS

-----------------------------------------------------------------------------
(* Induction, for sets in the place of predicates.                         *)

LEMMA LeastNumber ==
    ASSUME NEW S, S \subseteq Nat, S # {}
    PROVE  \E m \in S : \A n \in S : m <= n
<1> DEFINE R == OpToRel(<, Nat)
<1>1. IsWellFoundedOn(R, Nat)
  BY NatLessThanWellFounded
<1>2. \A x, y \in Nat : <<x, y>> \in R <=> x < y
  BY DEF OpToRel
<1> HIDE DEF R
<1>3. PICK m \in S : \A y \in S : ~(<<y, m>> \in R)
  BY <1>1, WFMin
<1>4. \A n \in S : m <= n
  <2> TAKE n \in S
  <2>1. m \in Nat /\ n \in Nat /\ ~(n < m)
    BY <1>2, <1>3
  <2> QED
    BY <2>1
<1> QED
  BY <1>4

LEMMA AllNumbers ==
    ASSUME NEW S, 0 \in S, \A n \in Nat : n \in S => n + 1 \in S
    PROVE  Nat \subseteq S
<1> DEFINE T == Nat \ S
<1> SUFFICES ASSUME T # {} PROVE FALSE
  OBVIOUS
<1>1. T \subseteq Nat
  OBVIOUS
<1>2. PICK m \in T : \A n \in T : m <= n
  <2> HIDE DEF T
  <2> QED
    BY <1>1, LeastNumber
<1>3. m # 0 /\ m - 1 \in Nat /\ m - 1 \notin T
  BY <1>2
<1>4. (m - 1) + 1 \in S
  BY <1>3
<1> QED
  BY <1>3, <1>4

-----------------------------------------------------------------------------
(* A climb up the parents, and the line of categories below the top.       *)

IsClimb(up, t, id, top, limit) ==
    up = [n \in 0..limit |-> IF n = 0 THEN id ELSE Above(t, top, up[n - 1])]

Steps(up, limit) == Cardinality({n \in 0 .. limit - 1 : up[n + 1] # up[n]})

IsClimbOf(up, t, id, top, limit) ==
    /\ up[0] = id
    /\ \A n \in 0 .. limit - 1 : up[n + 1] = Above(t, top, up[n])
    /\ Climb(t, id, top, limit).at = up[limit]
    /\ Climb(t, id, top, limit).path =
          [n \in 1..Steps(up, limit) |-> t[up[Steps(up, limit) - n]].slug]

(* k categories, each the parent of the one before, and then top.          *)
IsLine(at, k, t, id, top) ==
    /\ k \in Nat
    /\ at[0] = id /\ at[k] = top
    /\ \A n \in 0 .. k - 1 : at[n] \in Live(t) \ {top} /\ at[n + 1] = t[at[n]].parent

LineSlugs(at, k, t) == [n \in 1..k |-> t[at[k - n]].slug]

(* A climb can be made from anywhere, to any limit.                        *)
LEMMA ClimbExists ==
    ASSUME NEW t, NEW id, NEW top, NEW limit \in Nat
    PROVE  \E up : IsClimb(up, t, id, top, limit)
<1> DEFINE S == {m \in Nat : \E up : IsClimb(up, t, id, top, m)}
<1>1. 0 \in S
  <2> DEFINE first == [n \in 0..0 |-> id]
  <2>1. first = [n \in 0..0 |-> IF n = 0 THEN id ELSE Above(t, top, first[n - 1])]
    OBVIOUS
  <2>2. IsClimb(first, t, id, top, 0)
    BY <2>1 DEF IsClimb
  <2> HIDE DEF first
  <2> QED
    BY <2>2
<1>2. ASSUME NEW m \in Nat, m \in S PROVE m + 1 \in S
  <2>1. PICK up : IsClimb(up, t, id, top, m)
    BY <1>2
  <2> DEFINE longer == [n \in 0..m + 1 |-> IF n <= m THEN up[n] ELSE Above(t, top, up[m])]
  <2>2. up[0] = id /\ \A n \in 1..m : up[n] = Above(t, top, up[n - 1])
    BY <2>1 DEF IsClimb
  <2>3. longer[0] = id
    BY <2>2
  <2>4. ASSUME NEW n \in 1..m + 1 PROVE longer[n] = Above(t, top, longer[n - 1])
    <3>1. longer[n - 1] = up[n - 1]
      OBVIOUS
    <3> QED
      BY <2>2, <3>1
  <2>5. longer = [n \in 0..m + 1 |-> longer[n]]
    OBVIOUS
  <2> HIDE DEF longer
  <2>6. longer = [n \in 0..m + 1 |-> IF n = 0 THEN id ELSE Above(t, top, longer[n - 1])]
    BY <2>3, <2>4, <2>5
  <2> QED
    BY <2>6 DEF IsClimb
<1> HIDE DEF S
<1>3. limit \in S
  BY <1>1, <1>2, AllNumbers
<1> QED
  BY <1>3 DEF S

LEMMA ClimbIs ==
    ASSUME NEW t, NEW id, NEW top, NEW limit \in Nat
    PROVE  \E up : IsClimbOf(up, t, id, top, limit)
<1> DEFINE up == CHOOSE walk : IsClimb(walk, t, id, top, limit)
<1>1. IsClimb(up, t, id, top, limit)
  BY ClimbExists
<1>2. Climb(t, id, top, limit) =
        [at |-> up[limit],
         path |-> [n \in 1..Steps(up, limit) |-> t[up[Steps(up, limit) - n]].slug]]
  BY DEF Climb, IsClimb, Above, Steps
<1> HIDE DEF up
<1>3. up[0] = id /\ \A n \in 1..limit : up[n] = Above(t, top, up[n - 1])
  BY <1>1 DEF IsClimb
<1>4. \A n \in 0 .. limit - 1 : up[n + 1] = Above(t, top, up[n])
  <2> TAKE n \in 0 .. limit - 1
  <2>1. n + 1 \in 1..limit /\ (n + 1) - 1 = n
    OBVIOUS
  <2> QED
    BY <1>3, <2>1
<1> QED
  BY <1>2, <1>3, <1>4 DEF IsClimbOf

(* A climb along a line ends at its top, and passed its slugs.             *)
LEMMA ClimbOfLine ==
    ASSUME NEW t, NEW id, NEW top, NEW limit \in Nat, NEW k, NEW at,
           IsLine(at, k, t, id, top), k <= limit,
           \A n \in 0 .. k - 1 : at[n + 1] # at[n]
    PROVE  /\ Climb(t, id, top, limit).at = top
           /\ Climb(t, id, top, limit).path = LineSlugs(at, k, t)
<1>0. /\ k \in Nat /\ at[0] = id /\ at[k] = top
      /\ \A n \in 0 .. k - 1 : at[n] \in Live(t) \ {top} /\ at[n + 1] = t[at[n]].parent
  BY DEF IsLine
<1>1a. PICK up : IsClimbOf(up, t, id, top, limit)
  BY ClimbIs
<1>1. /\ up[0] = id
      /\ \A n \in 0 .. limit - 1 : up[n + 1] = Above(t, top, up[n])
      /\ Climb(t, id, top, limit).at = up[limit]
      /\ Climb(t, id, top, limit).path =
            [n \in 1..Steps(up, limit) |-> t[up[Steps(up, limit) - n]].slug]
  BY <1>1a DEF IsClimbOf
<1>2. \A n \in 0..k : up[n] = at[n]
  <2> DEFINE S == {n \in Nat : n <= k => up[n] = at[n]}
  <2>1. 0 \in S
    BY <1>0, <1>1
  <2>2. ASSUME NEW n \in Nat, n \in S PROVE n + 1 \in S
    <3> SUFFICES ASSUME n + 1 <= k PROVE up[n + 1] = at[n + 1]
      OBVIOUS
    <3>1. n \in 0 .. k - 1 /\ n \in 0 .. limit - 1 /\ n <= k
      BY <1>0
    <3>2. up[n] = at[n]
      BY <2>2, <3>1
    <3> QED
      BY <1>0, <1>1, <3>1, <3>2 DEF Above
  <2> HIDE DEF S
  <2>3. Nat \subseteq S
    BY <2>1, <2>2, AllNumbers
  <2> QED
    BY <1>0, <2>3 DEF S
<1>3. \A n \in k..limit : up[n] = top
  <2> DEFINE S == {n \in Nat : k + n <= limit => up[k + n] = top}
  <2>1. 0 \in S
    BY <1>0, <1>2
  <2>2. ASSUME NEW n \in Nat, n \in S PROVE n + 1 \in S
    <3> SUFFICES ASSUME k + (n + 1) <= limit PROVE up[k + (n + 1)] = top
      OBVIOUS
    <3>1. k + n \in 0 .. limit - 1 /\ (k + n) + 1 = k + (n + 1) /\ k + n <= limit
      BY <1>0
    <3>2. up[k + n] = top
      BY <2>2, <3>1
    <3> QED
      BY <1>1, <3>1, <3>2 DEF Above
  <2> HIDE DEF S
  <2>3. Nat \subseteq S
    BY <2>1, <2>2, AllNumbers
  <2>4. ASSUME NEW n \in k..limit PROVE up[n] = top
    <3>1. n - k \in Nat /\ k + (n - k) = n
      BY <1>0
    <3>2. n - k \in S
      BY <2>3, <3>1
    <3> QED
      BY <3>1, <3>2 DEF S
  <2> QED
    BY <2>4
<1>4. {n \in 0 .. limit - 1 : up[n + 1] # up[n]} = 0 .. k - 1
  <2>1. ASSUME NEW n \in 0 .. k - 1 PROVE n \in 0 .. limit - 1 /\ up[n + 1] # up[n]
    <3>1. n \in 0..k /\ n + 1 \in 0..k
      BY <1>0
    <3> QED
      BY <1>0, <1>2, <3>1
  <2>2. ASSUME NEW n \in 0 .. limit - 1, n \notin 0 .. k - 1 PROVE up[n + 1] = up[n]
    <3>1. n \in k..limit /\ n + 1 \in k..limit
      BY <1>0, <2>2
    <3> QED
      BY <1>3, <3>1
  <2> QED
    BY <2>1, <2>2
<1>5. Steps(up, limit) = k
  <2>1. Cardinality(0 .. k - 1) = k
    BY <1>0, FS_Interval
  <2> QED
    BY <1>4, <2>1 DEF Steps
<1>6. [n \in 1..k |-> t[up[k - n]].slug] = LineSlugs(at, k, t)
  <2>1. \A n \in 1..k : up[k - n] = at[k - n]
    BY <1>0, <1>2
  <2> QED
    BY <2>1 DEF LineSlugs
<1>7. up[limit] = top
  BY <1>0, <1>3
<1> QED
  BY <1>1, <1>5, <1>6, <1>7

(* A climb that ends at the top went along a line.                         *)
LEMMA LineOfClimb ==
    ASSUME NEW t, NEW id, NEW top, NEW limit \in Nat,
           Climb(t, id, top, limit).at = top
    PROVE  \E k, at : k \in 0..limit /\ IsLine(at, k, t, id, top)
<1>1a. PICK up : IsClimbOf(up, t, id, top, limit)
  BY ClimbIs
<1>1. /\ up[0] = id
      /\ \A n \in 0 .. limit - 1 : up[n + 1] = Above(t, top, up[n])
      /\ Climb(t, id, top, limit).at = up[limit]
  BY <1>1a DEF IsClimbOf
<1> DEFINE M == {m \in 0..limit : up[m] = top}
<1>2. M \subseteq Nat /\ limit \in M
  BY <1>1
<1>3. PICK k \in M : \A m \in M : k <= m
  <2> HIDE DEF M
  <2> QED
    BY <1>2, LeastNumber
<1>4. k \in 0..limit /\ up[k] = top /\ \A n \in 0 .. k - 1 : up[n] # top
  BY <1>3
<1>5. ASSUME NEW n \in 0 .. k - 1 PROVE up[n] \in Live(t)
  <2> SUFFICES ASSUME up[n] \notin Live(t) PROVE FALSE
    OBVIOUS
  <2> DEFINE S == {j \in Nat : n + j <= k => up[n + j] = up[n]}
  <2>1. 0 \in S
    BY <1>4
  <2>2. ASSUME NEW j \in Nat, j \in S PROVE j + 1 \in S
    <3> SUFFICES ASSUME n + (j + 1) <= k PROVE up[n + (j + 1)] = up[n]
      OBVIOUS
    <3>1. n + j \in 0 .. limit - 1 /\ (n + j) + 1 = n + (j + 1) /\ n + j <= k
      BY <1>4
    <3>2. up[n + j] = up[n]
      BY <2>2, <3>1
    <3> QED
      BY <1>1, <3>1, <3>2 DEF Above
  <2> HIDE DEF S
  <2>3. Nat \subseteq S
    BY <2>1, <2>2, AllNumbers
  <2>4. k - n \in Nat /\ n + (k - n) = k
    BY <1>4
  <2>5. up[k] = up[n]
    BY <2>3, <2>4 DEF S
  <2> QED
    BY <1>4, <2>5
<1>6. ASSUME NEW n \in 0 .. k - 1
      PROVE  up[n] \in Live(t) \ {top} /\ up[n + 1] = t[up[n]].parent
  <2>1. n \in 0 .. limit - 1 /\ up[n] \in Live(t) \ {top}
    BY <1>4, <1>5
  <2> QED
    BY <1>1, <2>1 DEF Above
<1>7. IsLine(up, k, t, id, top)
  <2>1. k \in Nat
    BY <1>4
  <2> QED
    BY <1>1, <1>4, <1>6, <2>1 DEF IsLine
<1> QED
  BY <1>4, <1>7

(* No category is twice on a line.                                         *)
LEMMA LineDistinct ==
    ASSUME NEW t, NEW id, NEW top, NEW k, NEW at, IsLine(at, k, t, id, top)
    PROVE  \A i, j \in 0..k : at[i] = at[j] => i = j
<1>0. /\ k \in Nat /\ at[k] = top
      /\ \A n \in 0 .. k - 1 : at[n] \in Live(t) \ {top} /\ at[n + 1] = t[at[n]].parent
  BY DEF IsLine
<1>1. ASSUME NEW i \in 0..k, NEW j \in 0..k, at[i] = at[j], i < j PROVE FALSE
  <2> DEFINE S == {m \in Nat : j + m <= k => at[i + m] = at[j + m]}
  <2>1. 0 \in S
    BY <1>1
  <2>2. ASSUME NEW m \in Nat, m \in S PROVE m + 1 \in S
    <3> SUFFICES ASSUME j + (m + 1) <= k PROVE at[i + (m + 1)] = at[j + (m + 1)]
      OBVIOUS
    <3>1. /\ i + m \in 0 .. k - 1 /\ j + m \in 0 .. k - 1 /\ j + m <= k
          /\ (i + m) + 1 = i + (m + 1) /\ (j + m) + 1 = j + (m + 1)
      BY <1>0, <1>1
    <3>2. at[i + m] = at[j + m]
      BY <2>2, <3>1
    <3> QED
      BY <1>0, <3>1, <3>2
  <2> HIDE DEF S
  <2>3. Nat \subseteq S
    BY <2>1, <2>2, AllNumbers
  <2>4. k - j \in Nat /\ j + (k - j) = k /\ i + (k - j) \in 0 .. k - 1
    BY <1>0, <1>1
  <2>5. at[i + (k - j)] = at[k]
    BY <2>3, <2>4 DEF S
  <2> QED
    BY <1>0, <2>4, <2>5
<1> QED
  BY <1>0, <1>1

(* A line is no longer than the number of categories.                      *)
LEMMA LineShort ==
    ASSUME NEW t, NEW id, NEW top, NEW k, NEW at, IsLine(at, k, t, id, top),
           Live(t) \subseteq Cat
    PROVE  k <= MaxCat /\ \A n \in 0 .. k - 1 : at[n + 1] # at[n]
<1>0. k \in Nat /\ MaxCat \in Nat /\ \A n \in 0 .. k - 1 : at[n] \in Live(t)
  BY LimitAssumption DEF IsLine
<1>1. \A i, j \in 0..k : at[i] = at[j] => i = j
  BY LineDistinct
<1> DEFINE f == [n \in 0 .. k - 1 |-> at[n]]
<1>2. f \in Injection(0 .. k - 1, Cat)
  <2>1. f \in [0 .. k - 1 -> Cat]
    BY <1>0
  <2>2. \A i, j \in 0 .. k - 1 : f[i] = f[j] => i = j
    <3> TAKE i, j \in 0 .. k - 1
    <3>1. i \in 0..k /\ j \in 0..k
      BY <1>0
    <3> QED
      BY <1>1, <3>1
  <2> HIDE DEF f
  <2> QED
    BY <2>1, <2>2 DEF Injection, IsInjective
<1>3. IsFiniteSet(Cat) /\ Cardinality(Cat) = MaxCat
  BY <1>0, FS_Interval DEF Cat
<1>4. Cardinality(0 .. k - 1) <= Cardinality(Cat)
  BY <1>2, <1>3, FS_Injection
<1>5. Cardinality(0 .. k - 1) = k
  BY <1>0, FS_Interval
<1>6. \A n \in 0 .. k - 1 : at[n + 1] # at[n]
  <2> TAKE n \in 0 .. k - 1
  <2>1. n \in 0..k /\ n + 1 \in 0..k /\ n + 1 # n
    BY <1>0
  <2> QED
    BY <1>1, <2>1
<1> QED
  BY <1>3, <1>4, <1>5, <1>6

(* A path once found is found within any limit that is no lower than the   *)
(* number of categories.                                                   *)
LEMMA PathFound ==
    ASSUME NEW t, NEW id, NEW top, NEW limit \in Nat, Live(t) \subseteq Cat,
           Climb(t, id, top, limit).at = top
    PROVE  \A more \in Nat : MaxCat <= more =>
              /\ Climb(t, id, top, more).at = top
              /\ Climb(t, id, top, more).path = Climb(t, id, top, limit).path
<1>1. PICK k, at : k \in 0..limit /\ IsLine(at, k, t, id, top)
  BY LineOfClimb
<1>2. k <= MaxCat /\ MaxCat \in Nat /\ \A n \in 0 .. k - 1 : at[n + 1] # at[n]
  BY <1>1, LineShort, LimitAssumption
<1>3. Climb(t, id, top, limit).path = LineSlugs(at, k, t)
  BY <1>1, <1>2, ClimbOfLine
<1>4. ASSUME NEW more \in Nat, MaxCat <= more
      PROVE  /\ Climb(t, id, top, more).at = top
             /\ Climb(t, id, top, more).path = LineSlugs(at, k, t)
  <2>1. k <= more
    BY <1>1, <1>2, <1>4
  <2> QED
    BY <1>1, <1>2, <2>1, ClimbOfLine
<1> QED
  BY <1>3, <1>4

-----------------------------------------------------------------------------
(* Lookups: what a step does to them.                                      *)

IsLookup(x) == x = [step |-> x.step, path |-> x.path, id |-> x.id, current |-> x.current]

(* A lookup under way whose match names its category has seen it do so.    *)
Sees(rd, t) ==
    /\ rd = [r \in Reader |-> rd[r]]
    /\ \A r \in Reader :
        /\ IsLookup(rd[r])
        /\ rd[r].step # "idle" /\ Names(t, rd[r].path, rd[r].id) => rd[r].current

(* What is done to the lookups when the tree becomes t.                    *)
LookupsOver(rd, t) ==
    [r \in Reader |-> [rd[r] EXCEPT !.current = @ \/ Names(t, rd[r].path, rd[r].id)]]

(* y is the lookup x once the tree has become t.                           *)
IsOver(y, x, t) ==
    /\ IsLookup(y)
    /\ y.step = x.step /\ y.path = x.path /\ y.id = x.id
    /\ y.current = (x.current \/ Names(t, x.path, x.id))

LEMMA OverIs ==
    ASSUME NEW rd, NEW t, NEW t1, Sees(rd, t), NEW r \in Reader
    PROVE  IsOver(LookupsOver(rd, t1)[r], rd[r], t1)
<1> DEFINE b == rd[r].current \/ Names(t1, rd[r].path, rd[r].id)
<1>1. PICK v : v = b
  OBVIOUS
<1>2. rd[r] = [step |-> rd[r].step, path |-> rd[r].path, id |-> rd[r].id,
               current |-> rd[r].current]
  BY DEF Sees, IsLookup
<1>3. LookupsOver(rd, t1)[r] = [rd[r] EXCEPT !.current = v]
  BY <1>1, Zenon DEF LookupsOver
<1>4. [rd[r] EXCEPT !.current = v] =
        [step |-> rd[r].step, path |-> rd[r].path, id |-> rd[r].id, current |-> v]
  BY <1>2
<1>5. PICK y : y = LookupsOver(rd, t1)[r]
  OBVIOUS
<1>6. y = [step |-> rd[r].step, path |-> rd[r].path, id |-> rd[r].id, current |-> v]
  BY <1>3, <1>4, <1>5
<1>7. y.step = rd[r].step /\ y.path = rd[r].path /\ y.id = rd[r].id /\ y.current = v
  BY <1>6
<1> QED
  BY <1>1, <1>5, <1>6, <1>7, Zenon DEF IsOver, IsLookup

LEMMA OverSees ==
    ASSUME NEW rd, NEW t, NEW t1, Sees(rd, t)
    PROVE  Sees(LookupsOver(rd, t1), t1)
<1>1. LookupsOver(rd, t1) = [r \in Reader |-> LookupsOver(rd, t1)[r]]
  BY DEF LookupsOver
<1>2. ASSUME NEW r \in Reader
      PROVE  /\ IsLookup(LookupsOver(rd, t1)[r])
             /\ Names(t1, LookupsOver(rd, t1)[r].path, LookupsOver(rd, t1)[r].id)
                  => LookupsOver(rd, t1)[r].current
  <2>1. IsOver(LookupsOver(rd, t1)[r], rd[r], t1)
    BY OverIs
  <2> QED
    BY <2>1, Zenon DEF IsOver
<1> QED
  BY <1>1, <1>2, Zenon DEF Sees

(* A write: each lookup sees the tree it leaves.                           *)
LEMMA WrittenSees ==
    ASSUME Sees(reader, tree), Witnessed(tree')
    PROVE  Sees(reader', tree')
<1>1. reader' = LookupsOver(reader, tree')
  BY DEF Witnessed, LookupsOver
<1>2. PICK t1 : t1 = tree'
  OBVIOUS
<1> QED
  BY <1>1, <1>2, OverSees

(* The lookup of one thread goes on.                                       *)
LEMMA OneLookup ==
    ASSUME NEW rd, NEW t, Sees(rd, t), NEW r \in Reader, NEW x, IsLookup(x),
           x.step # "idle" /\ Names(t, x.path, x.id) => x.current
    PROVE  Sees([rd EXCEPT ![r] = x], t)
BY Zenon DEF Sees

LEMMA Stepped ==
    ASSUME NEW x, IsLookup(x), NEW s
    PROVE  /\ IsLookup([x EXCEPT !.step = s])
           /\ [x EXCEPT !.step = s].step = s /\ [x EXCEPT !.step = s].path = x.path
           /\ [x EXCEPT !.step = s].id = x.id /\ [x EXCEPT !.step = s].current = x.current
<1>1. PICK y : y = [x EXCEPT !.step = s]
  OBVIOUS
<1>2. y = [step |-> s, path |-> x.path, id |-> x.id, current |-> x.current]
  BY <1>1 DEF IsLookup
<1>3. y.step = s /\ y.path = x.path /\ y.id = x.id /\ y.current = x.current
  BY <1>2
<1> QED
  BY <1>1, <1>2, <1>3 DEF IsLookup

LEMMA IdleLookup == IsLookup(NoReader) /\ NoReader.step = "idle"
BY DEF IsLookup, NoReader

(* A lookup that goes on after its search ends, stays or takes a step.     *)
LookupGoesOn(r) == LookupAnswer(r) \/ LookupClimb(r) \/ LookupName(r) \/ LookupReturn(r)

LEMMA LookupMoves ==
    ASSUME NEW r \in Reader, LookupGoesOn(r)
    PROVE  /\ UNCHANGED directory /\ reader[r].step # "idle"
           /\ \/ reader' = reader
              \/ reader' = [reader EXCEPT ![r] = NoReader]
              \/ \E s : reader' = [reader EXCEPT ![r].step = s]
BY Zenon DEF LookupGoesOn, LookupAnswer, LookupClimb, LookupName, LookupReturn, LookupEnds

LEMMA SearchSees ==
    ASSUME NEW r \in Reader, Sees(reader, tree), LookupSearch(r)
    PROVE  Sees(reader', tree)
<1>1. PICK p, id : reader' = [reader EXCEPT ![r] =
                        [step |-> "found", path |-> p, id |-> id,
                         current |-> Names(tree, p, id)]]
  BY Zenon DEF LookupSearch
<1>2. PICK b : b = Names(tree, p, id)
  OBVIOUS
<1>3. PICK x : x = [step |-> "found", path |-> p, id |-> id, current |-> b]
  OBVIOUS
<1>4. IsLookup(x) /\ x.step = "found" /\ x.path = p /\ x.id = id /\ x.current = b
  BY <1>3 DEF IsLookup
<1>5. reader' = [reader EXCEPT ![r] = x]
  BY <1>1, <1>2, <1>3, Zenon
<1>6. Names(tree, x.path, x.id) => x.current
  BY <1>2, <1>4, Zenon
<1> QED
  BY <1>4, <1>5, <1>6, OneLookup

LEMMA MoveSees ==
    ASSUME NEW r \in Reader, Sees(reader, tree), LookupGoesOn(r)
    PROVE  Sees(reader', tree)
<1> DEFINE old == reader[r]
<1>0. IsLookup(old) /\ (old.step # "idle" /\ Names(tree, old.path, old.id) => old.current)
  BY Zenon DEF Sees
<1>1. CASE reader' = reader
  BY <1>1
<1>2. CASE reader' = [reader EXCEPT ![r] = NoReader]
  BY <1>2, IdleLookup, OneLookup
<1>3. ASSUME NEW s, reader' = [reader EXCEPT ![r].step = s] PROVE Sees(reader', tree)
  <2>1. PICK x : x = [old EXCEPT !.step = s]
    OBVIOUS
  <2>2. /\ IsLookup(x) /\ x.path = old.path /\ x.id = old.id /\ x.current = old.current
    BY <1>0, <2>1, Stepped
  <2>3. old.step # "idle"
    BY LookupMoves
  <2>4. reader' = [reader EXCEPT ![r] = x]
    BY <1>3, <2>1
  <2> HIDE DEF old
  <2>5. Names(tree, x.path, x.id) => x.current
    BY <1>0, <2>2, <2>3, Zenon
  <2> QED
    BY <2>2, <2>4, <2>5, OneLookup
<1> QED
  BY <1>1, <1>2, <1>3, LookupMoves, Zenon

-----------------------------------------------------------------------------
(* Trees of categories, and induction along them.                          *)

Sound(t) ==
    /\ Live(t) \subseteq Cat
    /\ \A c \in Live(t) : t[c] \in [parent : Live(t) \cup {Root}, slug : Slug]
    /\ \A c \in Live(t) : \E k, at : IsLine(at, k, t, c, Root)

Reach(t, c, top) == Climb(t, c, top, MaxCat + 1).at = top
Below(t, c, top) == Climb(t, c, top, MaxCat + 1).path

LEMMA NotRoot == Root \notin Cat /\ Root = 0
BY DEF Root, Cat

(* What passes from a parent to its children reaches what is below top.    *)
LEMMA LineInduction ==
    ASSUME NEW t, NEW id, NEW top, NEW k, NEW at, IsLine(at, k, t, id, top), id # top,
           NEW S, \A c \in Live(t) \ {top} : t[c].parent = top \/ t[c].parent \in S => c \in S
    PROVE  id \in S
<1>0. /\ k \in Nat /\ at[0] = id /\ at[k] = top
      /\ \A n \in 0 .. k - 1 : at[n] \in Live(t) \ {top} /\ at[n + 1] = t[at[n]].parent
  BY DEF IsLine
<1>1. k # 0
  BY <1>0
<1> DEFINE M == {m \in Nat : m < k => at[(k - 1) - m] \in S}
<1>2. 0 \in M
  <2>1. k - 1 \in 0 .. k - 1 /\ (k - 1) + 1 = k /\ (k - 1) - 0 = k - 1
    BY <1>0, <1>1
  <2>2. at[k - 1] \in S
    BY <1>0, <2>1
  <2> QED
    BY <2>1, <2>2
<1>3. ASSUME NEW m \in Nat, m \in M PROVE m + 1 \in M
  <2> SUFFICES ASSUME m + 1 < k PROVE at[(k - 1) - (m + 1)] \in S
    OBVIOUS
  <2>1. /\ (k - 1) - (m + 1) \in 0 .. k - 1 /\ m < k
        /\ ((k - 1) - (m + 1)) + 1 = (k - 1) - m
    BY <1>0
  <2>2. at[(k - 1) - m] \in S
    BY <1>3, <2>1
  <2> QED
    BY <1>0, <2>1, <2>2
<1> HIDE DEF M
<1>4. Nat \subseteq M
  BY <1>2, <1>3, AllNumbers
<1>5. k - 1 \in Nat /\ k - 1 < k /\ (k - 1) - (k - 1) = 0
  BY <1>0, <1>1
<1>6. at[0] \in S
  BY <1>4, <1>5 DEF M
<1> QED
  BY <1>0, <1>6

LEMMA TreeInduction ==
    ASSUME NEW t, Sound(t),
           NEW S, \A c \in Live(t) : t[c].parent = Root \/ t[c].parent \in S => c \in S
    PROVE  Live(t) \subseteq S
<1> SUFFICES ASSUME NEW c \in Live(t) PROVE c \in S
  OBVIOUS
<1>1. PICK k, at : IsLine(at, k, t, c, Root)
  BY DEF Sound
<1>2. c # Root
  BY NotRoot DEF Sound
<1> QED
  BY <1>1, <1>2, LineInduction

(* Lines with one category more.                                           *)
IsCons(more, at, k, t, c, top) ==
    /\ IsLine(more, k + 1, t, c, top)
    /\ LineSlugs(more, k + 1, t) = Append(LineSlugs(at, k, t), t[c].slug)

LEMMA LineCons ==
    ASSUME NEW t, NEW top, NEW c \in Live(t), c # top, NEW k, NEW at,
           IsLine(at, k, t, t[c].parent, top)
    PROVE  \E more : IsCons(more, at, k, t, c, top)
<1>0. /\ k \in Nat /\ at[0] = t[c].parent /\ at[k] = top
      /\ \A n \in 0 .. k - 1 : at[n] \in Live(t) \ {top} /\ at[n + 1] = t[at[n]].parent
  BY DEF IsLine
<1> DEFINE more == [n \in 0 .. k + 1 |-> IF n = 0 THEN c ELSE at[n - 1]]
<1>1. more[0] = c /\ \A n \in 0..k : more[n + 1] = at[n]
  <2>1. \A n \in 0..k : n + 1 \in 0 .. k + 1 /\ n + 1 # 0 /\ (n + 1) - 1 = n
    BY <1>0
  <2>2. 0 \in 0 .. k + 1
    BY <1>0
  <2> QED
    BY <2>1, <2>2
<1> HIDE DEF more
<1>2. ASSUME NEW n \in 0 .. (k + 1) - 1
      PROVE  more[n] \in Live(t) \ {top} /\ more[n + 1] = t[more[n]].parent
  <2>1. CASE n = 0
    <3>1. 0 \in 0..k
      BY <1>0
    <3> QED
      BY <1>0, <1>1, <2>1, <3>1
  <2>2. CASE n # 0
    <3>1. n - 1 \in 0 .. k - 1 /\ n - 1 \in 0..k /\ n \in 0..k /\ (n - 1) + 1 = n
      BY <1>0, <2>2
    <3>2. more[n] = at[n - 1] /\ more[n + 1] = at[n]
      BY <1>1, <3>1
    <3> QED
      BY <1>0, <3>1, <3>2
  <2> QED
    BY <2>1, <2>2
<1>3. IsLine(more, k + 1, t, c, top)
  <2>1. k + 1 \in Nat /\ k \in 0..k
    BY <1>0
  <2> QED
    BY <1>0, <1>1, <1>2, <2>1 DEF IsLine
<1>4. LineSlugs(more, k + 1, t) = Append(LineSlugs(at, k, t), t[c].slug)
  <2> DEFINE s == [n \in 1..k |-> t[at[k - n]].slug]
             longer == [n \in 1 .. k + 1 |-> t[more[(k + 1) - n]].slug]
  <2>1. Len(s) = k /\ Append(s, t[c].slug) = [n \in 1 .. k + 1 |-> IF n = k + 1 THEN t[c].slug ELSE s[n]]
    BY <1>0
  <2>2. \A n \in 1 .. k + 1 : longer[n] = IF n = k + 1 THEN t[c].slug ELSE s[n]
    <3> TAKE n \in 1 .. k + 1
    <3>1. CASE n = k + 1
      <4>1. (k + 1) - n = 0
        BY <1>0, <3>1
      <4> QED
        BY <1>1, <3>1, <4>1
    <3>2. CASE n # k + 1
      <4>1. n \in 1..k /\ k - n \in 0..k /\ (k - n) + 1 = (k + 1) - n
        BY <1>0, <3>2
      <4> QED
        BY <1>1, <3>2, <4>1
    <3> QED
      BY <3>1, <3>2
  <2>3. longer = [n \in 1 .. k + 1 |-> longer[n]]
    OBVIOUS
  <2> HIDE DEF longer, s
  <2>4. longer = Append(s, t[c].slug)
    BY <2>1, <2>2, <2>3
  <2> QED
    BY <2>4 DEF longer, s, LineSlugs
<1> QED
  BY <1>3, <1>4 DEF IsCons

LEMMA LineUncons ==
    ASSUME NEW t, NEW top, NEW c, c # top, NEW k, NEW at, IsLine(at, k, t, c, top)
    PROVE  c \in Live(t) /\ k > 0 /\ \E less : IsLine(less, k - 1, t, t[c].parent, top)
<1>0. /\ k \in Nat /\ at[0] = c /\ at[k] = top
      /\ \A n \in 0 .. k - 1 : at[n] \in Live(t) \ {top} /\ at[n + 1] = t[at[n]].parent
  BY DEF IsLine
<1>1. k > 0 /\ 0 \in 0 .. k - 1 /\ k - 1 \in Nat
  BY <1>0
<1> DEFINE less == [n \in 0 .. k - 1 |-> at[n + 1]]
<1>2. \A n \in 0 .. k - 1 : less[n] = at[n + 1]
  OBVIOUS
<1> HIDE DEF less
<1>3. less[0] = t[c].parent
  BY <1>0, <1>1, <1>2
<1>4. less[k - 1] = top
  <2>1. k - 1 \in 0 .. k - 1 /\ (k - 1) + 1 = k
    BY <1>0, <1>1
  <2> QED
    BY <1>0, <1>2, <2>1
<1>5. ASSUME NEW n \in 0 .. (k - 1) - 1
      PROVE  less[n] \in Live(t) \ {top} /\ less[n + 1] = t[less[n]].parent
  <2>1. n \in 0 .. k - 1 /\ n + 1 \in 0 .. k - 1
    BY <1>0, <1>1
  <2> QED
    BY <1>0, <1>2, <2>1
<1>6. IsLine(less, k - 1, t, t[c].parent, top)
  BY <1>1, <1>3, <1>4, <1>5 DEF IsLine
<1> QED
  BY <1>0, <1>1, <1>6

-----------------------------------------------------------------------------
(* Reaching a category: one step at a time, and with any limit that will   *)
(* do.                                                                     *)

LEMMA ReachLine ==
    ASSUME NEW t, Live(t) \subseteq Cat, NEW c, NEW top
    PROVE  Reach(t, c, top) <=> \E k, at : IsLine(at, k, t, c, top)
<1>0. MaxCat \in Nat /\ MaxCat + 1 \in Nat
  BY LimitAssumption
<1>1. ASSUME Reach(t, c, top) PROVE \E k, at : IsLine(at, k, t, c, top)
  BY <1>0, <1>1, LineOfClimb DEF Reach
<1>2. ASSUME NEW k, NEW at, IsLine(at, k, t, c, top) PROVE Reach(t, c, top)
  <2>1. k <= MaxCat /\ \A n \in 0 .. k - 1 : at[n + 1] # at[n]
    BY <1>2, LineShort
  <2>2. k <= MaxCat + 1
    BY <1>0, <1>2, <2>1 DEF IsLine
  <2> QED
    BY <1>0, <1>2, <2>1, <2>2, ClimbOfLine DEF Reach
<1> QED
  BY <1>1, <1>2

LEMMA BelowLine ==
    ASSUME NEW t, Live(t) \subseteq Cat, NEW c, NEW top, NEW k, NEW at,
           IsLine(at, k, t, c, top)
    PROVE  Below(t, c, top) = LineSlugs(at, k, t)
<1>0. MaxCat \in Nat /\ MaxCat + 1 \in Nat
  BY LimitAssumption
<1>1. k <= MaxCat /\ \A n \in 0 .. k - 1 : at[n + 1] # at[n]
  BY LineShort
<1>2. k <= MaxCat + 1
  BY <1>0, <1>1 DEF IsLine
<1> QED
  BY <1>0, <1>1, <1>2, ClimbOfLine DEF Below

LEMMA AnyLimit ==
    ASSUME NEW t, Live(t) \subseteq Cat, NEW c, NEW top, NEW limit \in Nat, MaxCat <= limit
    PROVE  /\ Climb(t, c, top, limit).at = top <=> Reach(t, c, top)
           /\ Reach(t, c, top) => Climb(t, c, top, limit).path = Below(t, c, top)
<1>0. MaxCat \in Nat /\ MaxCat + 1 \in Nat /\ MaxCat <= MaxCat + 1
  BY LimitAssumption
<1>1. ASSUME Reach(t, c, top)
      PROVE  /\ Climb(t, c, top, limit).at = top
             /\ Climb(t, c, top, limit).path = Below(t, c, top)
  BY <1>0, <1>1, PathFound DEF Reach, Below
<1>2. ASSUME Climb(t, c, top, limit).at = top PROVE Reach(t, c, top)
  BY <1>0, <1>2, PathFound DEF Reach
<1> QED
  BY <1>1, <1>2

LEMMA ReachSelf ==
    ASSUME NEW t, Live(t) \subseteq Cat, NEW top
    PROVE  Reach(t, top, top) /\ Below(t, top, top) = <<>>
<1> DEFINE at == [n \in {0} |-> top]
<1>1. IsLine(at, 0, t, top, top)
  BY DEF IsLine
<1>2. LineSlugs(at, 0, t) = <<>>
  BY DEF LineSlugs
<1> QED
  BY <1>1, <1>2, ReachLine, BelowLine

LEMMA ReachStep ==
    ASSUME NEW t, Live(t) \subseteq Cat, NEW top, NEW c \in Live(t), c # top
    PROVE  /\ Reach(t, c, top) <=> Reach(t, t[c].parent, top)
           /\ Reach(t, c, top) =>
                Below(t, c, top) = Append(Below(t, t[c].parent, top), t[c].slug)
<1>1. ASSUME Reach(t, c, top) PROVE Reach(t, t[c].parent, top)
  <2>1. PICK k, at : IsLine(at, k, t, c, top)
    BY <1>1, ReachLine
  <2>2. \E less : IsLine(less, k - 1, t, t[c].parent, top)
    BY <2>1, LineUncons
  <2> QED
    BY <2>2, ReachLine
<1>2. ASSUME Reach(t, t[c].parent, top)
      PROVE  /\ Reach(t, c, top)
             /\ Below(t, c, top) = Append(Below(t, t[c].parent, top), t[c].slug)
  <2>1. PICK k, at : IsLine(at, k, t, t[c].parent, top)
    BY <1>2, ReachLine
  <2>2a. PICK more : IsCons(more, at, k, t, c, top)
    BY <2>1, LineCons
  <2>2. /\ IsLine(more, k + 1, t, c, top)
        /\ LineSlugs(more, k + 1, t) = Append(LineSlugs(at, k, t), t[c].slug)
    BY <2>2a DEF IsCons
  <2>3. Below(t, t[c].parent, top) = LineSlugs(at, k, t)
    BY <2>1, BelowLine
  <2>4. Below(t, c, top) = LineSlugs(more, k + 1, t)
    BY <2>2, BelowLine
  <2>5. Reach(t, c, top)
    BY <2>2, ReachLine
  <2> QED
    BY <2>2, <2>3, <2>4, <2>5
<1> QED
  BY <1>1, <1>2

(* What has no parent reaches nothing but itself.                          *)
LEMMA ReachEnds ==
    ASSUME NEW t, Live(t) \subseteq Cat, NEW top, NEW c, Reach(t, c, top), c # top
    PROVE  c \in Live(t)
<1>1. PICK k, at : IsLine(at, k, t, c, top)
  BY ReachLine
<1> QED
  BY <1>1, LineUncons

(* The path of a category is that of its parent and its slug.              *)
LEMMA PathStep ==
    ASSUME NEW t, Sound(t)
    PROVE  /\ TruePath(t, Root) = <<>>
           /\ \A c \in Live(t) :
                TruePath(t, c) = Append(TruePath(t, t[c].parent), t[c].slug)
<1>0. Live(t) \subseteq Cat
  BY DEF Sound
<1>1. \A c : TruePath(t, c) = Below(t, c, Root)
  BY DEF TruePath, Below
<1>2. TruePath(t, Root) = <<>>
  BY <1>0, <1>1, ReachSelf
<1>3. ASSUME NEW c \in Live(t)
      PROVE  TruePath(t, c) = Append(TruePath(t, t[c].parent), t[c].slug)
  <2>1. c # Root /\ \E k, at : IsLine(at, k, t, c, Root)
    BY <1>0, NotRoot DEF Sound
  <2>2. Reach(t, c, Root)
    BY <1>0, <2>1, ReachLine
  <2>3. Below(t, c, Root) = Append(Below(t, t[c].parent, Root), t[c].slug)
    BY <1>0, <2>1, <2>2, ReachStep
  <2> QED
    BY <1>1, <2>3
<1> QED
  BY <1>2, <1>3

LEMMA PathType ==
    ASSUME NEW t, Sound(t)
    PROVE  /\ \A c \in Live(t) \cup {Root} : TruePath(t, c) \in Seq(Slug)
           /\ \A c \in Live(t) : TruePath(t, c) # <<>>
<1> DEFINE S == {c \in Live(t) : TruePath(t, c) \in Seq(Slug)}
<1>1. TruePath(t, Root) \in Seq(Slug)
  <2>1. TruePath(t, Root) = <<>> /\ <<>> \in Seq(Slug)
    BY PathStep
  <2> QED
    BY <2>1
<1>2. ASSUME NEW c \in Live(t), TruePath(t, t[c].parent) \in Seq(Slug)
      PROVE  TruePath(t, c) \in Seq(Slug) /\ TruePath(t, c) # <<>>
  <2>1. t[c].slug \in Slug
    BY DEF Sound
  <2>2. TruePath(t, c) = Append(TruePath(t, t[c].parent), t[c].slug)
    BY PathStep
  <2>3. PICK q \in Seq(Slug) : q = TruePath(t, t[c].parent)
    BY <1>2
  <2>4. Append(q, t[c].slug) \in Seq(Slug) /\ Append(q, t[c].slug) # <<>>
    BY <2>1, AppendProperties
  <2> QED
    BY <2>2, <2>3, <2>4
<1>3. \A c \in Live(t) : t[c].parent = Root \/ t[c].parent \in S => c \in S
  BY <1>1, <1>2
<1> HIDE DEF S
<1>4. Live(t) \subseteq S
  BY <1>3, TreeInduction
<1>5. ASSUME NEW c \in Live(t) PROVE TruePath(t, c) \in Seq(Slug) /\ TruePath(t, c) # <<>>
  <2>1. t[c].parent \in Live(t) \cup {Root}
    BY DEF Sound
  <2>2. TruePath(t, t[c].parent) \in Seq(Slug)
    BY <1>1, <1>4, <2>1 DEF S
  <2> QED
    BY <1>2, <2>2
<1> QED
  BY <1>1, <1>5

-----------------------------------------------------------------------------
(* Descendants.                                                            *)

LEMMA DescendantStep ==
    ASSUME NEW t, Live(t) \subseteq Cat, NEW root, NEW c \in Live(t), c # root
    PROVE  c \in Descendants(t, root) <=>
              t[c].parent = root \/ t[c].parent \in Descendants(t, root)
<1>0. \A d : d \in Descendants(t, root) <=> d \in Live(t) /\ d # root /\ Reach(t, d, root)
  BY DEF Descendants, Reach
<1>1. Reach(t, root, root)
  BY ReachSelf
<1>2. Reach(t, c, root) <=> Reach(t, t[c].parent, root)
  BY ReachStep
<1>3. Reach(t, t[c].parent, root) /\ t[c].parent # root => t[c].parent \in Live(t)
  BY ReachEnds
<1> QED
  BY <1>0, <1>1, <1>2, <1>3

LEMMA DescendantInduction ==
    ASSUME NEW t, Live(t) \subseteq Cat, NEW root,
           NEW S, \A c \in Live(t) \ {root} :
                     t[c].parent = root \/ t[c].parent \in S => c \in S
    PROVE  Descendants(t, root) \subseteq S
<1> SUFFICES ASSUME NEW c \in Descendants(t, root) PROVE c \in S
  OBVIOUS
<1>1. c # root /\ Reach(t, c, root)
  BY DEF Descendants, Reach
<1>2. PICK k, at : IsLine(at, k, t, c, root)
  BY <1>1, ReachLine
<1> QED
  BY <1>1, <1>2, LineInduction

(* What lies below has the longer path, so nothing lies below itself.      *)
LEMMA DescendantDeeper ==
    ASSUME NEW t, Sound(t), NEW root \in Live(t), NEW c \in Descendants(t, root)
    PROVE  Len(TruePath(t, root)) < Len(TruePath(t, c))
<1> DEFINE S == {d \in Live(t) : Len(TruePath(t, root)) < Len(TruePath(t, d))}
<1>1. \A d \in Live(t) : /\ Len(TruePath(t, d)) = Len(TruePath(t, t[d].parent)) + 1
                         /\ Len(TruePath(t, d)) \in Nat
                         /\ Len(TruePath(t, t[d].parent)) \in Nat
  <2> TAKE d \in Live(t)
  <2>1. t[d].parent \in Live(t) \cup {Root} /\ t[d].slug \in Slug
    BY DEF Sound
  <2>2. PICK q \in Seq(Slug) : q = TruePath(t, t[d].parent)
    BY <2>1, PathType
  <2>3. Len(Append(q, t[d].slug)) = Len(q) + 1 /\ Len(q) \in Nat
    BY <2>1, <2>2
  <2> QED
    BY <2>2, <2>3, PathStep
<1>2. ASSUME NEW d \in Live(t) \ {root}, t[d].parent = root \/ t[d].parent \in S
      PROVE  d \in S
  <2>1. Len(TruePath(t, root)) <= Len(TruePath(t, t[d].parent))
    BY <1>1, <1>2
  <2>2. Len(TruePath(t, root)) \in Nat
    BY <1>1
  <2> QED
    BY <1>1, <2>1, <2>2
<1>3. Live(t) \subseteq Cat
  BY DEF Sound
<1> HIDE DEF S
<1>4. Descendants(t, root) \subseteq S
  BY <1>2, <1>3, DescendantInduction
<1> QED
  BY <1>4 DEF S

LEMMA ParentAbove ==
    ASSUME NEW t, Sound(t), NEW c \in Live(t)
    PROVE  t[c].parent # c /\ t[c].parent \notin Descendants(t, c)
<1> DEFINE p == t[c].parent
<1>1. p \in Live(t) \cup {Root} /\ t[c].slug \in Slug
  BY DEF Sound
<1>2. Len(TruePath(t, c)) = Len(TruePath(t, p)) + 1 /\ Len(TruePath(t, p)) \in Nat
  <2>1. PICK q \in Seq(Slug) : q = TruePath(t, p)
    BY <1>1, PathType
  <2>2. Len(Append(q, t[c].slug)) = Len(q) + 1 /\ Len(q) \in Nat
    BY <1>1, <2>1
  <2>3. TruePath(t, c) = Append(q, t[c].slug)
    BY <2>1, PathStep
  <2> QED
    BY <2>1, <2>2, <2>3
<1> HIDE DEF p
<1>3. p # c
  BY <1>2
<1>4. p \notin Descendants(t, c)
  <2> SUFFICES ASSUME p \in Descendants(t, c) PROVE FALSE
    OBVIOUS
  <2>1. Len(TruePath(t, c)) < Len(TruePath(t, p))
    BY DescendantDeeper
  <2> QED
    BY <1>2, <2>1
<1> QED
  BY <1>3, <1>4 DEF p

(* The descendants of a category are its children and theirs.              *)
LEMMA DescendantIs ==
    ASSUME NEW t, Sound(t), NEW root \in Live(t), NEW c \in Live(t)
    PROVE  c \in Descendants(t, root) <=>
              t[c].parent = root \/ t[c].parent \in Descendants(t, root)
<1>0. Live(t) \subseteq Cat
  BY DEF Sound
<1>1. CASE c = root
  <2>1. c \notin Descendants(t, root)
    BY <1>1 DEF Descendants
  <2> QED
    BY <1>1, <2>1, ParentAbove
<1>2. CASE c # root
  BY <1>0, <1>2, DescendantStep
<1> QED
  BY <1>1, <1>2

LEMMA DescendantsAre ==
    ASSUME NEW t, Live(t) \subseteq Cat, NEW root
    PROVE  Descendants(t, root) \subseteq Live(t) \ {root}
BY DEF Descendants

(* No chain of parents is longer than the writes can follow.               *)
Shallow(t) == \A c \in Live(t) : ~TooDeep(t, c)

LEMMA ShallowEnds ==
    ASSUME NEW t, Sound(t), Shallow(t), NEW c \in Live(t)
    PROVE  Climb(t, c, Root, DepthMax).at = Root
<1>1. DepthMax \in Nat
  BY LimitAssumption
<1>2. PICK up : IsClimbOf(up, t, c, Root, DepthMax)
  BY <1>1, ClimbIs
<1>3. /\ up[0] = c /\ \A n \in 0 .. DepthMax - 1 : up[n + 1] = Above(t, Root, up[n])
      /\ Climb(t, c, Root, DepthMax).at = up[DepthMax]
  BY <1>2 DEF IsClimbOf
<1> DEFINE S == {n \in Nat : n <= DepthMax => up[n] \in Live(t) \cup {Root}}
<1>4. 0 \in S
  BY <1>3
<1>5. \A n \in Nat : n \in S => n + 1 \in S
  <2> SUFFICES ASSUME NEW n \in Nat, n + 1 <= DepthMax, up[n] \in Live(t) \cup {Root}
               PROVE  up[n + 1] \in Live(t) \cup {Root}
    BY <1>1
  <2>1. up[n + 1] = Above(t, Root, up[n])
    BY <1>1, <1>3
  <2>2. \A d \in Live(t) : t[d].parent \in Live(t) \cup {Root}
    BY DEF Sound
  <2> QED
    BY <2>1, <2>2 DEF Above
<1> HIDE DEF S
<1>6. Nat \subseteq S
  BY <1>4, <1>5, AllNumbers
<1>7. up[DepthMax] \in Live(t) \cup {Root}
  BY <1>1, <1>6 DEF S
<1>8. Climb(t, c, Root, DepthMax).at \notin Live(t)
  BY DEF Shallow, TooDeep
<1> QED
  BY <1>3, <1>7, <1>8

(* Within that depth each climb ends that would end without it.            *)
LEMMA ShallowClimb ==
    ASSUME NEW t, Sound(t), Shallow(t), NEW top, NEW c \in Live(t) \cup {top},
           Reach(t, c, top)
    PROVE  /\ Climb(t, c, top, DepthMax).at = top
           /\ Climb(t, c, top, DepthMax).path = Below(t, c, top)
<1>0. Live(t) \subseteq Cat /\ DepthMax \in Nat /\ Root \notin Live(t)
  BY LimitAssumption, NotRoot DEF Sound
<1>1. PICK k, at : IsLine(at, k, t, c, top)
  BY <1>0, ReachLine
<1>2. /\ k \in Nat /\ at[0] = c /\ at[k] = top
      /\ \A n \in 0 .. k - 1 : at[n] \in Live(t) \ {top} /\ at[n + 1] = t[at[n]].parent
  BY <1>1 DEF IsLine
<1>3. k <= DepthMax
  <2>1. CASE c \in Live(t)
    <3>1. PICK m, up : m \in 0..DepthMax /\ IsLine(up, m, t, c, Root)
      BY <1>0, <2>1, ShallowEnds, LineOfClimb
    <3>2. /\ m \in Nat /\ up[0] = c /\ up[m] = Root
          /\ \A n \in 0 .. m - 1 : up[n + 1] = t[up[n]].parent
      BY <3>1 DEF IsLine
    <3> DEFINE S == {n \in Nat : n <= k /\ n <= m => up[n] = at[n]}
    <3>3. 0 \in S
      BY <1>2, <3>2
    <3>4. \A n \in Nat : n \in S => n + 1 \in S
      BY <1>2, <3>2
    <3> HIDE DEF S
    <3>5. Nat \subseteq S
      BY <3>3, <3>4, AllNumbers
    <3>6. m < k => at[m] = Root /\ at[m] \in Live(t)
      BY <1>2, <3>2, <3>5 DEF S
    <3> QED
      BY <1>0, <1>2, <3>1, <3>2, <3>6
  <2>2. CASE c \notin Live(t)
    BY <1>0, <1>2, <2>2
  <2> QED
    BY <2>1, <2>2
<1>4. \A n \in 0 .. k - 1 : at[n + 1] # at[n]
  BY <1>0, <1>1, LineShort
<1>5. Below(t, c, top) = LineSlugs(at, k, t)
  BY <1>0, <1>1, BelowLine
<1> QED
  BY <1>0, <1>1, <1>3, <1>4, <1>5, ClimbOfLine

(* A path put together from an old prefix: one step at a time.             *)
LEMMA OldStep ==
    ASSUME NEW t, Sound(t), NEW root \in Live(t), NEW prefix \in Seq(Slug),
           Shallow(t)
    PROVE  /\ OldPath(t, prefix, root, root) = prefix
           /\ \A c \in Descendants(t, root) :
                 /\ OldPath(t, prefix, root, t[c].parent) \in Seq(Slug)
                 /\ OldPath(t, prefix, root, c) =
                      Append(OldPath(t, prefix, root, t[c].parent), t[c].slug)
<1>0. Live(t) \subseteq Cat /\ DepthMax \in Nat
  BY LimitAssumption DEF Sound
<1> DEFINE In == Descendants(t, root) \cup {root}
<1>1. \A c \in In : Reach(t, c, root)
  BY <1>0, ReachSelf DEF Descendants, Reach
<1>2. \A c \in In : OldPath(t, prefix, root, c) = prefix \o Below(t, c, root)
  BY <1>0, <1>1, DescendantsAre, ShallowClimb DEF OldPath
<1>3. Below(t, root, root) = <<>>
  BY <1>0, ReachSelf
<1>4. \A c \in Descendants(t, root) :
          /\ c \in Live(t) /\ c # root /\ t[c].parent \in In /\ t[c].slug \in Slug
          /\ Below(t, c, root) = Append(Below(t, t[c].parent, root), t[c].slug)
  <2> TAKE c \in Descendants(t, root)
  <2>1. c \in Live(t) /\ c # root /\ Reach(t, c, root)
    BY <1>1 DEF Descendants
  <2>2. t[c].parent \in In
    BY <1>0, <2>1, DescendantStep
  <2>3. Below(t, c, root) = Append(Below(t, t[c].parent, root), t[c].slug)
    BY <1>0, <2>1, ReachStep
  <2> QED
    BY <2>1, <2>2, <2>3 DEF Sound
<1> DEFINE S == {c \in Live(t) : Below(t, c, root) \in Seq(Slug)}
<1>5. Descendants(t, root) \subseteq {c \in Live(t) : Below(t, c, root) \in Seq(Slug)}
  <2> DEFINE T == {c \in Live(t) : c \in Descendants(t, root) => Below(t, c, root) \in Seq(Slug)}
  <2>1. ASSUME NEW c \in Live(t) \ {root}, t[c].parent = root \/ t[c].parent \in T
        PROVE  c \in T
    <3> SUFFICES ASSUME c \in Descendants(t, root) PROVE Below(t, c, root) \in Seq(Slug)
      OBVIOUS
    <3>1. Below(t, t[c].parent, root) \in Seq(Slug)
      <4>1. <<>> \in Seq(Slug)
        OBVIOUS
      <4>2. t[c].parent = root \/ t[c].parent \in Descendants(t, root)
        BY <1>4
      <4>3. t[c].parent # root => t[c].parent \in T
        BY <2>1
      <4> QED
        BY <1>3, <4>1, <4>2, <4>3
    <3>2. PICK q \in Seq(Slug) : q = Below(t, t[c].parent, root)
      BY <3>1
    <3>3. Append(q, t[c].slug) \in Seq(Slug)
      BY <1>4, AppendProperties
    <3> QED
      BY <1>4, <3>2, <3>3
  <2> HIDE DEF T
  <2>2. Descendants(t, root) \subseteq T
    BY <1>0, <2>1, DescendantInduction
  <2> QED
    BY <1>0, <2>2, DescendantsAre DEF T
<1>6. \A c \in In : Below(t, c, root) \in Seq(Slug)
  <2>1. <<>> \in Seq(Slug)
    OBVIOUS
  <2> QED
    BY <1>3, <1>5, <2>1
<1>7. OldPath(t, prefix, root, root) = prefix
  <2>1. prefix \o <<>> = prefix
    BY ConcatEmptySeq
  <2> QED
    BY <1>2, <1>3, <2>1
<1>8. ASSUME NEW c \in Descendants(t, root)
      PROVE  /\ OldPath(t, prefix, root, t[c].parent) \in Seq(Slug)
             /\ OldPath(t, prefix, root, c) =
                  Append(OldPath(t, prefix, root, t[c].parent), t[c].slug)
  <2>1. PICK q \in Seq(Slug) : q = Below(t, t[c].parent, root)
    BY <1>4, <1>6
  <2>2. prefix \o q \in Seq(Slug)
    BY ConcatProperties
  <2>3. PICK s \in Slug : s = t[c].slug
    BY <1>4
  <2>4. prefix \o Append(q, s) = Append(prefix \o q, s)
    <3>1. <<s>> \in Seq(Slug)
      OBVIOUS
    <3>2. Append(q, s) = q \o <<s>> /\ Append(prefix \o q, s) = (prefix \o q) \o <<s>>
      BY <2>2, AppendIsConcat
    <3>3. (prefix \o q) \o <<s>> = prefix \o (q \o <<s>>)
      BY <3>1, ConcatAssociative
    <3> QED
      BY <3>2, <3>3
  <2> QED
    BY <1>2, <1>4, <2>1, <2>2, <2>3, <2>4
<1> QED
  BY <1>7, <1>8

-----------------------------------------------------------------------------
(* A series of swaps in the path index.                                    *)

Swap1(f, s) == With(Without(f, {s.old}), s.new, s.id)

LEMMA Swap1Is ==
    ASSUME NEW f, NEW s
    PROVE  /\ DOMAIN Swap1(f, s) = (DOMAIN f \ {s.old}) \cup {s.new}
           /\ Swap1(f, s)[s.new] = s.id
           /\ \A p \in DOMAIN f \ {s.old} : p # s.new => Swap1(f, s)[p] = f[p]
           /\ Swap1(f, s) = [p \in DOMAIN Swap1(f, s) |-> Swap1(f, s)[p]]
BY DEF Swap1, With, Without, Restrict

IsSwapFold(iter, index, swaps) ==
    iter = [s \in SUBSET DOMAIN swaps |->
               IF s = {} THEN index ELSE Swap1(iter[s \ {Max(s)}], swaps[Max(s)])]

LEMMA SwappedFold ==
    ASSUME NEW index, NEW swaps, \E iter : IsSwapFold(iter, index, swaps)
    PROVE  \E iter : IsSwapFold(iter, index, swaps)
                        /\ Swapped(index, swaps) = iter[DOMAIN swaps]
<1> DEFINE it == CHOOSE iter : IsSwapFold(iter, index, swaps)
<1>1. IsSwapFold(it, index, swaps)
  OBVIOUS
<1>2. Swapped(index, swaps) = it[DOMAIN swaps]
  BY DEF Swapped, FoldLeft, MapThenFoldSet, IsSwapFold, Swap1
<1> QED
  BY <1>1, <1>2

(* The greatest of finitely many numbers.                                  *)
LEMMA MaxIs ==
    ASSUME NEW n \in Nat, NEW S \in SUBSET (1..n), S # {}
    PROVE  Max(S) \in S /\ \A m \in S : m <= Max(S)
<1> DEFINE T == {m \in Nat : \E x \in S : m = n - x}
<1>1. T \subseteq Nat /\ T # {}
  <2>1. PICK x \in S : TRUE
    OBVIOUS
  <2>2. x \in 1..n /\ n - x \in Nat
    OBVIOUS
  <2> QED
    BY <2>2
<1>2. PICK m \in T : \A k \in T : m <= k
  <2> HIDE DEF T
  <2> QED
    BY <1>1, LeastNumber
<1>3. PICK x \in S : m = n - x
  BY <1>2
<1>4. ASSUME NEW y \in S PROVE x >= y
  <2>1. y \in 1..n /\ x \in 1..n
    OBVIOUS
  <2>2. n - y \in T
    BY <2>1
  <2>3. n - x <= n - y
    BY <1>2, <1>3, <2>2
  <2> QED
    BY <2>1, <2>3
<1>5. Max(S) \in S /\ \A y \in S : Max(S) >= y
  BY <1>4 DEF Max
<1>6. \A y \in S : y \in Nat
  OBVIOUS
<1> QED
  BY <1>5, <1>6

LEMMA SwapFoldExists ==
    ASSUME NEW index, NEW swaps, NEW n \in Nat, DOMAIN swaps = 1..n
    PROVE  \E iter : IsSwapFold(iter, index, swaps)
<1> DEFINE Body(iter, s) == IF s = {} THEN index
                            ELSE Swap1(iter[s \ {Max(s)}], swaps[Max(s)])
           Small(m) == {s \in SUBSET (1..n) : Cardinality(s) <= m}
           Upto(iter, m) == iter = [s \in Small(m) |-> Body(iter, s)]
           N == {m \in Nat : \E iter : Upto(iter, m)}
<1>0. /\ IsFiniteSet(1..n) /\ Cardinality(1..n) \in Nat
      /\ \A s \in SUBSET (1..n) : IsFiniteSet(s) /\ Cardinality(s) \in Nat
      /\ \A s \in SUBSET (1..n) : Cardinality(s) <= Cardinality(1..n)
      /\ \A s \in SUBSET (1..n) : Cardinality(s) = 0 <=> s = {}
  <2>1. IsFiniteSet(1..n)
    BY FS_Interval
  <2>2. PICK T : T = 1..n
    OBVIOUS
  <2>3. /\ IsFiniteSet(T) /\ Cardinality(T) \in Nat
        /\ \A s \in SUBSET T : IsFiniteSet(s) /\ Cardinality(s) \in Nat
        /\ \A s \in SUBSET T : Cardinality(s) <= Cardinality(T)
        /\ \A s \in SUBSET T : Cardinality(s) = 0 <=> s = {}
    BY <2>1, <2>2, FS_Subset, FS_CardinalityType, FS_EmptySet
  <2> QED
    BY <2>2, <2>3
<1>1. \A s \in SUBSET (1..n) : s # {} =>
          /\ s \ {Max(s)} \in SUBSET (1..n)
          /\ Cardinality(s \ {Max(s)}) = Cardinality(s) - 1
  <2> TAKE s \in SUBSET (1..n)
  <2> HAVE s # {}
  <2>1. PICK x : x = Max(s) /\ x \in s
    BY MaxIs
  <2>2. Cardinality(s \ {x}) = Cardinality(s) - 1
    BY <1>0, <2>1, FS_RemoveElement
  <2> QED
    BY <2>1, <2>2
<1>2. 0 \in N
  <2> DEFINE first == [s \in Small(0) |-> index]
  <2>1. \A s \in Small(0) : s = {}
    BY <1>0
  <2>2. \A s \in Small(0) : Body(first, s) = index
    BY <2>1
  <2> HIDE DEF Body, Small
  <2>3. Upto(first, 0)
    BY <2>2
  <2> HIDE DEF Upto, first
  <2> QED
    BY <2>3
<1>3. ASSUME NEW m \in Nat, m \in N PROVE m + 1 \in N
  <2>1. PICK iter : Upto(iter, m)
    BY <1>3
  <2> DEFINE longer == [s \in Small(m + 1) |-> IF s \in Small(m) THEN iter[s] ELSE Body(iter, s)]
  <2>2. ASSUME NEW s \in Small(m + 1) PROVE longer[s] = Body(longer, s)
    <3>1. longer[s] = Body(iter, s)
      <4>1. s \in Small(m) => iter[s] = Body(iter, s)
        <5> HIDE DEF Body, Small
        <5> QED
          BY <2>1
      <4> HIDE DEF Body, Small
      <4> QED
        BY <4>1
    <3>2. CASE s = {}
      BY <3>1, <3>2
    <3>3. CASE s # {}
      <4> DEFINE rest == s \ {Max(s)}
      <4>1. rest \in SUBSET (1..n) /\ Cardinality(rest) = Cardinality(s) - 1
            /\ Cardinality(s) \in Nat /\ Cardinality(s) <= m + 1
        BY <1>0, <1>1, <3>3
      <4>2. rest \in Small(m) /\ rest \in Small(m + 1)
        <5> HIDE DEF rest
        <5> QED
          BY <4>1
      <4>3. longer[rest] = iter[rest]
        <5> HIDE DEF rest, Small, Body
        <5> QED
          BY <4>2
      <4> HIDE DEF longer, Small
      <4> QED
        BY <3>1, <3>3, <4>3
    <3> QED
      BY <3>2, <3>3
  <2>3. Upto(longer, m + 1)
    <3>1. longer = [s \in Small(m + 1) |-> longer[s]]
      <4> HIDE DEF Small, Body
      <4> QED
        OBVIOUS
    <3> HIDE DEF longer, Small, Body
    <3> QED
      BY <2>2, <3>1
  <2> HIDE DEF longer, Upto
  <2> QED
    BY <2>3
<1>4. PICK c \in Nat : c = Cardinality(1..n)
  BY <1>0
<1>5. c \in N
  <2> HIDE DEF N
  <2> QED
    BY <1>2, <1>3, AllNumbers
<1>6. PICK iter : Upto(iter, c)
  BY <1>5
<1>7. Small(c) = SUBSET (1..n)
  BY <1>0, <1>4
<1>8. iter = [s \in SUBSET (1..n) |-> Body(iter, s)]
  <2> HIDE DEF Small, Body
  <2> QED
    BY <1>6, <1>7
<1> QED
  BY <1>8 DEF IsSwapFold

IsSwapWalk(g, n, index, swaps) ==
    /\ g[0] = index /\ g[n] = Swapped(index, swaps)
    /\ \A i \in 0 .. n - 1 : g[i + 1] = Swap1(g[i], swaps[i + 1])

(* The swaps are done one after the other.                                 *)
LEMMA SwapWalk ==
    ASSUME NEW index, NEW swaps, NEW n \in Nat, DOMAIN swaps = 1..n
    PROVE  \E g : IsSwapWalk(g, n, index, swaps)
<1>1. PICK iter : IsSwapFold(iter, index, swaps) /\ Swapped(index, swaps) = iter[1..n]
  BY SwapFoldExists, SwappedFold
<1> DEFINE g == [i \in 0..n |-> iter[1..i]]
<1>2. iter = [s \in SUBSET (1..n) |->
                 IF s = {} THEN index ELSE Swap1(iter[s \ {Max(s)}], swaps[Max(s)])]
  BY <1>1 DEF IsSwapFold
<1>3. g[0] = index
  <2>1. 1..0 = {} /\ {} \in SUBSET (1..n) /\ 0 \in 0..n
    OBVIOUS
  <2>2. iter[{}] = index
    BY <1>2, <2>1
  <2> QED
    BY <2>1, <2>2
<1>4. ASSUME NEW i \in 0 .. n - 1 PROVE g[i + 1] = Swap1(g[i], swaps[i + 1])
  <2>1. i \in 0..n /\ i + 1 \in 0..n /\ 1 .. i + 1 \in SUBSET (1..n) /\ i + 1 \in 1 .. i + 1
    OBVIOUS
  <2>2. Max(1 .. i + 1) = i + 1
    <3>1. PICK x : x = Max(1 .. i + 1)
      OBVIOUS
    <3>2. x \in 1 .. i + 1 /\ \A m \in 1 .. i + 1 : m <= x
      BY <2>1, <3>1, MaxIs
    <3>3. i + 1 <= x
      BY <2>1, <3>2
    <3> QED
      BY <3>1, <3>2, <3>3
  <2>3. (1 .. i + 1) \ {i + 1} = 1..i
    OBVIOUS
  <2>4. iter[1 .. i + 1] = Swap1(iter[(1 .. i + 1) \ {Max(1 .. i + 1)}], swaps[Max(1 .. i + 1)])
    BY <1>2, <2>1
  <2> QED
    BY <2>1, <2>2, <2>3, <2>4
<1>5. g[n] = Swapped(index, swaps)
  BY <1>1
<1> QED
  BY <1>3, <1>4, <1>5 DEF IsSwapWalk

Olds(swaps, n) == {swaps[i].old : i \in 1..n}
News(swaps, n) == {swaps[i].new : i \in 1..n}

(* What n swaps leave of f.                                                *)
IsSwapped(g, f, swaps, n) ==
    /\ g = [p \in DOMAIN g |-> g[p]]
    /\ DOMAIN g = (DOMAIN f \ Olds(swaps, n)) \cup News(swaps, n)
    /\ \A i \in 1..n : g[swaps[i].new] = swaps[i].id
    /\ \A p \in DOMAIN f \ (Olds(swaps, n) \cup News(swaps, n)) : g[p] = f[p]

(* Swaps whose old paths are not among the new ones do not get into each   *)
(* other's way.                                                            *)
LEMMA SwappedIs ==
    ASSUME NEW f, f = [p \in DOMAIN f |-> f[p]],
           NEW swaps, NEW n \in Nat, DOMAIN swaps = 1..n,
           Olds(swaps, n) \cap News(swaps, n) = {},
           \A i, j \in 1..n : swaps[i].new = swaps[j].new => swaps[i].id = swaps[j].id
    PROVE  IsSwapped(Swapped(f, swaps), f, swaps, n)
<1>1. PICK g : IsSwapWalk(g, n, f, swaps)
  BY SwapWalk
<1>2. /\ g[0] = f /\ g[n] = Swapped(f, swaps)
      /\ \A i \in 0 .. n - 1 : g[i + 1] = Swap1(g[i], swaps[i + 1])
  BY <1>1 DEF IsSwapWalk
<1> DEFINE S == {m \in Nat : m <= n => IsSwapped(g[m], f, swaps, m)}
<1>3. 0 \in S
  <2>1. Olds(swaps, 0) = {} /\ News(swaps, 0) = {} /\ 1..0 = {}
    BY DEF Olds, News
  <2>2. IsSwapped(f, f, swaps, 0)
    BY <2>1 DEF IsSwapped
  <2> QED
    BY <1>2, <2>2
<1>4. ASSUME NEW m \in Nat, m \in S PROVE m + 1 \in S
  <2> SUFFICES ASSUME m + 1 <= n PROVE IsSwapped(g[m + 1], f, swaps, m + 1)
    OBVIOUS
  <2>1. m \in 0 .. n - 1 /\ m <= n /\ m + 1 \in 1..n /\ 1..m \subseteq 1..n
    OBVIOUS
  <2> DEFINE s == swaps[m + 1]
             h == g[m]
             k == Swap1(h, s)
  <2>2. IsSwapped(h, f, swaps, m)
    BY <1>4, <2>1
  <2>3. g[m + 1] = k
    BY <1>2, <2>1
  <2>4. /\ DOMAIN k = (DOMAIN h \ {s.old}) \cup {s.new}
        /\ k[s.new] = s.id
        /\ \A p \in DOMAIN h \ {s.old} : p # s.new => k[p] = h[p]
        /\ k = [p \in DOMAIN k |-> k[p]]
    <3> HIDE DEF h, s
    <3> QED
      BY Swap1Is, Zenon DEF k
  <2>5. 1 .. m + 1 = (1..m) \cup {m + 1}
    OBVIOUS
  <2>6. /\ Olds(swaps, m + 1) = Olds(swaps, m) \cup {s.old}
        /\ News(swaps, m + 1) = News(swaps, m) \cup {s.new}
    BY <2>5 DEF Olds, News
  <2>7. s.old \notin News(swaps, m) /\ s.old # s.new
    <3>1. s.old \in Olds(swaps, n) /\ s.new \in News(swaps, n)
      BY <2>1 DEF Olds, News
    <3>2. News(swaps, m) \subseteq News(swaps, n)
      BY <2>1 DEF News
    <3> QED
      BY <3>1, <3>2
  <2>8. \A i \in 1..m : swaps[i].new = s.new => swaps[i].id = s.id
    BY <2>1
  <2>9. \A i \in 1..m : swaps[i].new \in News(swaps, m)
    BY DEF News
  <2> HIDE DEF h, k, s
  <2>10. /\ DOMAIN h = (DOMAIN f \ Olds(swaps, m)) \cup News(swaps, m)
         /\ \A i \in 1..m : h[swaps[i].new] = swaps[i].id
         /\ \A p \in DOMAIN f \ (Olds(swaps, m) \cup News(swaps, m)) : h[p] = f[p]
    BY <2>2 DEF IsSwapped
  <2>11. DOMAIN k = (DOMAIN f \ Olds(swaps, m + 1)) \cup News(swaps, m + 1)
    BY <2>4, <2>6, <2>7, <2>10
  <2>12. ASSUME NEW i \in 1 .. m + 1 PROVE k[swaps[i].new] = swaps[i].id
    <3>1. CASE i = m + 1
      BY <2>4, <3>1 DEF s
    <3>2. CASE i \in 1..m
      <4>1. CASE swaps[i].new = s.new
        BY <2>4, <2>8, <3>2, <4>1
      <4>2. CASE swaps[i].new # s.new
        <5>1. swaps[i].new \in DOMAIN h \ {s.old}
          BY <2>7, <2>9, <2>10, <3>2
        <5> QED
          BY <2>4, <2>10, <3>2, <4>2, <5>1
      <4> QED
        BY <4>1, <4>2
    <3> QED
      BY <2>5, <3>1, <3>2
  <2>13. ASSUME NEW p \in DOMAIN f \ (Olds(swaps, m + 1) \cup News(swaps, m + 1))
         PROVE  k[p] = f[p]
    <3>1. p \in DOMAIN h \ {s.old} /\ p # s.new
          /\ p \in DOMAIN f \ (Olds(swaps, m) \cup News(swaps, m))
      BY <2>6, <2>10
    <3> QED
      BY <2>4, <2>10, <3>1
  <2>14. IsSwapped(k, f, swaps, m + 1)
    BY <2>4, <2>11, <2>12, <2>13 DEF IsSwapped
  <2> QED
    BY <2>3, <2>14
<1> HIDE DEF S
<1>5. n \in S
  BY <1>3, <1>4, AllNumbers
<1>6. IsSwapped(g[n], f, swaps, n)
  BY <1>5 DEF S
<1> QED
  BY <1>2, <1>6

-----------------------------------------------------------------------------
(* Two trees that agree on some categories and all those above them.       *)

LEMMA SameAbove ==
    ASSUME NEW t, Sound(t), NEW t1, Live(t1) \subseteq Cat,
           NEW T, T \subseteq Live(t) \cap Live(t1),
           \A c \in T : t1[c] = t[c], \A c \in T : t[c].parent \in T \cup {Root}
    PROVE  \A c \in T \cup {Root} :
              Reach(t1, c, Root) /\ Below(t1, c, Root) = Below(t, c, Root)
<1>0. Live(t) \subseteq Cat
  BY DEF Sound
<1> DEFINE Good(c) == Reach(t1, c, Root) /\ Below(t1, c, Root) = Below(t, c, Root)
           S == {c \in Live(t) : c \in T => Good(c)}
<1>1. Good(Root)
  BY <1>0, ReachSelf
<1>2. ASSUME NEW c \in Live(t), t[c].parent = Root \/ t[c].parent \in S PROVE c \in S
  <2> SUFFICES ASSUME c \in T PROVE Good(c)
    OBVIOUS
  <2>1. c # Root /\ t1[c] = t[c]
    BY <1>0, NotRoot
  <2>2. Good(t[c].parent)
    <3> HIDE DEF Good
    <3> QED
      BY <1>1, <1>2
  <2>3. Reach(t1, c, Root) /\ Below(t1, c, Root) = Append(Below(t1, t[c].parent, Root), t[c].slug)
    BY <1>0, <2>1, <2>2, ReachStep
  <2>4. Below(t, c, Root) = Append(Below(t, t[c].parent, Root), t[c].slug)
    <3>1. Reach(t, c, Root)
      BY <1>0, ReachLine DEF Sound
    <3> QED
      BY <1>0, <2>1, <3>1, ReachStep
  <2> QED
    BY <2>2, <2>3, <2>4
<1> HIDE DEF S, Good
<1>3. Live(t) \subseteq S
  BY <1>2, TreeInduction
<1>4. \A c \in T \cup {Root} : Good(c)
  BY <1>1, <1>3 DEF S
<1> QED
  BY <1>4 DEF Good

-----------------------------------------------------------------------------
(* A category gets another slug or another parent, not one below it.       *)

Resettled(t, t1, id) ==
    /\ Sound(t) /\ id \in Live(t) /\ Live(t1) = Live(t)
    /\ \A c \in Live(t) \ {id} : t1[c] = t[c]
    /\ t1[id] \in [parent : Live(t) \cup {Root}, slug : Slug]
    /\ t1[id].parent # id /\ t1[id].parent \notin Descendants(t, id)

(* What is not below it is where it was.                                   *)
LEMMA ResettledOutside ==
    ASSUME NEW t, NEW t1, NEW id, Resettled(t, t1, id)
    PROVE  \A c \in (Live(t) \cup {Root}) \ (Descendants(t, id) \cup {id}) :
              Reach(t1, c, Root) /\ Below(t1, c, Root) = Below(t, c, Root)
<1>0. /\ Sound(t) /\ id \in Live(t) /\ Live(t1) = Live(t) /\ Live(t) \subseteq Cat
      /\ \A c \in Live(t) \ {id} : t1[c] = t[c]
  BY DEF Resettled, Sound
<1> DEFINE In == Descendants(t, id) \cup {id}
           T == Live(t) \ In
<1>1. T \subseteq Live(t) \cap Live(t1) /\ Live(t1) \subseteq Cat /\ \A c \in T : t1[c] = t[c]
  BY <1>0
<1>2. \A c \in T : t[c].parent \in T \cup {Root}
  <2> TAKE c \in T
  <2>1. t[c].parent \notin In
    BY <1>0, DescendantIs
  <2>2. t[c].parent \in Live(t) \cup {Root}
    BY <1>0 DEF Sound
  <2> QED
    BY <2>1, <2>2
<1>3. (Live(t) \cup {Root}) \ In \subseteq T \cup {Root}
  OBVIOUS
<1> HIDE DEF T, In
<1>4. \A c \in T \cup {Root} : Reach(t1, c, Root) /\ Below(t1, c, Root) = Below(t, c, Root)
  BY <1>0, <1>1, <1>2, SameAbove
<1> QED
  BY <1>3, <1>4 DEF In

LEMMA ResettledSound ==
    ASSUME NEW t, NEW t1, NEW id, Resettled(t, t1, id)
    PROVE  Sound(t1)
<1>0. /\ Sound(t) /\ id \in Live(t) /\ Live(t1) = Live(t) /\ Live(t) \subseteq Cat
      /\ \A c \in Live(t) \ {id} : t1[c] = t[c]
      /\ t1[id] \in [parent : Live(t) \cup {Root}, slug : Slug]
      /\ t1[id].parent # id /\ t1[id].parent \notin Descendants(t, id)
      /\ \A c \in Live(t) : t[c] \in [parent : Live(t) \cup {Root}, slug : Slug]
  BY DEF Resettled, Sound
<1>1. \A c \in Live(t1) : t1[c] \in [parent : Live(t1) \cup {Root}, slug : Slug]
  BY <1>0
<1>2. Reach(t1, id, Root)
  <2>1. t1[id].parent \in Live(t) \cup {Root}
    BY <1>0
  <2>2. Reach(t1, t1[id].parent, Root)
    BY <1>0, <2>1, ResettledOutside
  <2> QED
    BY <1>0, <2>2, NotRoot, ReachStep
<1> DEFINE S == {c \in Live(t) : Reach(t1, c, Root)}
<1>3. ASSUME NEW c \in Live(t), t[c].parent = Root \/ t[c].parent \in S PROVE c \in S
  <2>1. CASE c = id
    BY <1>2, <2>1
  <2>2. CASE c # id
    <3>1. Reach(t1, Root, Root)
      BY <1>0, ReachSelf
    <3>2. Reach(t1, t1[c].parent, Root) /\ c # Root
      BY <1>0, <1>3, <2>2, <3>1, NotRoot
    <3>3. Reach(t1, c, Root)
      BY <1>0, <3>2, ReachStep
    <3> QED
      BY <3>3
  <2> QED
    BY <2>1, <2>2
<1> HIDE DEF S
<1>4. Live(t) \subseteq S
  BY <1>0, <1>3, TreeInduction
<1>5. \A c \in Live(t1) : \E k, at : IsLine(at, k, t1, c, Root)
  BY <1>0, <1>4, ReachLine DEF S
<1> QED
  BY <1>0, <1>1, <1>5 DEF Sound

(* The paths after: outside as before, inside the old ones with the new    *)
(* prefix.                                                                 *)
LEMMA ResettledPaths ==
    ASSUME NEW t, NEW t1, NEW id, Resettled(t, t1, id), Shallow(t)
    PROVE  /\ \A c \in (Live(t) \cup {Root}) \ (Descendants(t, id) \cup {id}) :
                 TruePath(t1, c) = TruePath(t, c)
           /\ \A c \in Descendants(t, id) :
                 /\ OldPath(t, TruePath(t, id), id, c) = TruePath(t, c)
                 /\ OldPath(t, TruePath(t1, id), id, c) = TruePath(t1, c)
<1>0. /\ Sound(t) /\ id \in Live(t) /\ Live(t1) = Live(t) /\ Live(t) \subseteq Cat
      /\ \A c \in Live(t) \ {id} : t1[c] = t[c]
  BY DEF Resettled, Sound
<1>1. Sound(t1)
  BY ResettledSound
<1>2. \A c \in (Live(t) \cup {Root}) \ (Descendants(t, id) \cup {id}) :
          TruePath(t1, c) = TruePath(t, c)
  <2>1. \A c \in (Live(t) \cup {Root}) \ (Descendants(t, id) \cup {id}) :
            Below(t1, c, Root) = Below(t, c, Root)
    BY ResettledOutside
  <2> QED
    BY <2>1 DEF TruePath, Below
<1> DEFINE P == TruePath(t, id)
           P1 == TruePath(t1, id)
<1>3. P \in Seq(Slug) /\ P1 \in Seq(Slug)
  BY <1>0, <1>1, PathType
<1> DEFINE Good(c) == OldPath(t, P, id, c) = TruePath(t, c) /\ OldPath(t, P1, id, c) = TruePath(t1, c)
           S == {c \in Live(t) : c \in Descendants(t, id) => Good(c)}
<1>4. Good(id)
  <2> HIDE DEF P, P1
  <2>1. OldPath(t, P, id, id) = P /\ OldPath(t, P1, id, id) = P1
    BY <1>0, <1>3, OldStep
  <2> QED
    BY <2>1 DEF P, P1
<1>5. ASSUME NEW c \in Live(t) \ {id}, t[c].parent = id \/ t[c].parent \in S PROVE c \in S
  <2> SUFFICES ASSUME c \in Descendants(t, id) PROVE Good(c)
    OBVIOUS
  <2>1. t[c].parent = id \/ t[c].parent \in Descendants(t, id)
    BY <1>0, DescendantStep
  <2>2. Good(t[c].parent)
    <3> HIDE DEF Good
    <3> QED
      BY <1>4, <1>5, <2>1
  <2>3. /\ OldPath(t, P, id, c) = Append(OldPath(t, P, id, t[c].parent), t[c].slug)
        /\ OldPath(t, P1, id, c) = Append(OldPath(t, P1, id, t[c].parent), t[c].slug)
    <3> HIDE DEF P, P1
    <3> QED
      BY <1>0, <1>3, OldStep
  <2>4. /\ TruePath(t, c) = Append(TruePath(t, t[c].parent), t[c].slug)
        /\ TruePath(t1, c) = Append(TruePath(t1, t[c].parent), t[c].slug)
    BY <1>0, <1>1, PathStep
  <2> HIDE DEF P, P1
  <2> QED
    BY <2>2, <2>3, <2>4
<1> HIDE DEF S, Good
<1>6. Descendants(t, id) \subseteq S
  BY <1>0, <1>5, DescendantInduction
<1>7. \A c \in Descendants(t, id) : Good(c)
  BY <1>6 DEF S
<1> QED
  BY <1>2, <1>7 DEF Good, P, P1

-----------------------------------------------------------------------------
(* Prefixes of paths.                                                      *)

Paths(t) == {TruePath(t, c) : c \in Live(t)}

LEMMA FrontOfAppend ==
    ASSUME NEW S, NEW q \in Seq(S), NEW e \in S, NEW n \in Nat
    PROVE  /\ n <= Len(q) => SubSeq(Append(q, e), 1, n) = SubSeq(q, 1, n)
           /\ n = Len(q) + 1 => SubSeq(Append(q, e), 1, n) = Append(q, e)
<1>1. /\ Append(q, e) \in Seq(S) /\ Len(Append(q, e)) = Len(q) + 1 /\ Len(q) \in Nat
      /\ \A i \in 1 .. Len(q) : Append(q, e)[i] = q[i]
  BY AppendProperties
<1>2. CASE n <= Len(q)
  BY <1>1, <1>2
<1>3. CASE n = Len(q) + 1
  BY <1>1, <1>3, SubSeqFull
<1> QED
  BY <1>1, <1>2, <1>3

(* The paths of the ancestors are there.                                   *)
LEMMA PrefixesLive ==
    ASSUME NEW t, Sound(t), NEW c \in Live(t), NEW n \in 1 .. Len(TruePath(t, c))
    PROVE  SubSeq(TruePath(t, c), 1, n) \in Paths(t)
<1> DEFINE S == {d \in Live(t) : \A m \in 1 .. Len(TruePath(t, d)) :
                                     SubSeq(TruePath(t, d), 1, m) \in Paths(t)}
<1>1. ASSUME NEW d \in Live(t), t[d].parent = Root \/ t[d].parent \in S PROVE d \in S
  <2> SUFFICES ASSUME NEW m \in 1 .. Len(TruePath(t, d))
               PROVE  SubSeq(TruePath(t, d), 1, m) \in Paths(t)
    OBVIOUS
  <2>1. t[d].parent \in Live(t) \cup {Root} /\ t[d].slug \in Slug
    BY DEF Sound
  <2>2. PICK q \in Seq(Slug) : q = TruePath(t, t[d].parent)
    BY <2>1, PathType
  <2>3. PICK e \in Slug : e = t[d].slug
    BY <2>1
  <2>4. TruePath(t, d) = Append(q, e)
    BY <2>2, <2>3, PathStep
  <2>5. Len(Append(q, e)) = Len(q) + 1 /\ Len(q) \in Nat /\ m \in Nat
    BY <2>2, AppendProperties
  <2>6. CASE m = Len(q) + 1
    <3>1. SubSeq(Append(q, e), 1, m) = Append(q, e)
      BY <2>5, <2>6, FrontOfAppend
    <3> QED
      BY <2>4, <3>1 DEF Paths
  <2>7. CASE m <= Len(q)
    <3>1. SubSeq(Append(q, e), 1, m) = SubSeq(q, 1, m)
      BY <2>5, <2>7, FrontOfAppend
    <3>2. m \in 1 .. Len(q)
      BY <2>5, <2>7
    <3>3. t[d].parent # Root
      <4>1. TruePath(t, Root) = <<>> /\ Len(<<>>) = 0
        BY PathStep
      <4> QED
        BY <2>2, <3>2, <4>1
    <3>4. SubSeq(q, 1, m) \in Paths(t)
      BY <1>1, <2>2, <3>2, <3>3
    <3> QED
      BY <2>4, <3>1, <3>4
  <2> QED
    BY <2>4, <2>5, <2>6, <2>7
<1> HIDE DEF S
<1>2. Live(t) \subseteq S
  BY <1>1, TreeInduction
<1> QED
  BY <1>2 DEF S

(* The path of a category begins with that of what it is below.            *)
LEMMA PrefixOfDescendant ==
    ASSUME NEW t, NEW t1, NEW id, Resettled(t, t1, id), NEW c \in Descendants(t, id) \cup {id}
    PROVE  /\ Len(TruePath(t1, id)) \in 1 .. Len(TruePath(t1, c))
           /\ SubSeq(TruePath(t1, c), 1, Len(TruePath(t1, id))) = TruePath(t1, id)
<1>0. /\ Sound(t) /\ id \in Live(t) /\ Live(t1) = Live(t) /\ Live(t) \subseteq Cat
      /\ \A d \in Live(t) \ {id} : t1[d] = t[d]
  BY DEF Resettled, Sound
<1>1. Sound(t1)
  BY ResettledSound
<1> DEFINE P == TruePath(t1, id)
           Good(d) == /\ Len(P) \in 1 .. Len(TruePath(t1, d))
                      /\ SubSeq(TruePath(t1, d), 1, Len(P)) = P
           S == {d \in Live(t) : Good(d)}
<1>2. P \in Seq(Slug) /\ P # <<>> /\ Len(P) \in Nat \ {0}
  <2>1. P \in Seq(Slug) /\ P # <<>>
    BY <1>0, <1>1, PathType
  <2> HIDE DEF P
  <2> QED
    BY <2>1, EmptySeq
<1>3. Good(id)
  BY <1>2, SubSeqFull
<1>4. ASSUME NEW d \in Live(t) \ {id}, t[d].parent = id \/ t[d].parent \in S PROVE d \in S
  <2>1. Good(t[d].parent) /\ t[d].parent \in Live(t)
    <3> HIDE DEF Good
    <3> QED
      BY <1>0, <1>3, <1>4
  <2>2. PICK q \in Seq(Slug) : q = TruePath(t1, t[d].parent)
    BY <1>0, <1>1, <2>1, PathType
  <2>3. PICK e \in Slug : e = t[d].slug
    BY <1>0 DEF Sound
  <2>4. TruePath(t1, d) = Append(q, e)
    BY <1>0, <1>1, <2>2, <2>3, PathStep
  <2>5. Len(Append(q, e)) = Len(q) + 1 /\ Len(q) \in Nat
    BY <2>2, AppendProperties
  <2> HIDE DEF P
  <2>6. Len(P) \in 1 .. Len(q) /\ SubSeq(q, 1, Len(P)) = P
    BY <2>1, <2>2
  <2>7. SubSeq(Append(q, e), 1, Len(P)) = SubSeq(q, 1, Len(P))
    BY <1>2, <2>6, FrontOfAppend
  <2>8. Len(P) \in 1 .. Len(q) + 1
    BY <2>5, <2>6
  <2> QED
    BY <2>4, <2>5, <2>6, <2>7, <2>8
<1> HIDE DEF S, Good, P
<1>5. Descendants(t, id) \subseteq S
  BY <1>0, <1>4, DescendantInduction
<1>6. Good(c)
  BY <1>3, <1>5 DEF S
<1> QED
  BY <1>6 DEF Good, P

-----------------------------------------------------------------------------
(* The path index of a tree.                                               *)

Exact(t, f) ==
    /\ f = [p \in DOMAIN f |-> f[p]]
    /\ DOMAIN f = Paths(t)
    /\ \A c \in Live(t) : f[TruePath(t, c)] = c

SiblingsDiffer(t) ==
    \A c, d \in Live(t) : c # d => t[c].parent # t[d].parent \/ t[c].slug # t[d].slug

LEMMA PathsDiffer ==
    ASSUME NEW t, Sound(t), SiblingsDiffer(t)
    PROVE  \A c, d \in Live(t) : TruePath(t, c) = TruePath(t, d) => c = d
<1> DEFINE S == {c \in Live(t) : \A d \in Live(t) : TruePath(t, c) = TruePath(t, d) => c = d}
<1>1. ASSUME NEW c \in Live(t), t[c].parent = Root \/ t[c].parent \in S PROVE c \in S
  <2> SUFFICES ASSUME NEW d \in Live(t), TruePath(t, c) = TruePath(t, d) PROVE c = d
    OBVIOUS
  <2>1. /\ t[c].parent \in Live(t) \cup {Root} /\ t[c].slug \in Slug
        /\ t[d].parent \in Live(t) \cup {Root} /\ t[d].slug \in Slug
    BY DEF Sound
  <2>2. PICK p \in Seq(Slug), q \in Seq(Slug) :
            p = TruePath(t, t[c].parent) /\ q = TruePath(t, t[d].parent)
    BY <2>1, PathType
  <2>3. TruePath(t, c) = Append(p, t[c].slug) /\ TruePath(t, d) = Append(q, t[d].slug)
    BY <2>2, PathStep
  <2>4. p = q /\ t[c].slug = t[d].slug
    <3>1. PICK a \in Slug, b \in Slug : a = t[c].slug /\ b = t[d].slug
      BY <2>1
    <3>2. Append(p, a) = Append(q, b)
      BY <2>3, <3>1
    <3>3. p = q /\ a = b
      BY <3>2, AppendInjective
    <3> QED
      BY <3>1, <3>3
  <2>5. t[c].parent = t[d].parent
    <3>1. TruePath(t, Root) = <<>> /\ \A e \in Live(t) : TruePath(t, e) # <<>>
      BY PathStep, PathType
    <3>2. CASE t[c].parent = Root
      BY <2>1, <2>2, <2>4, <3>1, <3>2
    <3>3. CASE t[c].parent # Root
      <4>1. t[c].parent \in S /\ t[d].parent # Root
        BY <1>1, <2>1, <2>2, <2>4, <3>1, <3>3
      <4> QED
        BY <2>1, <2>2, <2>4, <4>1
    <3> QED
      BY <3>2, <3>3
  <2> QED
    BY <2>4, <2>5 DEF SiblingsDiffer
<1> HIDE DEF S
<1>2. Live(t) \subseteq S
  BY <1>1, TreeInduction
<1> QED
  BY <1>2 DEF S

(* An exact index tells the paths apart.                                   *)
LEMMA ExactPathsDiffer ==
    ASSUME NEW t, Sound(t), NEW f, Exact(t, f)
    PROVE  /\ \A c, d \in Live(t) : TruePath(t, c) = TruePath(t, d) => c = d
           /\ \A c, d \in Live(t) \cup {Root} : TruePath(t, c) = TruePath(t, d) => c = d
           /\ SiblingsDiffer(t)
<1>1. \A c, d \in Live(t) : TruePath(t, c) = TruePath(t, d) => c = d
  BY DEF Exact
<1>2. TruePath(t, Root) = <<>> /\ \A e \in Live(t) : TruePath(t, e) # <<>>
  BY PathStep, PathType
<1>3. SiblingsDiffer(t)
  <2> SUFFICES ASSUME NEW c \in Live(t), NEW d \in Live(t),
                      t[c].parent = t[d].parent, t[c].slug = t[d].slug
               PROVE  c = d
    BY DEF SiblingsDiffer
  <2>1. TruePath(t, c) = TruePath(t, d)
    BY PathStep
  <2> QED
    BY <1>1, <2>1
<1> QED
  BY <1>1, <1>2, <1>3

(* A free path is a new one.                                               *)
LEMMA FreshPath ==
    ASSUME NEW t, NEW t1, NEW id, Resettled(t, t1, id), NEW f, Exact(t, f),
           t1[id] # t[id],
           TruePath(t1, id) \in DOMAIN f => f[TruePath(t1, id)] = id
    PROVE  TruePath(t1, id) \notin Paths(t)
<1>0. /\ Sound(t) /\ id \in Live(t) /\ Live(t1) = Live(t)
      /\ t[id] \in [parent : Live(t) \cup {Root}, slug : Slug]
      /\ t1[id] \in [parent : Live(t) \cup {Root}, slug : Slug]
      /\ t1[id].parent # id /\ t1[id].parent \notin Descendants(t, id)
  BY DEF Resettled, Sound
<1>1. Sound(t1)
  BY ResettledSound
<1> SUFFICES ASSUME TruePath(t1, id) \in Paths(t) PROVE FALSE
  OBVIOUS
<1>2. PICK c \in Live(t) : TruePath(t1, id) = TruePath(t, c)
  BY DEF Paths
<1>3. c = id
  BY <1>2 DEF Exact
<1> DEFINE q == t1[id].parent
           p == t[id].parent
<1>4. TruePath(t1, q) = TruePath(t, q)
  <2>1. q \in (Live(t) \cup {Root}) \ (Descendants(t, id) \cup {id})
    BY <1>0
  <2>2. Below(t1, q, Root) = Below(t, q, Root)
    BY <2>1, ResettledOutside
  <2> QED
    BY <2>2 DEF TruePath, Below
<1>5. /\ TruePath(t1, id) = Append(TruePath(t, q), t1[id].slug)
      /\ TruePath(t, id) = Append(TruePath(t, p), t[id].slug)
  BY <1>0, <1>1, <1>4, PathStep
<1>6. PICK u \in Seq(Slug), v \in Seq(Slug), a \in Slug, b \in Slug :
          u = TruePath(t, q) /\ v = TruePath(t, p) /\ a = t1[id].slug /\ b = t[id].slug
  BY <1>0, PathType
<1>7. Append(u, a) = Append(v, b)
  BY <1>2, <1>3, <1>5, <1>6
<1>8. u = v /\ a = b
  BY <1>7, AppendInjective
<1>9. q = p
  BY <1>0, <1>6, <1>8, ExactPathsDiffer
<1>10. PICK P, x, y : P = Live(t) \cup {Root} /\ x = t1[id] /\ y = t[id]
  OBVIOUS
<1>11. x \in [parent : P, slug : Slug] /\ y \in [parent : P, slug : Slug]
  BY <1>0, <1>10
<1>12. x.parent = y.parent /\ x.slug = y.slug
  BY <1>6, <1>8, <1>9, <1>10
<1>13. x = y
  BY <1>11, <1>12
<1> QED
  BY <1>10, <1>13

LEMMA FreshSiblings ==
    ASSUME NEW t, NEW t1, NEW id, Resettled(t, t1, id), NEW f, Exact(t, f),
           TruePath(t1, id) \notin Paths(t)
    PROVE  SiblingsDiffer(t1)
<1>0. /\ Sound(t) /\ id \in Live(t) /\ Live(t1) = Live(t)
      /\ \A c \in Live(t) \ {id} : t1[c] = t[c]
      /\ t1[id] \in [parent : Live(t) \cup {Root}, slug : Slug]
      /\ t1[id].parent # id /\ t1[id].parent \notin Descendants(t, id)
  BY DEF Resettled
<1>1. Sound(t1)
  BY ResettledSound
<1>2. ASSUME NEW d \in Live(t), d # id, t1[d].parent = t1[id].parent, t1[d].slug = t1[id].slug
      PROVE  FALSE
  <2>1. t1[id].parent \in (Live(t) \cup {Root}) \ (Descendants(t, id) \cup {id})
    BY <1>0
  <2>2. TruePath(t1, t1[id].parent) = TruePath(t, t1[id].parent)
    <3>1. Below(t1, t1[id].parent, Root) = Below(t, t1[id].parent, Root)
      BY <2>1, ResettledOutside
    <3> QED
      BY <3>1 DEF TruePath, Below
  <2>3. TruePath(t1, id) = Append(TruePath(t, t1[id].parent), t1[id].slug)
    BY <1>0, <1>1, <2>2, PathStep
  <2>4. t[d].parent = t1[id].parent /\ t[d].slug = t1[id].slug
    BY <1>0, <1>2
  <2>5. TruePath(t, d) = TruePath(t1, id)
    BY <1>0, <2>3, <2>4, PathStep
  <2> QED
    BY <2>5 DEF Paths
<1>3. SiblingsDiffer(t)
  BY <1>0, ExactPathsDiffer
<1>4. ASSUME NEW c \in Live(t), NEW d \in Live(t), c # d,
             t1[c].parent = t1[d].parent, t1[c].slug = t1[d].slug
      PROVE  FALSE
  <2>1. CASE c = id
    BY <1>2, <1>4, <2>1
  <2>2. CASE d = id
    BY <1>2, <1>4, <2>2
  <2>3. CASE c # id /\ d # id
    <3>1. t1[c] = t[c] /\ t1[d] = t[d]
      BY <1>0, <2>3
    <3> QED
      BY <1>3, <1>4, <3>1 DEF SiblingsDiffer
  <2> QED
    BY <2>1, <2>2, <2>3
<1> QED
  BY <1>0, <1>4 DEF SiblingsDiffer

(* None of the new paths was in the index.                                 *)
LEMMA NewPathsFresh ==
    ASSUME NEW t, NEW t1, NEW id, Resettled(t, t1, id),
           TruePath(t1, id) \notin Paths(t), NEW c \in Descendants(t, id) \cup {id}
    PROVE  TruePath(t1, c) \notin Paths(t)
<1> SUFFICES ASSUME TruePath(t1, c) \in Paths(t) PROVE FALSE
  OBVIOUS
<1>1. PICK d \in Live(t) : TruePath(t, d) = TruePath(t1, c)
  BY DEF Paths
<1>2. /\ Len(TruePath(t1, id)) \in 1 .. Len(TruePath(t1, c))
      /\ SubSeq(TruePath(t1, c), 1, Len(TruePath(t1, id))) = TruePath(t1, id)
  BY PrefixOfDescendant
<1>3. Sound(t)
  BY DEF Resettled
<1>4. PICK n : n = Len(TruePath(t1, id))
  OBVIOUS
<1>5. n \in 1 .. Len(TruePath(t, d))
  BY <1>1, <1>2, <1>4
<1>6. SubSeq(TruePath(t, d), 1, n) \in Paths(t)
  BY <1>3, <1>5, PrefixesLive
<1> QED
  BY <1>1, <1>2, <1>4, <1>6

PathsOf(t, set) == {TruePath(t, c) : c \in set}

(* What the index has to become: without the paths that the categories of  *)
(* out had in t and with those that the categories of in have in t1.       *)
IsMoved(g, f, t, t1, out, in) ==
    /\ g = [p \in DOMAIN g |-> g[p]]
    /\ DOMAIN g = (DOMAIN f \ PathsOf(t, out)) \cup PathsOf(t1, in)
    /\ \A c \in in : g[TruePath(t1, c)] = c
    /\ \A p \in DOMAIN f :
          p \notin PathsOf(t, out) /\ p \notin PathsOf(t1, in) => g[p] = f[p]

LEMMA MovedIsExact ==
    ASSUME NEW t, NEW t1, NEW id, Resettled(t, t1, id), Shallow(t),
           NEW f, Exact(t, f), TruePath(t1, id) \notin Paths(t),
           NEW in, in = Descendants(t, id) \cup {id}, NEW g, IsMoved(g, f, t, t1, in, in)
    PROVE  Exact(t1, g)
<1>0. /\ Sound(t) /\ id \in Live(t) /\ Live(t1) = Live(t) /\ Live(t) \subseteq Cat
      /\ in \subseteq Live(t)
  BY DescendantsAre DEF Resettled, Sound
<1>1. Sound(t1) /\ SiblingsDiffer(t1)
  BY ResettledSound, FreshSiblings
<1>2. /\ \A c, d \in Live(t) : TruePath(t1, c) = TruePath(t1, d) => c = d
      /\ \A c, d \in Live(t) : TruePath(t, c) = TruePath(t, d) => c = d
  BY <1>0, <1>1, PathsDiffer, ExactPathsDiffer
<1>3. \A c \in Live(t) \ in : TruePath(t1, c) = TruePath(t, c)
  BY ResettledPaths
<1>4. DOMAIN f = Paths(t) /\ \A c \in Live(t) : f[TruePath(t, c)] = c
  BY DEF Exact
<1>5. DOMAIN g = Paths(t1)
  <2>1. DOMAIN f \ {TruePath(t, c) : c \in in} = {TruePath(t, c) : c \in Live(t) \ in}
    BY <1>0, <1>2, <1>4 DEF Paths
  <2>2. {TruePath(t, c) : c \in Live(t) \ in} = {TruePath(t1, c) : c \in Live(t) \ in}
    BY <1>3
  <2>3. DOMAIN g = {TruePath(t1, c) : c \in Live(t) \ in} \cup {TruePath(t1, c) : c \in in}
    BY <2>1, <2>2 DEF IsMoved, PathsOf
  <2> QED
    BY <1>0, <2>3 DEF Paths
<1>6. ASSUME NEW c \in Live(t) PROVE g[TruePath(t1, c)] = c
  <2>1. CASE c \in in
    BY <2>1 DEF IsMoved, PathsOf
  <2>2. CASE c \notin in
    <3>1. TruePath(t1, c) = TruePath(t, c) /\ TruePath(t, c) \in DOMAIN f
      BY <1>3, <1>4, <2>2 DEF Paths
    <3>2. TruePath(t, c) \notin {TruePath(t, d) : d \in in}
      BY <1>0, <1>2, <2>2
    <3>3. TruePath(t1, c) \notin {TruePath(t1, d) : d \in in}
      BY <1>0, <1>2, <2>2
    <3>4. g[TruePath(t, c)] = f[TruePath(t, c)]
      BY <3>1, <3>2, <3>3 DEF IsMoved, PathsOf
    <3> QED
      BY <1>4, <3>1, <3>4
  <2> QED
    BY <2>1, <2>2
<1> QED
  BY <1>0, <1>5, <1>6 DEF IsMoved, Exact

-----------------------------------------------------------------------------
(* The children of a category, and the walk below it.                      *)

(* A number has any rank there is.                                         *)
LEMMA RankExists ==
    ASSUME NEW S, IsFiniteSet(S), S \subseteq Nat, NEW i \in 1 .. Cardinality(S)
    PROVE  \E x \in S : Cardinality({y \in S : y < x}) = i - 1
<1> DEFINE Lower(x) == {y \in S : y < x}
           rank == [x \in S |-> Cardinality(Lower(x))]
           T == 0 .. Cardinality(S) - 1
<1>1. Cardinality(S) \in Nat /\ \A x : IsFiniteSet(Lower(x)) /\ Cardinality(Lower(x)) \in Nat
  BY FS_Subset, FS_CardinalityType
<1>2. IsFiniteSet(T) /\ Cardinality(T) = Cardinality(S)
  <2>1. PICK n \in Nat : n = Cardinality(S)
    BY <1>1
  <2>2. IsFiniteSet(0 .. n - 1) /\ Cardinality(0 .. n - 1) = IF 0 > n - 1 THEN 0 ELSE n - 1 - 0 + 1
    BY FS_Interval
  <2> QED
    BY <2>1, <2>2
<1>3. ASSUME NEW x \in S PROVE rank[x] \in T
  <2>1. Lower(x) \subseteq S \ {x} /\ IsFiniteSet(S \ {x})
        /\ Cardinality(S \ {x}) = Cardinality(S) - 1
    BY FS_RemoveElement
  <2>2. Cardinality(Lower(x)) <= Cardinality(S) - 1
    BY <2>1, FS_Subset
  <2> QED
    BY <1>1, <2>2
<1>4. ASSUME NEW x \in S, NEW y \in S, x < y PROVE Cardinality(Lower(x)) < Cardinality(Lower(y))
  <2>1. x \notin Lower(x) /\ Lower(x) \cup {x} \subseteq Lower(y)
    <3>1. \A z \in S : z \in Nat
      OBVIOUS
    <3>2. ~(x < x) /\ \A z \in S : z < x => z < y
      BY <1>4, <3>1
    <3> QED
      BY <1>4, <3>2
  <2>2. Cardinality(Lower(x) \cup {x}) = Cardinality(Lower(x)) + 1
    BY <1>1, <2>1, FS_AddElement
  <2>3. Cardinality(Lower(x) \cup {x}) <= Cardinality(Lower(y))
    BY <1>1, <2>1, FS_Subset
  <2> HIDE DEF Lower
  <2> QED
    BY <1>1, <2>2, <2>3
<1>5. rank \in Injection(S, T)
  <2>1. rank \in [S -> T]
    BY <1>3
  <2>2. \A x, y \in S : rank[x] = rank[y] => x = y
    <3> SUFFICES ASSUME NEW x \in S, NEW y \in S, x # y PROVE rank[x] # rank[y]
      OBVIOUS
    <3>1. x < y \/ y < x
      OBVIOUS
    <3> HIDE DEF Lower
    <3> QED
      BY <1>1, <1>4, <3>1
  <2> HIDE DEF rank
  <2> QED
    BY <2>1, <2>2 DEF Injection, IsInjective
<1>6. rank \in Surjection(S, T)
  <2> HIDE DEF rank, T
  <2> QED
    BY <1>2, <1>5, FS_Injection
<1>7. i - 1 \in T
  BY <1>1
<1> QED
  BY <1>6, <1>7 DEF Surjection

Once(s) == \A i, j \in 1 .. Len(s) : s[i] = s[j] => i = j

ListsAll(ids, S) == ids \in Seq(S) /\ ToSet(ids) = S /\ Once(ids)

(* A list in order has each of them once.                                  *)
LEMMA InOrderIs ==
    ASSUME NEW S, IsFiniteSet(S), S \subseteq Nat
    PROVE  ListsAll(InOrder(S), S)
<1> DEFINE n == Cardinality(S)
           Rank(x) == Cardinality({y \in S : y < x})
           ids == InOrder(S)
<1>1. n \in Nat
  BY FS_CardinalityType
<1>2. ids = [i \in 1..n |-> CHOOSE l \in S : Rank(l) = i - 1]
  BY DEF InOrder
<1>3. \A i \in 1..n : ids[i] \in S /\ Rank(ids[i]) = i - 1
  <2> TAKE i \in 1..n
  <2>1. \E x \in S : Rank(x) = i - 1
    BY RankExists
  <2> HIDE DEF Rank, ids
  <2> QED
    BY <1>2, <2>1
<1> HIDE DEF ids
<1>4. ids \in [1..n -> S]
  <2> HIDE DEF Rank
  <2> QED
    BY <1>2, <1>3
<1>5. ids \in Seq(S) /\ Len(ids) = n
  BY <1>1, <1>4
<1>6. \A i, j \in 1..n : ids[i] = ids[j] => i = j
  <2> SUFFICES ASSUME NEW i \in 1..n, NEW j \in 1..n, ids[i] = ids[j] PROVE i = j
    OBVIOUS
  <2>1. i - 1 = j - 1
    <3> HIDE DEF Rank
    <3> QED
      BY <1>3
  <2> QED
    BY <1>1, <2>1
<1>7. ids \in Injection(1..n, S)
  BY <1>4, <1>6 DEF Injection, IsInjective
<1>8. Cardinality(1..n) = Cardinality(S)
  BY <1>1, FS_Interval
<1>9. ids \in Surjection(1..n, S)
  BY <1>7, <1>8, FS_Injection
<1>10. ToSet(ids) = S
  BY <1>4, <1>5, <1>9 DEF ToSet, Surjection
<1> QED
  BY <1>5, <1>6, <1>10 DEF ListsAll, Once, ids

ChildSet(t, p) == {c \in Live(t) : t[c].parent = p}

LEMMA ChildrenAre ==
    ASSUME NEW t, Live(t) \subseteq Cat, NEW p
    PROVE  ListsAll(Children(t, p), ChildSet(t, p))
<1>1. IsFiniteSet(Cat) /\ Cat \subseteq Nat
  BY FS_Interval, LimitAssumption DEF Cat
<1>2. ChildSet(t, p) \subseteq Cat
  BY DEF ChildSet
<1>3. IsFiniteSet(ChildSet(t, p)) /\ ChildSet(t, p) \subseteq Nat
  BY <1>1, <1>2, FS_Subset
<1>4. ListsAll(InOrder(ChildSet(t, p)), ChildSet(t, p))
  BY <1>3, InOrderIs
<1> QED
  BY <1>4 DEF Children, ChildSet

LEMMA SetOfSeq ==
    ASSUME NEW S, NEW s \in Seq(S)
    PROVE  ToSet(s) = {s[i] : i \in 1 .. Len(s)} /\ ToSet(s) \subseteq S
BY DEF ToSet

(* The last of a list, and what comes before it.                           *)
IsSplit(s, front, last) ==
    /\ ToSet(s) = ToSet(front) \cup {last}
    /\ Once(s) => Once(front) /\ last \notin ToSet(front)

LEMMA SplitLast ==
    ASSUME NEW S, NEW s \in Seq(S), s # <<>>
    PROVE  /\ Front(s) \in Seq(S) /\ Last(s) \in S
           /\ IsSplit(s, Front(s), Last(s))
<1>1. PICK n \in Nat : Len(s) = n + 1
  <2>1. Len(s) \in Nat \ {0}
    BY EmptySeq
  <2> QED
    BY <2>1
<1>2. PICK f, l : f = Front(s) /\ l = Last(s)
  OBVIOUS
<1>3. l = s[n + 1] /\ f = SubSeq(s, 1, n)
  BY <1>1, <1>2 DEF Front, Last
<1>4. f \in Seq(S) /\ Len(f) = n /\ \A i \in 1..n : f[i] = s[i]
  BY <1>1, <1>3
<1>5. /\ ToSet(s) = {s[i] : i \in 1 .. n + 1} /\ ToSet(f) = {f[i] : i \in 1..n}
  BY <1>1, <1>4 DEF ToSet
<1>6. ToSet(s) = ToSet(f) \cup {l}
  BY <1>3, <1>4, <1>5
<1>7. ASSUME Once(s) PROVE Once(f) /\ l \notin ToSet(f)
  <2>1. \A i, j \in 1 .. n + 1 : s[i] = s[j] => i = j
    BY <1>1, <1>7 DEF Once
  <2>2. \A i, j \in 1..n : f[i] = f[j] => i = j
    BY <1>4, <2>1
  <2>3. \A i \in 1..n : f[i] # l
    BY <1>3, <1>4, <2>1
  <2> QED
    BY <1>4, <1>5, <2>2, <2>3 DEF Once
<1>8. l \in S
  BY <1>1, <1>3
<1> QED
  BY <1>2, <1>4, <1>6, <1>7, <1>8 DEF IsSplit

IsJoin(s, a, b) ==
    /\ ToSet(s) = ToSet(a) \cup ToSet(b)
    /\ Once(a) /\ Once(b) /\ ToSet(a) \cap ToSet(b) = {} => Once(s)

LEMMA Joins ==
    ASSUME NEW S, NEW a \in Seq(S), NEW b \in Seq(S)
    PROVE  a \o b \in Seq(S) /\ IsJoin(a \o b, a, b)
<1>1. PICK m \in Nat, n \in Nat : m = Len(a) /\ n = Len(b)
  OBVIOUS
<1>2a. PICK s : s = a \o b
  OBVIOUS
<1>2b. /\ a \o b \in Seq(S) /\ Len(a \o b) = Len(a) + Len(b)
       /\ \A i \in 1 .. Len(a) + Len(b) :
             (a \o b)[i] = IF i <= Len(a) THEN a[i] ELSE b[i - Len(a)]
  BY ConcatProperties
<1>2. /\ s \in Seq(S) /\ s = a \o b /\ Len(s) = m + n
      /\ \A i \in 1 .. m + n : s[i] = IF i <= m THEN a[i] ELSE b[i - m]
  BY <1>1, <1>2a, <1>2b
<1>3. /\ ToSet(s) = {s[i] : i \in 1 .. m + n}
      /\ ToSet(a) = {a[i] : i \in 1..m} /\ ToSet(b) = {b[i] : i \in 1..n}
  <2>0. s \in Seq(S)
    BY <1>2
  <2>1. ToSet(s) = {s[i] : i \in 1 .. Len(s)}
    BY <2>0, SetOfSeq
  <2>2. ToSet(a) = {a[i] : i \in 1 .. Len(a)} /\ ToSet(b) = {b[i] : i \in 1 .. Len(b)}
    BY SetOfSeq
  <2> QED
    BY <1>1, <1>2, <2>1, <2>2
<1>4. \A i \in 1..m : s[i] = a[i]
  BY <1>2
<1>5. \A i \in 1..n : s[m + i] = b[i]
  <2> TAKE i \in 1..n
  <2>1. m + i \in 1 .. m + n /\ ~(m + i <= m) /\ (m + i) - m = i
    OBVIOUS
  <2> QED
    BY <1>2, <2>1
<1>6. \A i \in 1 .. m + n : i \in 1..m \/ \E j \in 1..n : i = m + j
  <2> TAKE i \in 1 .. m + n
  <2>1. CASE i <= m
    BY <2>1
  <2>2. CASE ~(i <= m)
    <3>1. i - m \in 1..n /\ i = m + (i - m)
      BY <2>2
    <3> QED
      BY <3>1
  <2> QED
    BY <2>1, <2>2
<1>7. ToSet(s) = ToSet(a) \cup ToSet(b)
  <2>1. ASSUME NEW x \in ToSet(s) PROVE x \in ToSet(a) \cup ToSet(b)
    <3>1. PICK i \in 1 .. m + n : x = s[i]
      BY <1>3
    <3>2. CASE i \in 1..m
      BY <1>3, <1>4, <3>1, <3>2
    <3>3. CASE \E j \in 1..n : i = m + j
      BY <1>3, <1>5, <3>1, <3>3
    <3> QED
      BY <1>6, <3>2, <3>3
  <2>2. ToSet(a) \subseteq ToSet(s)
    <3>1. 1..m \subseteq 1 .. m + n
      OBVIOUS
    <3> QED
      BY <1>3, <1>4, <3>1
  <2>3. ToSet(b) \subseteq ToSet(s)
    <3>1. \A i \in 1..n : m + i \in 1 .. m + n
      OBVIOUS
    <3> QED
      BY <1>3, <1>5, <3>1
  <2> QED
    BY <2>1, <2>2, <2>3
<1>8. ASSUME Once(a), Once(b), ToSet(a) \cap ToSet(b) = {} PROVE Once(s)
  <2> SUFFICES ASSUME NEW i \in 1 .. m + n, NEW j \in 1 .. m + n, s[i] = s[j] PROVE i = j
    BY <1>2 DEF Once
  <2>1. CASE i \in 1..m /\ j \in 1..m
    BY <1>1, <1>4, <1>8, <2>1 DEF Once
  <2>2. CASE i \in 1..m /\ j \notin 1..m
    <3>1. PICK k \in 1..n : j = m + k
      BY <1>6, <2>2
    <3> QED
      BY <1>3, <1>4, <1>5, <1>8, <2>2, <3>1
  <2>3. CASE i \notin 1..m /\ j \in 1..m
    <3>1. PICK k \in 1..n : i = m + k
      BY <1>6, <2>3
    <3> QED
      BY <1>3, <1>4, <1>5, <1>8, <2>3, <3>1
  <2>4. CASE i \notin 1..m /\ j \notin 1..m
    <3>1. PICK k \in 1..n, l \in 1..n : i = m + k /\ j = m + l
      BY <1>6, <2>4
    <3>2. b[k] = b[l]
      BY <1>5, <3>1
    <3>3. k = l
      BY <1>1, <1>8, <3>2 DEF Once
    <3> QED
      BY <3>1, <3>3
  <2> QED
    BY <2>1, <2>2, <2>3, <2>4
<1> QED
  BY <1>2, <1>7, <1>8 DEF IsJoin

-----------------------------------------------------------------------------
(* collect_descendant_swaps finds the descendants, all of them.            *)

Start(root) == [stack |-> <<root>>, found |-> <<>>]

IsDescent(walk, t, root, m) ==
    walk = [n \in 0..m |-> IF n = 0 THEN Start(root) ELSE Expand(t, root, walk[n - 1])]

LEMMA DescentExists ==
    ASSUME NEW t, NEW root, NEW limit \in Nat
    PROVE  \E walk : IsDescent(walk, t, root, limit)
<1> DEFINE S == {m \in Nat : \E walk : IsDescent(walk, t, root, m)}
<1>1. 0 \in S
  <2> DEFINE first == [n \in 0..0 |-> Start(root)]
  <2>1. first = [n \in 0..0 |-> IF n = 0 THEN Start(root) ELSE Expand(t, root, first[n - 1])]
    OBVIOUS
  <2>2. IsDescent(first, t, root, 0)
    BY <2>1 DEF IsDescent
  <2> HIDE DEF first
  <2> QED
    BY <2>2
<1>2. ASSUME NEW m \in Nat, m \in S PROVE m + 1 \in S
  <2>1. PICK walk : IsDescent(walk, t, root, m)
    BY <1>2
  <2> DEFINE longer == [n \in 0..m + 1 |-> IF n <= m THEN walk[n] ELSE Expand(t, root, walk[m])]
  <2>2. walk[0] = Start(root) /\ \A n \in 1..m : walk[n] = Expand(t, root, walk[n - 1])
    BY <2>1 DEF IsDescent
  <2>3. longer[0] = Start(root)
    BY <2>2
  <2>4. ASSUME NEW n \in 1..m + 1 PROVE longer[n] = Expand(t, root, longer[n - 1])
    <3>1. longer[n - 1] = walk[n - 1]
      OBVIOUS
    <3> QED
      BY <2>2, <3>1
  <2>5. longer = [n \in 0..m + 1 |-> longer[n]]
    OBVIOUS
  <2> HIDE DEF longer
  <2>6. longer = [n \in 0..m + 1 |-> IF n = 0 THEN Start(root) ELSE Expand(t, root, longer[n - 1])]
    <3>1. \A n \in 0..m + 1 : n # 0 => n \in 1..m + 1
      OBVIOUS
    <3>2. \A n \in 0..m + 1 :
              longer[n] = IF n = 0 THEN Start(root) ELSE Expand(t, root, longer[n - 1])
      BY <2>3, <2>4, <3>1
    <3> QED
      BY <2>5, <3>2
  <2> QED
    BY <2>6 DEF IsDescent
<1> HIDE DEF S
<1>3. limit \in S
  BY <1>1, <1>2, AllNumbers
<1> QED
  BY <1>3 DEF S

IsDescentOf(walk, t, root) ==
    /\ walk[0] = Start(root)
    /\ \A n \in 0 .. MaxCat - 1 : walk[n + 1] = Expand(t, root, walk[n])
    /\ WalkBelow(t, root) = walk[MaxCat].found

LEMMA WalkIsDescent ==
    ASSUME NEW t, NEW root
    PROVE  \E walk : IsDescentOf(walk, t, root)
<1>0. MaxCat \in Nat
  BY LimitAssumption
<1> DEFINE walk == CHOOSE w : IsDescent(w, t, root, MaxCat)
<1>1. IsDescent(walk, t, root, MaxCat)
  BY <1>0, DescentExists
<1>2. WalkBelow(t, root) = walk[MaxCat].found
  BY DEF WalkBelow, IsDescent, Expand, Start
<1> HIDE DEF walk
<1>3. walk[0] = Start(root) /\ \A n \in 1..MaxCat : walk[n] = Expand(t, root, walk[n - 1])
  BY <1>0, <1>1 DEF IsDescent
<1>4. \A n \in 0 .. MaxCat - 1 : walk[n + 1] = Expand(t, root, walk[n])
  <2> TAKE n \in 0 .. MaxCat - 1
  <2>1. n + 1 \in 1..MaxCat /\ (n + 1) - 1 = n
    BY <1>0
  <2> QED
    BY <1>3, <2>1
<1> QED
  BY <1>2, <1>3, <1>4 DEF IsDescentOf

(* After n categories were expanded: those waiting on the stack were found *)
(* and not expanded, each once; those expanded have all their children     *)
(* found, and whatever was found has its parent expanded.                  *)
Expanded(w, root) == ({root} \cup ToSet(w.found)) \ ToSet(w.stack)

DescentAt(w, n, t, root) ==
    /\ w.stack \in Seq(Live(t)) /\ w.found \in Seq(Live(t))
    /\ Once(w.stack)
    /\ ToSet(w.found) \subseteq Descendants(t, root)
    /\ ToSet(w.stack) \subseteq {root} \cup ToSet(w.found)
    /\ \A c \in Live(t) : t[c].parent \in Expanded(w, root) => c \in ToSet(w.found)
    /\ \A c \in ToSet(w.found) : t[c].parent \in Expanded(w, root)
    /\ w.stack # <<>> => Cardinality(Expanded(w, root)) = n

LEMMA DescentStarts ==
    ASSUME NEW t, Sound(t), NEW root \in Live(t)
    PROVE  DescentAt(Start(root), 0, t, root)
<1>1. PICK a, b : a = <<root>> /\ b = <<>>
  OBVIOUS
<1>2. /\ a \in Seq(Live(t)) /\ b \in Seq(Live(t))
      /\ ToSet(a) = {root} /\ ToSet(b) = {} /\ Once(a)
  BY <1>1 DEF ToSet, Once
<1>3. Start(root).stack = a /\ Start(root).found = b
  BY <1>1 DEF Start
<1>4. Expanded(Start(root), root) = {}
  BY <1>2, <1>3 DEF Expanded
<1>5. Cardinality({}) = 0
  BY FS_EmptySet
<1> QED
  BY <1>2, <1>3, <1>4, <1>5 DEF DescentAt

(* In a tree no deeper than a path can be composed no child is left out.   *)
LEMMA CollectedIs ==
    ASSUME NEW t, Sound(t), Shallow(t), NEW root \in Live(t),
           NEW x \in {root} \cup Descendants(t, root)
    PROVE  Collected(t, root, x) = Children(t, x)
<1>1. ASSUME NEW c \in Live(t), t[c].parent = x PROVE IsBelow(t, root, c)
  <2>1. c \in Descendants(t, root)
    BY <1>1, DescendantIs
  <2>2. c # root /\ Reach(t, c, root)
    BY <2>1 DEF Descendants, Reach
  <2>3. Climb(t, c, root, DepthMax).at = root
    BY <2>2, ShallowClimb
  <2> QED
    BY <2>2, <2>3 DEF IsBelow
<1>2. {c \in Live(t) : t[c].parent = x /\ IsBelow(t, root, c)} = {c \in Live(t) : t[c].parent = x}
  BY <1>1
<1> QED
  BY <1>2 DEF Collected, Children

LEMMA DescentGoesOn ==
    ASSUME NEW t, Sound(t), Shallow(t), NEW root \in Live(t), NEW w, NEW n \in Nat,
           DescentAt(w, n, t, root)
    PROVE  DescentAt(Expand(t, root, w), n + 1, t, root)
<1>0. Live(t) \subseteq Cat /\ IsFiniteSet(Live(t))
  <2>1. Live(t) \subseteq Cat
    BY DEF Sound
  <2>2. IsFiniteSet(Cat)
    BY LimitAssumption, FS_Interval DEF Cat
  <2> QED
    BY <2>1, <2>2, FS_Subset
<1> DEFINE St == ToSet(w.stack)
           Fd == ToSet(w.found)
           E == Expanded(w, root)
<1>1. /\ w.stack \in Seq(Live(t)) /\ w.found \in Seq(Live(t)) /\ Once(w.stack)
      /\ Fd \subseteq Descendants(t, root) /\ St \subseteq {root} \cup Fd
      /\ \A c \in Live(t) : t[c].parent \in E => c \in Fd
      /\ \A c \in Fd : t[c].parent \in E
      /\ w.stack # <<>> => Cardinality(E) = n
  BY DEF DescentAt
<1>2. CASE w.stack = <<>>
  <2>1. Expand(t, root, w) = w
    BY <1>2 DEF Expand
  <2> QED
    BY <1>2, <2>1 DEF DescentAt
<1>3. CASE w.stack # <<>>
  <2>1. PICK x, f, kids : x = Last(w.stack) /\ f = Front(w.stack) /\ kids = Children(t, x)
    OBVIOUS
  <2>2. /\ f \in Seq(Live(t)) /\ x \in Live(t)
        /\ St = ToSet(f) \cup {x} /\ Once(f) /\ x \notin ToSet(f)
    BY <1>1, <1>3, <2>1, SplitLast DEF IsSplit
  <2> DEFINE K == ChildSet(t, x)
  <2>3. kids \in Seq(Live(t)) /\ ToSet(kids) = K /\ Once(kids)
    <3>1. kids \in Seq(K) /\ ToSet(kids) = K /\ Once(kids)
      BY <1>0, <2>1, ChildrenAre DEF ListsAll
    <3>2. K \subseteq Live(t)
      BY DEF ChildSet
    <3> HIDE DEF K
    <3> QED
      BY <3>1, <3>2, SeqMonotonic
  <2>4. \A c \in K : c \in Live(t) /\ t[c].parent = x
    BY DEF ChildSet
  <2>5. x \in {root} \cup Fd /\ x \notin E
    BY <1>1, <2>2 DEF Expanded
  <2>20. kids = Collected(t, root, x)
    BY <1>1, <2>1, <2>5, CollectedIs
  <2>6. K \cap ({root} \cup Fd) = {}
    <3>1. K \cap Fd = {}
      BY <1>1, <2>4, <2>5
    <3>2. root \notin K
      <4>1. t[root].parent # root /\ t[root].parent \notin Descendants(t, root)
        BY ParentAbove
      <4> QED
        BY <1>1, <2>4, <2>5, <4>1
    <3> QED
      BY <3>1, <3>2
  <2>7. K \subseteq Descendants(t, root)
    <3>1. x = root \/ x \in Descendants(t, root)
      BY <1>1, <2>5
    <3> QED
      BY <2>4, <3>1, DescendantIs
  <2> DEFINE w1 == Expand(t, root, w)
  <2>8. w1.stack = f \o kids /\ w1.found = w.found \o kids
    BY <1>3, <2>1, <2>20 DEF Expand
  <2>9. f \o kids \in Seq(Live(t)) /\ IsJoin(f \o kids, f, kids)
    BY <2>2, <2>3, Joins
  <2>10. w.found \o kids \in Seq(Live(t)) /\ IsJoin(w.found \o kids, w.found, kids)
    BY <1>1, <2>3, Joins
  <2> HIDE DEF w1, K
  <2>11. w1.stack \in Seq(Live(t)) /\ w1.found \in Seq(Live(t))
    BY <2>8, <2>9, <2>10
  <2>12. ToSet(w1.stack) = ToSet(f) \cup K /\ ToSet(w1.found) = Fd \cup K
    BY <2>3, <2>8, <2>9, <2>10 DEF IsJoin
  <2>13. Once(w1.stack)
    <3>1. ToSet(f) \cap ToSet(kids) = {}
      BY <1>1, <2>2, <2>3, <2>6
    <3> QED
      BY <2>2, <2>3, <2>8, <2>9, <3>1 DEF IsJoin
  <2>14. Expanded(w1, root) = E \cup {x}
    BY <1>1, <2>2, <2>5, <2>6, <2>12 DEF Expanded
  <2>15. Cardinality(E \cup {x}) = n + 1
    <3>1. IsFiniteSet(E)
      <4>1. E \subseteq Live(t)
        BY <1>0, <1>1, DescendantsAre DEF Expanded
      <4> QED
        BY <1>0, <4>1, FS_Subset
    <3> HIDE DEF E
    <3> QED
      BY <1>1, <1>3, <2>5, <3>1, FS_AddElement
  <2>16. \A c \in Live(t) : t[c].parent \in E \cup {x} => c \in Fd \cup K
    BY <1>1 DEF K, ChildSet
  <2>17. \A c \in Fd \cup K : t[c].parent \in E \cup {x}
    BY <1>1, <2>4
  <2>18. Fd \cup K \subseteq Descendants(t, root)
    BY <1>1, <2>7
  <2>19. ToSet(f) \cup K \subseteq {root} \cup (Fd \cup K)
    BY <1>1, <2>2
  <2> HIDE DEF E, Fd, St
  <2> QED
    BY <2>11, <2>12, <2>13, <2>14, <2>15, <2>16, <2>17, <2>18, <2>19 DEF DescentAt, w1
<1> QED
  BY <1>2, <1>3

LEMMA WalkIsAll ==
    ASSUME NEW t, Sound(t), Shallow(t), NEW root \in Live(t)
    PROVE  /\ WalkBelow(t, root) \in Seq(Live(t))
           /\ ToSet(WalkBelow(t, root)) = Descendants(t, root)
<1>0. MaxCat \in Nat /\ Live(t) \subseteq Cat
  BY LimitAssumption DEF Sound
<1>1. PICK walk : IsDescentOf(walk, t, root)
  BY WalkIsDescent
<1>2. /\ walk[0] = Start(root) /\ WalkBelow(t, root) = walk[MaxCat].found
      /\ \A n \in 0 .. MaxCat - 1 : walk[n + 1] = Expand(t, root, walk[n])
  BY <1>1 DEF IsDescentOf
<1> DEFINE S == {n \in Nat : n <= MaxCat => DescentAt(walk[n], n, t, root)}
<1>3. 0 \in S
  BY <1>2, DescentStarts
<1>4. ASSUME NEW n \in Nat, n \in S PROVE n + 1 \in S
  <2> SUFFICES ASSUME n + 1 <= MaxCat PROVE DescentAt(walk[n + 1], n + 1, t, root)
    OBVIOUS
  <2>1. n <= MaxCat /\ n \in 0 .. MaxCat - 1
    BY <1>0
  <2>2. PICK w : w = walk[n]
    OBVIOUS
  <2>3. DescentAt(w, n, t, root)
    BY <1>4, <2>1, <2>2
  <2>4. DescentAt(Expand(t, root, w), n + 1, t, root)
    BY <2>3, DescentGoesOn
  <2> QED
    BY <1>2, <2>1, <2>2, <2>4
<1> HIDE DEF S
<1>5. PICK w : w = walk[MaxCat] /\ DescentAt(w, MaxCat, t, root)
  <2>1. MaxCat \in S
    BY <1>0, <1>3, <1>4, AllNumbers
  <2> QED
    BY <1>0, <2>1 DEF S
<1> DEFINE E == Expanded(w, root)
           Fd == ToSet(w.found)
<1>6. /\ w.stack \in Seq(Live(t)) /\ w.found \in Seq(Live(t))
      /\ Fd \subseteq Descendants(t, root) /\ ToSet(w.stack) \subseteq {root} \cup Fd
      /\ \A c \in Live(t) : t[c].parent \in E => c \in Fd
      /\ w.stack # <<>> => Cardinality(E) = MaxCat
  BY <1>5 DEF DescentAt
<1>7. w.stack = <<>>
  <2> SUFFICES ASSUME w.stack # <<>> PROVE FALSE
    OBVIOUS
  <2>1. PICK x \in Live(t) : x \in ToSet(w.stack)
    <3>1. Last(w.stack) \in Live(t) /\ IsSplit(w.stack, Front(w.stack), Last(w.stack))
      BY <1>6, SplitLast
    <3> QED
      BY <3>1 DEF IsSplit
  <2>2. E \cup {x} \subseteq Cat /\ x \notin E
    BY <1>0, <1>6, <2>1, DescendantsAre DEF Expanded
  <2>3. IsFiniteSet(Cat) /\ Cardinality(Cat) = MaxCat
    BY <1>0, FS_Interval DEF Cat
  <2> HIDE DEF E
  <2>4. IsFiniteSet(E) /\ Cardinality(E \cup {x}) <= MaxCat
    BY <2>2, <2>3, FS_Subset
  <2>5. Cardinality(E \cup {x}) = Cardinality(E) + 1
    BY <2>2, <2>4, FS_AddElement
  <2> QED
    BY <1>0, <1>6, <2>4, <2>5
<1>8. ToSet(<<>>) = {}
  BY DEF ToSet
<1>9. E = {root} \cup Fd
  BY <1>7, <1>8 DEF Expanded
<1>10. Descendants(t, root) \subseteq Fd
  <2>1. \A c \in Live(t) \ {root} : t[c].parent = root \/ t[c].parent \in Fd => c \in Fd
    BY <1>6, <1>9
  <2> HIDE DEF Fd, E
  <2> QED
    BY <1>0, <2>1, DescendantInduction
<1> QED
  BY <1>2, <1>5, <1>6, <1>10

-----------------------------------------------------------------------------
(* Renames and moves that are done inline leave an exact index.            *)

(* The swaps of the category and of its descendants, one after the other.  *)
IsRewritten(g, f, t, id, old, new) ==
    g = Swapped(Swapped(f, <<[id |-> id, old |-> old, new |-> new]>>),
                DescendantSwaps(t, id, old, new))

LEMMA SwapsMove ==
    ASSUME NEW t, NEW t1, NEW id, Resettled(t, t1, id), Shallow(t),
           NEW f, f = [p \in DOMAIN f |-> f[p]], NEW in, in = Descendants(t, id) \cup {id},
           \A c, d \in in : TruePath(t, c) = TruePath(t, d) => c = d,
           \A c, d \in in : TruePath(t1, c) = TruePath(t1, d) => c = d,
           NEW old, NEW new, old = TruePath(t, id), new = TruePath(t1, id), new \notin Paths(t),
           NEW g, IsRewritten(g, f, t, id, old, new)
    PROVE  IsMoved(g, f, t, t1, in, in)
<1>1. PICK own : /\ own = Swapped(f, <<[id |-> id, old |-> old, new |-> new]>>)
                 /\ g = Swapped(own, DescendantSwaps(t, id, old, new))
  BY DEF IsRewritten
<1>0. /\ Sound(t) /\ id \in Live(t) /\ Live(t1) = Live(t) /\ Live(t) \subseteq Cat
      /\ Descendants(t, id) \subseteq Live(t) \ {id}
  BY DescendantsAre DEF Resettled, Sound
<1>2. /\ \A c, d \in in : TruePath(t1, c) = TruePath(t1, d) => c = d
      /\ \A c, d \in in : TruePath(t, c) = TruePath(t, d) => c = d
  OBVIOUS
<1>3. \A c \in Descendants(t, id) : TruePath(t1, c) \notin Paths(t)
  BY NewPathsFresh
<1>4. f = [p \in DOMAIN f |-> f[p]] /\ old \in Paths(t) /\ old # new
  BY <1>0 DEF Paths
<1>5. /\ DOMAIN own = (DOMAIN f \ {old}) \cup {new}
      /\ own[new] = id /\ own = [p \in DOMAIN own |-> own[p]]
      /\ \A p \in DOMAIN f : p # old /\ p # new => own[p] = f[p]
  <2>1. PICK s, ss : s = [id |-> id, old |-> old, new |-> new] /\ ss = <<s>>
    OBVIOUS
  <2>2. DOMAIN ss = 1..1 /\ ss[1] = s /\ s.id = id /\ s.old = old /\ s.new = new
    BY <2>1
  <2>3. 1..1 = {1} /\ 1 \in Nat
    OBVIOUS
  <2>4. Olds(ss, 1) = {old} /\ News(ss, 1) = {new}
    BY <2>2, <2>3 DEF Olds, News
  <2>5. \A i, j \in 1..1 : ss[i].new = ss[j].new => ss[i].id = ss[j].id
    BY <2>3
  <2>6. {old} \cap {new} = {}
    BY <1>4
  <2>7. IsSwapped(Swapped(f, ss), f, ss, 1)
    BY <1>4, <2>2, <2>3, <2>4, <2>5, <2>6, SwappedIs
  <2>8. IsSwapped(own, f, ss, 1)
    BY <1>1, <2>1, <2>7
  <2> QED
    BY <2>2, <2>3, <2>4, <2>8 DEF IsSwapped
<1> DEFINE order == WalkBelow(t, id)
           swaps == DescendantSwaps(t, id, old, new)
           n == Len(order)
           D == Descendants(t, id)
           O == {TruePath(t, c) : c \in D}
           N == {TruePath(t1, c) : c \in D}
<1>6. /\ n \in Nat /\ DOMAIN order = 1..n /\ \A i \in 1..n : order[i] \in D
      /\ \A c \in D : \E i \in 1..n : order[i] = c
  <2>1. order \in Seq(Live(t)) /\ ToSet(order) = D
    BY <1>0, WalkIsAll
  <2>2. n \in Nat /\ DOMAIN order = 1..n
    BY <2>1, LenProperties
  <2>3. D = {order[i] : i \in 1..n}
    BY <2>1, <2>2 DEF ToSet
  <2> QED
    BY <2>2, <2>3
<1>7. /\ DOMAIN swaps = 1..n
      /\ \A i \in 1..n : /\ swaps[i].id = order[i]
                         /\ swaps[i].old = TruePath(t, order[i])
                         /\ swaps[i].new = TruePath(t1, order[i])
  <2>1. swaps = [i \in DOMAIN order |->
                    [id |-> order[i], old |-> OldPath(t, old, id, order[i]),
                     new |-> OldPath(t, new, id, order[i])]]
    BY DEF DescendantSwaps
  <2>2. \A c \in D : OldPath(t, old, id, c) = TruePath(t, c) /\ OldPath(t, new, id, c) = TruePath(t1, c)
    BY ResettledPaths
  <2> HIDE DEF order, swaps, n, D
  <2> QED
    BY <1>6, <2>1, <2>2
<1> HIDE DEF order, swaps, n
<1>8. Olds(swaps, n) = O /\ News(swaps, n) = N
  BY <1>6, <1>7 DEF Olds, News
<1>9. O \subseteq Paths(t) /\ N \cap Paths(t) = {} /\ old \notin O /\ new \notin N /\ new \notin O
  <2>1. O \subseteq Paths(t) /\ N \cap Paths(t) = {}
    BY <1>0, <1>3 DEF Paths
  <2>2. old \notin O /\ new \notin N
    BY <1>0, <1>2
  <2> QED
    BY <2>1, <2>2
<1>10. \A i, j \in 1..n : swaps[i].new = swaps[j].new => swaps[i].id = swaps[j].id
  BY <1>0, <1>2, <1>6, <1>7
<1>11. IsSwapped(Swapped(own, swaps), own, swaps, n)
  <2>1. Olds(swaps, n) \cap News(swaps, n) = {}
    BY <1>8, <1>9
  <2> QED
    BY <1>5, <1>6, <1>7, <1>10, <2>1, SwappedIs
<1>12. IsSwapped(g, own, swaps, n)
  BY <1>1, <1>11 DEF swaps
<1>13. /\ g = [p \in DOMAIN g |-> g[p]]
       /\ DOMAIN g = (DOMAIN own \ O) \cup N
       /\ \A i \in 1..n : g[swaps[i].new] = swaps[i].id
       /\ \A p \in DOMAIN own \ (O \cup N) : g[p] = own[p]
  BY <1>8, <1>12 DEF IsSwapped
<1>14. \A c \in D : g[TruePath(t1, c)] = c
  BY <1>6, <1>7, <1>13
<1>15. {TruePath(t, c) : c \in in} = O \cup {old} /\ {TruePath(t1, c) : c \in in} = N \cup {new}
  OBVIOUS
<1>16. DOMAIN g = (DOMAIN f \ (O \cup {old})) \cup (N \cup {new})
  BY <1>5, <1>9, <1>13
<1>17. g[new] = id
  BY <1>5, <1>9, <1>13
<1>18. \A p \in DOMAIN f : p \notin O \cup {old} /\ p \notin N \cup {new} => g[p] = f[p]
  BY <1>5, <1>13
<1>19. \A c \in in : g[TruePath(t1, c)] = c
  BY <1>14, <1>17
<1> HIDE DEF O, N, D
<1>20. IsMoved(g, f, t, t1, in, in)
  <2>1. PICK A, B : A = PathsOf(t, in) /\ B = PathsOf(t1, in)
    OBVIOUS
  <2>2. A = O \cup {old} /\ B = N \cup {new}
    BY <1>15, <2>1 DEF PathsOf
  <2>3. DOMAIN g = (DOMAIN f \ A) \cup B
    BY <1>16, <2>2
  <2>4. \A p \in DOMAIN f : p \notin A /\ p \notin B => g[p] = f[p]
    BY <1>18, <2>2
  <2> QED
    BY <1>13, <1>19, <2>1, <2>3, <2>4, Zenon DEF IsMoved
<1> QED
  BY <1>20

LEMMA SwapsAreExact ==
    ASSUME NEW t, NEW t1, NEW id, Resettled(t, t1, id), Shallow(t),
           NEW f, Exact(t, f), NEW old, NEW new, old = TruePath(t, id),
           new = TruePath(t1, id), new \notin Paths(t),
           NEW g, IsRewritten(g, f, t, id, old, new)
    PROVE  Exact(t1, g)
<1>0. Sound(t) /\ Live(t1) = Live(t) /\ id \in Live(t) /\ Live(t) \subseteq Cat
  BY DEF Resettled, Sound
<1>1. PICK in : in = Descendants(t, id) \cup {id}
  OBVIOUS
<1>2. /\ \A c, d \in Live(t) : TruePath(t1, c) = TruePath(t1, d) => c = d
      /\ \A c, d \in Live(t) : TruePath(t, c) = TruePath(t, d) => c = d
  BY <1>0, ResettledSound, FreshSiblings, PathsDiffer, ExactPathsDiffer
<1>3. in \subseteq Live(t)
  BY <1>0, <1>1, DescendantsAre
<1>4. f = [p \in DOMAIN f |-> f[p]]
  BY DEF Exact
<1>5. IsMoved(g, f, t, t1, in, in)
  BY <1>1, <1>2, <1>3, <1>4, SwapsMove
<1> QED
  BY <1>1, <1>5, MovedIsExact

(* The path the code builds is the path.                                   *)
LEMMA BuildIs ==
    ASSUME NEW t, Sound(t), Shallow(t)
    PROVE  /\ \A c \in Live(t) : HasPath(t, c) /\ ~TooDeep(t, c) /\ BuildSlugPath(t, c) = TruePath(t, c)
           /\ \A q \in Live(t) \cup {Root} : \A slug :
                 ChildPath(t, q, slug) = Append(TruePath(t, q), slug)
<1>0. Live(t) \subseteq Cat /\ DepthMax \in Nat
  BY LimitAssumption DEF Sound
<1>1. ASSUME NEW c \in Live(t)
      PROVE  HasPath(t, c) /\ ~TooDeep(t, c) /\ BuildSlugPath(t, c) = TruePath(t, c)
  <2>1. Reach(t, c, Root) /\ c # Root /\ c \in Live(t) \cup {Root}
    BY <1>0, ReachLine, NotRoot DEF Sound
  <2>2. /\ Climb(t, c, Root, DepthMax).at = Root
        /\ Climb(t, c, Root, DepthMax).path = Below(t, c, Root)
    BY <2>1, ShallowClimb
  <2> QED
    BY <1>0, <2>1, <2>2, NotRoot DEF HasPath, TooDeep, BuildSlugPath, TruePath, Below, NoCat, Root
<1>2. TruePath(t, Root) = <<>>
  BY PathStep
<1> QED
  BY <1>1, <1>2 DEF ChildPath

LEMMA ResettleStep ==
    ASSUME queue = <<>>, queue' = <<>>, Shallow(tree), Exact(tree, pathIndex),
           NEW t1, tree' = t1, NEW id, Resettled(tree, t1, id), t1[id] # tree[id],
           NEW parent, NEW slug, parent = t1[id].parent, slug = t1[id].slug,
           PathFree(parent, slug, id),
           SwapPaths(id, BuildSlugPath(tree, id), ChildPath(tree, parent, slug))
    PROVE  Exact(tree', pathIndex') /\ queue' = queue /\ Witnessed(tree')
           /\ worker' = worker /\ Sound(tree')
<1>0. /\ Sound(tree) /\ id \in Live(tree) /\ Live(t1) = Live(tree)
      /\ t1[id] \in [parent : Live(tree) \cup {Root}, slug : Slug]
      /\ t1[id].parent # id /\ t1[id].parent \notin Descendants(tree, id)
  BY DEF Resettled
<1>1. Sound(t1)
  BY ResettledSound
<1>2. ~AboveThreshold(tree, id)
  <2>1. \A x : Append(<<>>, x) # <<>>
    BY AppendProperties, EmptySeq
  <2> QED
    BY <2>1 DEF SwapPaths
<1> DEFINE old == BuildSlugPath(tree, id)
           new == ChildPath(tree, parent, slug)
           own == Swapped(pathIndex, <<[id |-> id, old |-> old, new |-> new]>>)
<1>3. /\ pathIndex' = Swapped(own, DescendantSwaps(tree, id, old, new))
      /\ queue' = queue /\ Witnessed(tree') /\ worker' = worker
  BY <1>2 DEF SwapPaths, Written
<1>4. old = TruePath(tree, id)
  BY <1>0, BuildIs
<1>5. new = TruePath(t1, id)
  <2>1. parent \in (Live(tree) \cup {Root}) \ (Descendants(tree, id) \cup {id})
    BY <1>0
  <2>2. TruePath(t1, parent) = TruePath(tree, parent)
    BY <2>1, ResettledPaths
  <2>3. new = Append(TruePath(tree, parent), slug)
    BY <1>0, <2>1, BuildIs
  <2>4. TruePath(t1, id) = Append(TruePath(t1, parent), slug)
    BY <1>0, <1>1, PathStep
  <2> QED
    BY <2>2, <2>3, <2>4
<1>6. new \in DOMAIN pathIndex => pathIndex[new] = id
  BY DEF PathFree
<1> HIDE DEF old, new, own
<1>7. new \notin Paths(tree)
  <2>1. TruePath(t1, id) \in DOMAIN pathIndex => pathIndex[TruePath(t1, id)] = id
    BY <1>5, <1>6
  <2>2. TruePath(t1, id) \notin Paths(tree)
    BY <2>1, FreshPath
  <2> QED
    BY <1>5, <2>2
<1>8. PICK g : g = Swapped(own, DescendantSwaps(tree, id, old, new))
  OBVIOUS
<1>9. own = Swapped(pathIndex, <<[id |-> id, old |-> old, new |-> new]>>)
  BY DEF own
<1>10. Exact(t1, g)
  <2>1. IsRewritten(g, pathIndex, tree, id, old, new)
    BY <1>8, <1>9 DEF IsRewritten
  <2> QED
    BY <1>4, <1>5, <1>7, <2>1, SwapsAreExact
<1> QED
  BY <1>1, <1>3, <1>8, <1>10

-----------------------------------------------------------------------------
(* While every rename and move is done inline both indexes are right: the  *)
(* invariant says so of the two indexes and of each lookup's match.        *)

SlugsNamed(t, f) == \A s \in DOMAIN f : f[s] \in Live(t) /\ t[f[s]].slug = s

AllCurrent(rd) ==
    /\ rd = [r \in Reader |-> rd[r]]
    /\ \A r \in Reader : IsLookup(rd[r]) /\ (rd[r].step # "idle" => rd[r].current)

(* The records; an identifier is not given out twice.                      *)
TreeInv ==
    /\ Sound(tree)
    /\ nextCat \in Nat \ {0} /\ \A c \in Live(tree) : c < nextCat

InlineInv ==
    /\ Sound(tree)
    /\ nextCat \in Nat \ {0} /\ \A c \in Live(tree) : c < nextCat
    /\ Exact(tree, pathIndex)
    /\ SlugsNamed(tree, slugOnly)
    /\ queue = <<>> /\ ~worker.busy
    /\ AllCurrent(reader)

LEMMA OverCurrent ==
    ASSUME NEW rd, AllCurrent(rd), NEW t
    PROVE  AllCurrent(LookupsOver(rd, t))
<1>1. LookupsOver(rd, t) = [r \in Reader |-> LookupsOver(rd, t)[r]]
  BY DEF LookupsOver
<1>2. ASSUME NEW r \in Reader
      PROVE  /\ IsLookup(LookupsOver(rd, t)[r])
             /\ LookupsOver(rd, t)[r].step # "idle" => LookupsOver(rd, t)[r].current
  <2>1. PICK v : v = (rd[r].current \/ Names(t, rd[r].path, rd[r].id))
    OBVIOUS
  <2>2. rd[r] = [step |-> rd[r].step, path |-> rd[r].path, id |-> rd[r].id,
                 current |-> rd[r].current]
    BY DEF AllCurrent, IsLookup
  <2>3. LookupsOver(rd, t)[r] = [rd[r] EXCEPT !.current = v]
    BY <2>1, Zenon DEF LookupsOver
  <2>4. PICK y : y = LookupsOver(rd, t)[r]
    OBVIOUS
  <2>5. y = [step |-> rd[r].step, path |-> rd[r].path, id |-> rd[r].id, current |-> v]
    BY <2>2, <2>3, <2>4
  <2>6. y.step = rd[r].step /\ y.path = rd[r].path /\ y.id = rd[r].id /\ y.current = v
    BY <2>5
  <2>7. IsLookup(y)
    BY <2>5, <2>6 DEF IsLookup
  <2>8. rd[r].step # "idle" => rd[r].current
    BY DEF AllCurrent
  <2> QED
    BY <2>1, <2>4, <2>6, <2>7, <2>8, Zenon
<1> QED
  BY <1>1, <1>2, Zenon DEF AllCurrent

LEMMA WrittenCurrent ==
    ASSUME AllCurrent(reader), Witnessed(tree')
    PROVE  AllCurrent(reader')
<1>1. reader' = LookupsOver(reader, tree')
  BY DEF Witnessed, LookupsOver
<1>2. PICK t1 : t1 = tree'
  OBVIOUS
<1>3. AllCurrent(LookupsOver(reader, t1))
  BY OverCurrent
<1> QED
  BY <1>1, <1>2, <1>3

LEMMA OneCurrent ==
    ASSUME NEW rd, AllCurrent(rd), NEW r \in Reader, NEW x, IsLookup(x),
           x.step # "idle" => x.current
    PROVE  AllCurrent([rd EXCEPT ![r] = x])
BY Zenon DEF AllCurrent

LEMMA SearchCurrent ==
    ASSUME InlineInv, NEW r \in Reader, LookupSearch(r)
    PROVE  AllCurrent(reader')
<1>0. /\ Sound(tree) /\ Exact(tree, pathIndex) /\ SlugsNamed(tree, slugOnly)
      /\ AllCurrent(reader)
  BY DEF InlineInv
<1>1. ASSUME NEW p, NEW id, Names(tree, p, id),
             reader' = [reader EXCEPT ![r] = [step |-> "found", path |-> p, id |-> id,
                                              current |-> Names(tree, p, id)]]
      PROVE  AllCurrent(reader')
  <2>1. PICK b : b = Names(tree, p, id)
    OBVIOUS
  <2>2. PICK x : x = [step |-> "found", path |-> p, id |-> id, current |-> b]
    OBVIOUS
  <2>3. IsLookup(x) /\ x.current = b
    BY <2>2 DEF IsLookup
  <2>4. reader' = [reader EXCEPT ![r] = x]
    BY <1>1, <2>1, <2>2, Zenon
  <2>5. x.current
    BY <1>1, <2>1, <2>3, Zenon
  <2>6. AllCurrent([reader EXCEPT ![r] = x])
    BY <1>0, <2>3, <2>5, OneCurrent
  <2> QED
    BY <2>4, <2>6
<1>2. \A p \in DOMAIN pathIndex : Names(tree, p, pathIndex[p])
  <2> TAKE p \in DOMAIN pathIndex
  <2>1. PICK c \in Live(tree) : p = TruePath(tree, c)
    BY <1>0 DEF Exact, Paths
  <2>2. pathIndex[p] = c
    BY <1>0, <2>1 DEF Exact
  <2> QED
    BY <2>1, <2>2 DEF Names
<1>3. ASSUME NEW path \in Seq(Slug), Len(path) = 1, Head(path) \in DOMAIN slugOnly
      PROVE  Names(tree, path, slugOnly[Head(path)])
  <2>1. path = <<Head(path)>>
    BY <1>3
  <2>2. slugOnly[Head(path)] \in Live(tree) /\ tree[slugOnly[Head(path)]].slug = Head(path)
    BY <1>0, <1>3 DEF SlugsNamed
  <2>3. PICK s : s = Head(path)
    OBVIOUS
  <2>4. <<tree[slugOnly[s]].slug>> = path
    BY <2>1, <2>2, <2>3
  <2> QED
    BY <2>2, <2>3, <2>4 DEF Names
<1> DEFINE Asked == {<<s>> : s \in Slug} \cup DOMAIN pathIndex \cup
               {Tail(p) : p \in {q \in DOMAIN pathIndex : Len(q) > 1 /\ q[1] = Top}}
<1>4. Asked \subseteq Seq(Slug)
  <2>1. DOMAIN pathIndex \subseteq Seq(Slug)
    BY <1>0, PathType DEF Exact, Paths
  <2>2. \A s \in Slug : <<s>> \in Seq(Slug)
    OBVIOUS
  <2>3. ASSUME NEW q \in DOMAIN pathIndex, Len(q) > 1 PROVE Tail(q) \in Seq(Slug)
    <3>1. q \in Seq(Slug) /\ q # <<>>
      BY <2>1, <2>3
    <3> QED
      BY <3>1, HeadTailProperties
  <2> QED
    BY <2>1, <2>2, <2>3
<1>5. PICK path \in Asked :
          \/ /\ path \in DOMAIN pathIndex
             /\ reader' = [reader EXCEPT ![r] = [step |-> "found", path |-> path,
                    id |-> pathIndex[path], current |-> Names(tree, path, pathIndex[path])]]
          \/ /\ InTop(path) \in DOMAIN pathIndex
             /\ reader' = [reader EXCEPT ![r] = [step |-> "found", path |-> InTop(path),
                    id |-> pathIndex[InTop(path)],
                    current |-> Names(tree, InTop(path), pathIndex[InTop(path)])]]
          \/ /\ Len(path) = 1 /\ Head(path) \in DOMAIN slugOnly
             /\ reader' = [reader EXCEPT ![r] = [step |-> "found", path |-> path,
                    id |-> slugOnly[Head(path)],
                    current |-> Names(tree, path, slugOnly[Head(path)])]]
  BY Zenon DEF LookupSearch
<1>6. path \in Seq(Slug)
  BY <1>4
<1> HIDE DEF Asked
<1>7. CASE /\ path \in DOMAIN pathIndex
           /\ reader' = [reader EXCEPT ![r] = [step |-> "found", path |-> path,
                    id |-> pathIndex[path], current |-> Names(tree, path, pathIndex[path])]]
  BY <1>1, <1>2, <1>7, Zenon
<1>8. CASE /\ InTop(path) \in DOMAIN pathIndex
           /\ reader' = [reader EXCEPT ![r] = [step |-> "found", path |-> InTop(path),
                    id |-> pathIndex[InTop(path)],
                    current |-> Names(tree, InTop(path), pathIndex[InTop(path)])]]
  BY <1>1, <1>2, <1>8, Zenon
<1>9. CASE /\ Len(path) = 1 /\ Head(path) \in DOMAIN slugOnly
           /\ reader' = [reader EXCEPT ![r] = [step |-> "found", path |-> path,
                    id |-> slugOnly[Head(path)],
                    current |-> Names(tree, path, slugOnly[Head(path)])]]
  BY <1>1, <1>3, <1>6, <1>9, Zenon
<1> QED
  BY <1>5, <1>7, <1>8, <1>9, Zenon

LEMMA MoveCurrent ==
    ASSUME AllCurrent(reader), NEW r \in Reader, LookupGoesOn(r)
    PROVE  AllCurrent(reader')
<1>0. IsLookup(reader[r]) /\ reader[r].current
  BY LookupMoves, Zenon DEF AllCurrent
<1>1. CASE reader' = [reader EXCEPT ![r] = NoReader]
  <2>1. AllCurrent([reader EXCEPT ![r] = NoReader])
    BY IdleLookup, OneCurrent
  <2> QED
    BY <1>1, <2>1
<1>2. ASSUME NEW s, reader' = [reader EXCEPT ![r].step = s]
      PROVE  AllCurrent(reader')
  <2>1. PICK x : x = [reader[r] EXCEPT !.step = s]
    OBVIOUS
  <2>2. IsLookup(x) /\ x.current = reader[r].current
    BY <1>0, <2>1, Stepped
  <2>3. reader' = [reader EXCEPT ![r] = x]
    BY <1>2, <2>1
  <2>4. x.current
    BY <1>0, <2>2, Zenon
  <2>5. AllCurrent([reader EXCEPT ![r] = x])
    BY <2>2, <2>4, OneCurrent
  <2> QED
    BY <2>3, <2>5
<1>3. CASE reader' = reader
  BY <1>3
<1> QED
  BY <1>1, <1>2, <1>3, LookupMoves, Zenon


(* What a category gives up is no longer found by its slug.                *)
LEMMA ReleasedIs ==
    ASSUME Live(tree) \subseteq Cat, SlugsNamed(tree, slugOnly), NEW id \in Live(tree)
    PROVE  \A s \in DOMAIN Released(id) :
              /\ s \in DOMAIN slugOnly /\ Released(id)[s] = slugOnly[s]
              /\ slugOnly[s] # id
<1>1. \A s \in DOMAIN slugOnly : slugOnly[s] = id => s = tree[id].slug
  BY DEF SlugsNamed
<1>2. CASE tree[id].slug \in DOMAIN slugOnly /\ slugOnly[tree[id].slug] = id
  <2>1. Released(id) = Without(slugOnly, {tree[id].slug})
    BY <1>2 DEF Released
  <2>2. /\ DOMAIN Released(id) = DOMAIN slugOnly \ {tree[id].slug}
        /\ \A s \in DOMAIN Released(id) : Released(id)[s] = slugOnly[s]
    BY <2>1 DEF Without, Restrict
  <2> QED
    BY <1>1, <2>2
<1>3. CASE ~(tree[id].slug \in DOMAIN slugOnly /\ slugOnly[tree[id].slug] = id)
  <2>1. Released(id) = slugOnly
    BY <1>3 DEF Released
  <2> QED
    BY <1>1, <1>3, <2>1
<1> QED
  BY <1>2, <1>3

(* A rename or move, whether its descendants are swapped or queued.        *)
Resettling(t1, id) ==
    /\ tree' = t1 /\ Resettled(tree, t1, id) /\ t1[id] # tree[id]
    /\ PathFree(t1[id].parent, t1[id].slug, id)
    /\ SwapPaths(id, BuildSlugPath(tree, id), ChildPath(tree, t1[id].parent, t1[id].slug))

LEMMA RenameResettles ==
    ASSUME Sound(tree), RenameCategory
    PROVE  \E t1, id : /\ Resettling(t1, id) /\ t1[id].parent = tree[id].parent
                       /\ nextCat' = nextCat
                       /\ slugOnly' = IF t1[id].slug \in DOMAIN Released(id) THEN Released(id)
                                      ELSE With(Released(id), t1[id].slug, id)
<1>0. Sound(tree) /\ Live(tree) \subseteq Cat
  BY DEF Sound
<1>1. PICK id \in Live(tree), slug \in Slug :
        /\ slug # tree[id].slug
        /\ PathFree(tree[id].parent, slug, id)
        /\ tree' = [tree EXCEPT ![id].slug = slug]
        /\ slugOnly' = IF slug \in DOMAIN Released(id) THEN Released(id)
                       ELSE With(Released(id), slug, id)
        /\ SwapPaths(id, BuildSlugPath(tree, id), ChildPath(tree, tree[id].parent, slug))
        /\ nextCat' = nextCat
  BY DEF RenameCategory
<1>2. PICK t1 : t1 = [tree EXCEPT ![id].slug = slug]
  OBVIOUS
<1>3. PICK P : P = Live(tree) \cup {Root}
  OBVIOUS
<1>4. tree[id] \in [parent : P, slug : Slug]
  BY <1>0, <1>3 DEF Sound
<1>5. /\ Live(t1) = Live(tree) /\ \A c \in Live(tree) \ {id} : t1[c] = tree[c]
      /\ t1[id] = [tree[id] EXCEPT !.slug = slug]
  BY <1>2 DEF Live
<1>6. /\ t1[id] \in [parent : P, slug : Slug]
      /\ t1[id].parent = tree[id].parent /\ t1[id].slug = slug
  BY <1>4, <1>5
<1>7. Resettled(tree, t1, id) /\ t1[id] # tree[id]
  <2>1. tree[id].parent # id /\ tree[id].parent \notin Descendants(tree, id)
    BY <1>0, ParentAbove
  <2> QED
    BY <1>0, <1>1, <1>3, <1>5, <1>6, <2>1 DEF Resettled
<1>8. Resettling(t1, id)
  <2>1. PICK parent : parent = tree[id].parent
    OBVIOUS
  <2>2. PathFree(parent, slug, id) /\ parent = t1[id].parent /\ slug = t1[id].slug
        /\ SwapPaths(id, BuildSlugPath(tree, id), ChildPath(tree, parent, slug))
    BY <1>1, <1>6, <2>1
  <2> QED
    BY <1>1, <1>2, <1>7, <2>2 DEF Resettling
<1> QED
  BY <1>1, <1>6, <1>8

LEMMA MoveResettles ==
    ASSUME Sound(tree), MoveCategory
    PROVE  \E t1, id : /\ Resettling(t1, id) /\ t1[id].slug = tree[id].slug
                       /\ nextCat' = nextCat /\ slugOnly' = slugOnly
<1>0. Sound(tree) /\ Live(tree) \subseteq Cat
  BY DEF Sound
<1>1. PICK id \in Live(tree), parent \in Live(tree) \cup {Root} :
        /\ parent # tree[id].parent
        /\ MayMoveUnder(id, parent)
        /\ PathFree(parent, tree[id].slug, id)
        /\ tree' = [tree EXCEPT ![id].parent = parent]
        /\ SwapPaths(id, BuildSlugPath(tree, id), ChildPath(tree, parent, tree[id].slug))
        /\ nextCat' = nextCat /\ slugOnly' = slugOnly
  BY DEF MoveCategory
<1>2. PICK t1 : t1 = [tree EXCEPT ![id].parent = parent]
  OBVIOUS
<1>3. PICK P : P = Live(tree) \cup {Root}
  OBVIOUS
<1>4. tree[id] \in [parent : P, slug : Slug]
  BY <1>0, <1>3 DEF Sound
<1>5. /\ Live(t1) = Live(tree) /\ \A c \in Live(tree) \ {id} : t1[c] = tree[c]
      /\ t1[id] = [tree[id] EXCEPT !.parent = parent]
  BY <1>2 DEF Live
<1>6. /\ t1[id] \in [parent : P, slug : Slug]
      /\ t1[id].parent = parent /\ t1[id].slug = tree[id].slug
  BY <1>3, <1>4, <1>5
<1>7. Resettled(tree, t1, id) /\ t1[id] # tree[id]
  BY <1>0, <1>1, <1>3, <1>5, <1>6 DEF Resettled, MayMoveUnder
<1>8. Resettling(t1, id)
  <2>1. PICK slug : slug = tree[id].slug
    OBVIOUS
  <2>2. PathFree(parent, slug, id) /\ parent = t1[id].parent /\ slug = t1[id].slug
        /\ SwapPaths(id, BuildSlugPath(tree, id), ChildPath(tree, parent, slug))
    BY <1>1, <1>6, <2>1
  <2> QED
    BY <1>1, <1>2, <1>7, <2>2 DEF Resettling
<1> QED
  BY <1>1, <1>6, <1>8

LEMMA InlineExact ==
    ASSUME queue = <<>>, queue' = <<>>, Shallow(tree), Exact(tree, pathIndex),
           NEW t1, NEW id, Resettling(t1, id)
    PROVE  Exact(tree', pathIndex') /\ queue' = queue /\ Witnessed(tree')
           /\ worker' = worker /\ Sound(tree')
<1>1. PICK parent, slug : parent = t1[id].parent /\ slug = t1[id].slug
  OBVIOUS
<1>2. /\ tree' = t1 /\ Resettled(tree, t1, id) /\ t1[id] # tree[id]
      /\ PathFree(parent, slug, id)
      /\ SwapPaths(id, BuildSlugPath(tree, id), ChildPath(tree, parent, slug))
  BY <1>1 DEF Resettling
<1> QED
  BY <1>1, <1>2, ResettleStep

LEMMA RenameKeeps ==
    ASSUME InlineInv, Shallow(tree), queue' = <<>>, RenameCategory
    PROVE  InlineInv'
<1>0. /\ Sound(tree) /\ Exact(tree, pathIndex) /\ SlugsNamed(tree, slugOnly)
      /\ AllCurrent(reader) /\ Live(tree) \subseteq Cat
      /\ nextCat \in Nat \ {0} /\ \A c \in Live(tree) : c < nextCat
      /\ queue = <<>> /\ ~worker.busy
  BY DEF InlineInv, Sound
<1>1. PICK t1, id : /\ Resettling(t1, id) /\ nextCat' = nextCat
                    /\ slugOnly' = IF t1[id].slug \in DOMAIN Released(id) THEN Released(id)
                                   ELSE With(Released(id), t1[id].slug, id)
  BY <1>0, RenameResettles
<1>2. PICK slug : slug = t1[id].slug
  OBVIOUS
<1>3. tree' = t1 /\ Resettled(tree, t1, id)
  BY <1>1 DEF Resettling
<1>4. /\ id \in Live(tree) /\ Live(t1) = Live(tree)
      /\ \A c \in Live(tree) \ {id} : t1[c] = tree[c]
  BY <1>3 DEF Resettled
<1>5. Exact(tree', pathIndex') /\ queue' = queue /\ Witnessed(tree')
      /\ worker' = worker /\ Sound(tree')
  BY <1>0, <1>1, InlineExact
<1>6. SlugsNamed(t1, slugOnly')
  <2>1. \A s \in DOMAIN Released(id) :
           /\ s \in DOMAIN slugOnly /\ Released(id)[s] = slugOnly[s] /\ slugOnly[s] # id
    BY <1>0, <1>4, ReleasedIs
  <2>2. PICK rel : rel = Released(id)
    OBVIOUS
  <2>3. \A s \in DOMAIN rel : rel[s] \in Live(t1) /\ t1[rel[s]].slug = s
    BY <1>0, <1>4, <2>1, <2>2 DEF SlugsNamed
  <2>4. CASE slug \in DOMAIN rel
    BY <1>1, <1>2, <2>2, <2>3, <2>4 DEF SlugsNamed
  <2>5. CASE slug \notin DOMAIN rel
    <3>1. slugOnly' = With(rel, slug, id)
      BY <1>1, <1>2, <2>2, <2>5
    <3>2. /\ DOMAIN With(rel, slug, id) = DOMAIN rel \cup {slug}
          /\ With(rel, slug, id)[slug] = id
          /\ \A x \in DOMAIN rel : x # slug => With(rel, slug, id)[x] = rel[x]
      BY DEF With
    <3> QED
      BY <1>2, <1>4, <2>3, <2>5, <3>1, <3>2 DEF SlugsNamed
  <2> QED
    BY <2>4, <2>5
<1>7. AllCurrent(reader')
  BY <1>0, <1>5, WrittenCurrent
<1>8. \A c \in Live(t1) : c < nextCat
  BY <1>0, <1>4
<1> QED
  BY <1>0, <1>1, <1>3, <1>5, <1>6, <1>7, <1>8 DEF InlineInv

LEMMA MoveKeeps ==
    ASSUME InlineInv, Shallow(tree), queue' = <<>>, MoveCategory
    PROVE  InlineInv'
<1>0. /\ Sound(tree) /\ Exact(tree, pathIndex) /\ SlugsNamed(tree, slugOnly)
      /\ AllCurrent(reader) /\ Live(tree) \subseteq Cat
      /\ nextCat \in Nat \ {0} /\ \A c \in Live(tree) : c < nextCat
      /\ queue = <<>> /\ ~worker.busy
  BY DEF InlineInv, Sound
<1>1. PICK t1, id : /\ Resettling(t1, id) /\ t1[id].slug = tree[id].slug
                    /\ nextCat' = nextCat /\ slugOnly' = slugOnly
  BY <1>0, MoveResettles
<1>2. tree' = t1 /\ Resettled(tree, t1, id)
  BY <1>1 DEF Resettling
<1>3. /\ id \in Live(tree) /\ Live(t1) = Live(tree)
      /\ \A c \in Live(tree) \ {id} : t1[c] = tree[c]
  BY <1>2 DEF Resettled
<1>4. Exact(tree', pathIndex') /\ queue' = queue /\ Witnessed(tree')
      /\ worker' = worker /\ Sound(tree')
  BY <1>0, <1>1, InlineExact
<1>5. SlugsNamed(t1, slugOnly)
  BY <1>0, <1>1, <1>3 DEF SlugsNamed
<1>6. AllCurrent(reader')
  BY <1>0, <1>4, WrittenCurrent
<1>7. \A c \in Live(t1) : c < nextCat
  BY <1>0, <1>3
<1> QED
  BY <1>0, <1>1, <1>2, <1>4, <1>5, <1>6, <1>7 DEF InlineInv

(* A category comes to be, or a leaf goes: the others stay where they are. *)
Grown(t, t1, id, parent, slug) ==
    /\ id \in Cat \ Live(t) /\ parent \in Live(t) \cup {Root} /\ slug \in Slug
    /\ Live(t1) = Live(t) \cup {id} /\ \A c \in Live(t) : t1[c] = t[c]
    /\ t1[id] = [parent |-> parent, slug |-> slug]

Pruned(t, t1, id) ==
    /\ id \in Live(t) /\ \A c \in Live(t) : t[c].parent # id
    /\ Live(t1) = Live(t) \ {id} /\ \A c \in Live(t1) : t1[c] = t[c]

LEMMA GrownIs ==
    ASSUME NEW t, Sound(t), NEW t1, NEW id, NEW parent, NEW slug, Grown(t, t1, id, parent, slug)
    PROVE  /\ Sound(t1)
           /\ \A c \in Live(t) \cup {Root} : TruePath(t1, c) = TruePath(t, c)
           /\ TruePath(t1, id) = Append(TruePath(t, parent), slug)
<1>0. Live(t) \subseteq Cat
  BY DEF Sound
<1>3. id \notin Live(t) /\ id \in Cat /\ parent \in Live(t) \cup {Root} /\ slug \in Slug
  BY DEF Grown
<1>4. /\ Live(t1) = Live(t) \cup {id} /\ \A c \in Live(t) : t1[c] = t[c]
      /\ t1[id] = [parent |-> parent, slug |-> slug]
  BY DEF Grown
<1>5. Live(t1) \subseteq Cat
  BY <1>0, <1>3, <1>4
<1>6. \A c \in Live(t) \cup {Root} : Reach(t1, c, Root) /\ Below(t1, c, Root) = Below(t, c, Root)
  <2>1. \A c \in Live(t) : t[c].parent \in Live(t) \cup {Root}
    BY <1>0 DEF Sound
  <2>2. Live(t) \subseteq Live(t) \cap Live(t1)
    BY <1>4
  <2> QED
    BY <1>0, <1>4, <1>5, <2>1, <2>2, SameAbove
<1>7. Reach(t1, id, Root)
  <2>1. t1[id].parent = parent /\ id \in Live(t1) /\ id # Root
    BY <1>3, <1>4, NotRoot
  <2> QED
    BY <1>3, <1>5, <1>6, <2>1, ReachStep
<1>8. Sound(t1)
  <2>1. \A c \in Live(t1) : t1[c] \in [parent : Live(t1) \cup {Root}, slug : Slug]
    <3>1. PICK P : P = Live(t1) \cup {Root}
      OBVIOUS
    <3>2. t1[id] \in [parent : P, slug : Slug]
      BY <1>3, <1>4, <3>1
    <3>3. ASSUME NEW c \in Live(t) PROVE t1[c] \in [parent : P, slug : Slug]
      <4>1. PICK Q : Q = Live(t) \cup {Root}
        OBVIOUS
      <4>2. t1[c] \in [parent : Q, slug : Slug]
        BY <1>4, <4>1 DEF Sound
      <4>3. Q \subseteq P
        BY <1>4, <3>1, <4>1
      <4> QED
        BY <4>2, <4>3
    <3> QED
      BY <1>4, <3>1, <3>2, <3>3
  <2>2. \A c \in Live(t1) : Reach(t1, c, Root)
    BY <1>4, <1>6, <1>7
  <2>3. \A c \in Live(t1) : \E k, at : IsLine(at, k, t1, c, Root)
    BY <1>5, <2>2, ReachLine
  <2> QED
    BY <1>5, <2>1, <2>3 DEF Sound
<1>9. \A c \in Live(t) \cup {Root} : TruePath(t1, c) = TruePath(t, c)
  BY <1>6 DEF TruePath, Below
<1>10. TruePath(t1, id) = Append(TruePath(t1, parent), slug)
  BY <1>4, <1>8, PathStep
<1> QED
  BY <1>3, <1>8, <1>9, <1>10

LEMMA PrunedIs ==
    ASSUME NEW t, Sound(t), NEW t1, NEW id, Pruned(t, t1, id)
    PROVE  /\ Sound(t1) /\ Descendants(t, id) = {}
           /\ \A c \in Live(t1) \cup {Root} : TruePath(t1, c) = TruePath(t, c)
<1>0. Live(t) \subseteq Cat
  BY DEF Sound
<1>3. Live(t1) = Live(t) \ {id} /\ \A c \in Live(t1) : t1[c] = t[c]
  BY DEF Pruned
<1>4. \A c \in Live(t) : t[c].parent # id
  BY DEF Pruned
<1>5. \A c \in Live(t1) : t[c].parent \in Live(t1) \cup {Root}
  BY <1>3, <1>4 DEF Sound
<1>6. \A c \in Live(t1) \cup {Root} : Reach(t1, c, Root) /\ Below(t1, c, Root) = Below(t, c, Root)
  <2>1. Live(t1) \subseteq Live(t) \cap Live(t1) /\ Live(t1) \subseteq Cat
    BY <1>0, <1>3
  <2> QED
    BY <1>0, <1>3, <1>5, <2>1, SameAbove
<1>7. Sound(t1)
  <2>1. \A c \in Live(t1) : t1[c] \in [parent : Live(t1) \cup {Root}, slug : Slug]
    <3> TAKE c \in Live(t1)
    <3>1. PICK P, Q : P = Live(t1) \cup {Root} /\ Q = Live(t) \cup {Root}
      OBVIOUS
    <3>2. t1[c] \in [parent : Q, slug : Slug]
      BY <1>3, <3>1 DEF Sound
    <3>3. t1[c].parent \in P
      BY <1>3, <1>5, <3>1
    <3>4. t1[c] \in [parent : P, slug : Slug]
      BY <3>2, <3>3
    <3> QED
      BY <3>1, <3>4
  <2>2. Live(t1) \subseteq Cat
    BY <1>0, <1>3
  <2>3. \A c \in Live(t1) : \E k, at : IsLine(at, k, t1, c, Root)
    BY <1>6, <2>2, ReachLine
  <2> QED
    BY <2>1, <2>2, <2>3 DEF Sound
<1>8. \A c \in Live(t1) \cup {Root} : TruePath(t1, c) = TruePath(t, c)
  BY <1>6 DEF TruePath, Below
<1>9. Descendants(t, id) \subseteq {}
  BY <1>0, <1>4, DescendantInduction
<1> QED
  BY <1>7, <1>8, <1>9

(* The two writes that change the set of categories.                       *)
Growing(t1, id, new) ==
    /\ tree' = t1 /\ \E parent, slug : Grown(tree, t1, id, parent, slug)
    /\ new = TruePath(t1, id) /\ (new \in DOMAIN pathIndex => pathIndex[new] = NoCat)
    /\ pathIndex' = With(pathIndex, new, id)
    /\ queue' = queue /\ Written(~MeetsQueuedTask(id, new))

LEMMA CreateGrows ==
    ASSUME TreeInv, Shallow(tree), CreateCategory
    PROVE  TreeInv' /\ \E t1, id, new : Growing(t1, id, new)
<1>0. /\ Sound(tree) /\ Live(tree) \subseteq Cat /\ MaxCat \in Nat
      /\ nextCat \in Nat \ {0} /\ \A c \in Live(tree) : c < nextCat
  BY LimitAssumption DEF TreeInv, Sound
<1>1. PICK parent \in Live(tree) \cup {Root}, slug \in Slug :
        /\ nextCat <= MaxCat /\ PathFree(parent, slug, NoCat)
        /\ tree' = With(tree, nextCat, [parent |-> parent, slug |-> slug])
        /\ pathIndex' = With(pathIndex, ChildPath(tree, parent, slug), nextCat)
        /\ nextCat' = nextCat + 1 /\ queue' = queue
        /\ Written(~MeetsQueuedTask(nextCat, ChildPath(tree, parent, slug)))
  BY DEF CreateCategory
<1>2. PICK t1, new, id : /\ t1 = With(tree, nextCat, [parent |-> parent, slug |-> slug])
                         /\ new = ChildPath(tree, parent, slug) /\ id = nextCat
  OBVIOUS
<1>3. id \notin Live(tree) /\ id \in Cat
  BY <1>0, <1>1, <1>2 DEF Cat
<1>4. Grown(tree, t1, id, parent, slug)
  BY <1>2, <1>3 DEF With, Live, Grown
<1>5. Sound(t1) /\ TruePath(t1, id) = Append(TruePath(tree, parent), slug)
  BY <1>0, <1>4, GrownIs
<1>6. new = TruePath(t1, id)
  BY <1>0, <1>2, <1>5, BuildIs
<1>7. new \in DOMAIN pathIndex => pathIndex[new] = NoCat
  BY <1>1, <1>2 DEF PathFree
<1>8. Growing(t1, id, new)
  BY <1>1, <1>2, <1>4, <1>6, <1>7, Zenon DEF Growing
<1>9. nextCat' \in Nat \ {0} /\ \A c \in Live(t1) : c < nextCat'
  <2>1. \A c \in Live(tree) : c \in Nat
    BY <1>0 DEF Cat
  <2>2. Live(t1) = Live(tree) \cup {id}
    BY <1>4 DEF Grown
  <2> QED
    BY <1>0, <1>1, <1>2, <2>1, <2>2
<1> QED
  BY <1>1, <1>2, <1>5, <1>8, <1>9 DEF TreeInv

LEMMA GrownExact ==
    ASSUME Sound(tree), Exact(tree, pathIndex), NEW t1, NEW id, NEW new, Growing(t1, id, new)
    PROVE  Exact(t1, pathIndex')
<1>0. /\ \E parent, slug : Grown(tree, t1, id, parent, slug)
      /\ new = TruePath(t1, id) /\ (new \in DOMAIN pathIndex => pathIndex[new] = NoCat)
      /\ Live(tree) \subseteq Cat
  BY DEF Growing, Sound
<1>1. /\ Live(t1) = Live(tree) \cup {id}
      /\ \A c \in Live(tree) : TruePath(t1, c) = TruePath(tree, c)
  BY <1>0, GrownIs DEF Grown
<1>2. new \notin Paths(tree)
  <2>1. \A p \in Paths(tree) : pathIndex[p] \in Live(tree)
    BY DEF Exact, Paths
  <2>2. NoCat \notin Live(tree) /\ DOMAIN pathIndex = Paths(tree)
    BY <1>0, NotRoot DEF NoCat, Root, Exact
  <2> QED
    BY <1>0, <2>1, <2>2
<1>3. PICK g : g = With(pathIndex, new, id)
  OBVIOUS
<1>4. /\ DOMAIN g = DOMAIN pathIndex \cup {new} /\ g[new] = id
      /\ \A x \in DOMAIN pathIndex : x # new => g[x] = pathIndex[x]
      /\ g = [x \in DOMAIN g |-> g[x]]
  BY <1>3 DEF With
<1>5. DOMAIN pathIndex = Paths(tree) /\ \A c \in Live(tree) : pathIndex[TruePath(tree, c)] = c
  BY DEF Exact
<1>6. DOMAIN g = Paths(t1)
  BY <1>0, <1>1, <1>4, <1>5 DEF Paths
<1>7. ASSUME NEW c \in Live(tree) PROVE g[TruePath(t1, c)] = c
  <2>1. TruePath(t1, c) = TruePath(tree, c) /\ TruePath(tree, c) \in Paths(tree)
    BY <1>1 DEF Paths
  <2> QED
    BY <1>2, <1>4, <1>5, <2>1
<1>8. Exact(t1, g)
  BY <1>0, <1>1, <1>4, <1>6, <1>7 DEF Exact
<1> QED
  BY <1>3, <1>8 DEF Growing

LEMMA CreateExact ==
    ASSUME TreeInv, Shallow(tree), CreateCategory, Exact(tree, pathIndex)
    PROVE  TreeInv' /\ Exact(tree', pathIndex')
<1>1. PICK t1, id, new : Growing(t1, id, new)
  BY CreateGrows
<1>2. Exact(t1, pathIndex') /\ tree' = t1
  BY <1>1, GrownExact DEF TreeInv, Growing
<1> QED
  BY <1>2, CreateGrows

LEMMA CreateKeeps ==
    ASSUME InlineInv, Shallow(tree), CreateCategory
    PROVE  InlineInv'
<1>0. /\ Sound(tree) /\ Exact(tree, pathIndex) /\ SlugsNamed(tree, slugOnly)
      /\ AllCurrent(reader) /\ Live(tree) \subseteq Cat /\ MaxCat \in Nat
      /\ nextCat \in Nat \ {0} /\ \A c \in Live(tree) : c < nextCat
      /\ queue = <<>> /\ ~worker.busy
  BY LimitAssumption DEF InlineInv, Sound
<1>1. PICK parent \in Live(tree) \cup {Root}, slug \in Slug :
        /\ tree' = With(tree, nextCat, [parent |-> parent, slug |-> slug])
        /\ slugOnly' = slugOnly \/ slugOnly' = With(slugOnly, slug, nextCat)
        /\ queue' = queue /\ worker' = worker
        /\ Witnessed(tree')
  BY DEF CreateCategory, Written
<1>2. PICK t1, id : t1 = With(tree, nextCat, [parent |-> parent, slug |-> slug]) /\ id = nextCat
  OBVIOUS
<1>3. TreeInv' /\ Exact(tree', pathIndex')
  BY <1>0, CreateExact DEF TreeInv
<1>4. /\ Live(t1) = Live(tree) \cup {id} /\ \A c \in Live(tree) : t1[c] = tree[c]
      /\ t1[id] = [parent |-> parent, slug |-> slug]
  BY <1>0, <1>2 DEF With, Live
<1>5. SlugsNamed(t1, slugOnly')
  <2>1. \A s \in DOMAIN slugOnly : slugOnly[s] \in Live(t1) /\ t1[slugOnly[s]].slug = s
    BY <1>0, <1>4 DEF SlugsNamed
  <2>2. CASE slugOnly' = slugOnly
    BY <2>1, <2>2 DEF SlugsNamed
  <2>3. CASE slugOnly' = With(slugOnly, slug, nextCat)
    <3>1. PICK h : h = With(slugOnly, slug, id)
      OBVIOUS
    <3>2. /\ DOMAIN h = DOMAIN slugOnly \cup {slug} /\ h[slug] = id
          /\ \A x \in DOMAIN slugOnly : x # slug => h[x] = slugOnly[x]
      BY <3>1 DEF With
    <3>3. SlugsNamed(t1, h)
      BY <1>4, <2>1, <3>2 DEF SlugsNamed
    <3> QED
      BY <1>2, <2>3, <3>1, <3>3
  <2> QED
    BY <1>1, <2>2, <2>3
<1>6. AllCurrent(reader')
  BY <1>0, <1>1, WrittenCurrent
<1> QED
  BY <1>0, <1>1, <1>2, <1>3, <1>5, <1>6 DEF InlineInv, TreeInv

Pruning(t1, id, old) ==
    /\ tree' = t1 /\ Pruned(tree, t1, id) /\ old = TruePath(tree, id)
    /\ pathIndex' = Without(pathIndex, {old})
    /\ queue' = queue /\ Written(~BelowQueuedTask(id))

LEMMA DeletePrunes ==
    ASSUME TreeInv, Shallow(tree), DeleteCategory
    PROVE  TreeInv' /\ \E t1, id, old : Pruning(t1, id, old)
<1>0. /\ Sound(tree) /\ Live(tree) \subseteq Cat
      /\ nextCat \in Nat \ {0} /\ \A c \in Live(tree) : c < nextCat
  BY DEF TreeInv, Sound
<1>1. PICK id \in Live(tree) :
        /\ IsLeaf(id)
        /\ tree' = Without(tree, {id})
        /\ pathIndex' = Without(pathIndex, {BuildSlugPath(tree, id)})
        /\ nextCat' = nextCat /\ queue' = queue /\ Written(~BelowQueuedTask(id))
  BY DEF DeleteCategory
<1>2. PICK t1, old : t1 = Without(tree, {id}) /\ old = BuildSlugPath(tree, id)
  OBVIOUS
<1>3. Live(t1) = Live(tree) \ {id} /\ \A c \in Live(t1) : t1[c] = tree[c]
  BY <1>2 DEF Without, Restrict, Live
<1>4. \A c \in Live(tree) : tree[c].parent # id
  <2>1. ListsAll(Children(tree, id), ChildSet(tree, id)) /\ Children(tree, id) = <<>>
    BY <1>0, <1>1, ChildrenAre DEF IsLeaf
  <2>2. ToSet(<<>>) = {}
    BY DEF ToSet
  <2>3. ChildSet(tree, id) = {}
    BY <2>1, <2>2 DEF ListsAll
  <2> QED
    BY <2>3 DEF ChildSet
<1>5. Pruned(tree, t1, id)
  BY <1>3, <1>4 DEF Pruned
<1>6. Sound(t1)
  BY <1>0, <1>5, PrunedIs
<1>7. old = TruePath(tree, id)
  BY <1>0, <1>2, BuildIs
<1>8. Pruning(t1, id, old)
  BY <1>1, <1>2, <1>5, <1>7, Zenon DEF Pruning
<1>9. \A c \in Live(t1) : c < nextCat
  BY <1>0, <1>3
<1> QED
  BY <1>0, <1>1, <1>2, <1>6, <1>8, <1>9 DEF TreeInv

LEMMA PrunedExact ==
    ASSUME Sound(tree), Exact(tree, pathIndex), NEW t1, NEW id, NEW old, Pruning(t1, id, old)
    PROVE  Exact(t1, pathIndex')
<1>0. /\ Pruned(tree, t1, id) /\ old = TruePath(tree, id)
  BY DEF Pruning
<1>1. /\ Live(t1) = Live(tree) \ {id} /\ id \in Live(tree)
      /\ \A c \in Live(t1) : TruePath(t1, c) = TruePath(tree, c)
  BY <1>0, PrunedIs DEF Pruned
<1>2. PICK g : g = Without(pathIndex, {old})
  OBVIOUS
<1>3. /\ DOMAIN g = DOMAIN pathIndex \ {old} /\ g = [p \in DOMAIN g |-> g[p]]
      /\ \A p \in DOMAIN g : g[p] = pathIndex[p]
  BY <1>2 DEF Without, Restrict
<1>4. /\ DOMAIN pathIndex = Paths(tree)
      /\ \A c \in Live(tree) : pathIndex[TruePath(tree, c)] = c
  BY DEF Exact
<1>5. \A c \in Live(t1) : TruePath(tree, c) # old
  <2>1. \A c, d \in Live(tree) : TruePath(tree, c) = TruePath(tree, d) => c = d
    BY <1>4
  <2> QED
    BY <1>0, <1>1, <2>1
<1>6. DOMAIN g = Paths(t1)
  BY <1>0, <1>1, <1>3, <1>4, <1>5 DEF Paths
<1>7. ASSUME NEW c \in Live(t1) PROVE g[TruePath(t1, c)] = c
  <2>1. TruePath(t1, c) = TruePath(tree, c) /\ TruePath(t1, c) \in DOMAIN g
    BY <1>1, <1>6 DEF Paths
  <2> QED
    BY <1>1, <1>3, <1>4, <2>1
<1>8. Exact(t1, g)
  BY <1>3, <1>6, <1>7 DEF Exact
<1> QED
  BY <1>2, <1>8 DEF Pruning

LEMMA DeleteExact ==
    ASSUME TreeInv, Shallow(tree), DeleteCategory, Exact(tree, pathIndex)
    PROVE  TreeInv' /\ Exact(tree', pathIndex')
<1>1. PICK t1, id, old : Pruning(t1, id, old)
  BY DeletePrunes
<1>2. Exact(t1, pathIndex') /\ tree' = t1
  BY <1>1, PrunedExact DEF TreeInv, Pruning
<1> QED
  BY <1>2, DeletePrunes

LEMMA DeleteKeeps ==
    ASSUME InlineInv, Shallow(tree), DeleteCategory
    PROVE  InlineInv'
<1>0. /\ Sound(tree) /\ Exact(tree, pathIndex) /\ SlugsNamed(tree, slugOnly)
      /\ AllCurrent(reader) /\ Live(tree) \subseteq Cat
      /\ nextCat \in Nat \ {0} /\ \A c \in Live(tree) : c < nextCat
      /\ queue = <<>> /\ ~worker.busy
  BY DEF InlineInv, Sound
<1>1. PICK id \in Live(tree) :
        /\ tree' = Without(tree, {id})
        /\ slugOnly' = Released(id)
        /\ queue' = queue /\ worker' = worker
        /\ Witnessed(tree')
  BY DEF DeleteCategory, Written
<1>2. PICK t1 : t1 = Without(tree, {id})
  OBVIOUS
<1>3. Live(t1) = Live(tree) \ {id} /\ \A c \in Live(t1) : t1[c] = tree[c]
  BY <1>2 DEF Without, Restrict, Live
<1>4. TreeInv' /\ Exact(tree', pathIndex')
  BY <1>0, DeleteExact DEF TreeInv
<1>5. SlugsNamed(t1, slugOnly')
  <2>1. \A s \in DOMAIN Released(id) :
           /\ s \in DOMAIN slugOnly /\ Released(id)[s] = slugOnly[s] /\ slugOnly[s] # id
    BY <1>0, ReleasedIs
  <2>2. PICK rel : rel = Released(id)
    OBVIOUS
  <2>3. \A s \in DOMAIN rel : rel[s] \in Live(t1) /\ t1[rel[s]].slug = s
    BY <1>0, <1>3, <2>1, <2>2 DEF SlugsNamed
  <2> QED
    BY <1>1, <2>2, <2>3 DEF SlugsNamed
<1>6. AllCurrent(reader')
  BY <1>0, <1>1, WrittenCurrent
<1> QED
  BY <1>0, <1>1, <1>2, <1>4, <1>5, <1>6 DEF InlineInv, TreeInv

LEMMA MaxOfOne ==
    ASSUME NEW x \in Nat
    PROVE  Max({x}) = x
BY DEF Max

LEMMA RebuildExact ==
    ASSUME Sound(tree), Shallow(tree), Rebuild,
           \A c, d \in Live(tree) : TruePath(tree, c) = TruePath(tree, d) => c = d
    PROVE  Exact(tree, pathIndex')
<1>0. Live(tree) \subseteq Nat
  BY DEF Sound, Cat
<1> DEFINE bad == {c \in Live(tree) : TooDeep(tree, c)}
           path(c) == BuildSlugPath(tree, c)
           written == {c \in Live(tree) : \A b \in bad : c < b}
<1>1. pathIndex' = [p \in {path(c) : c \in written} |->
                          Max({c \in written : path(c) = p})]
  BY DEF Rebuild, lookups
<1>2. \A c \in Live(tree) : ~TooDeep(tree, c) /\ path(c) = TruePath(tree, c)
  BY BuildIs
<1>3. bad = {}
  BY <1>2
<1>4. written = Live(tree)
  BY <1>3
<1> HIDE DEF bad, written
<1>5. Exact(tree, pathIndex')
  <2>1. PICK g : g = pathIndex'
    OBVIOUS
  <2>2. {path(c) : c \in written} = Paths(tree)
    BY <1>2, <1>4 DEF Paths
  <2>3. g = [p \in Paths(tree) |-> Max({c \in Live(tree) : path(c) = p})]
    BY <1>1, <1>4, <2>1, <2>2
  <2>4. ASSUME NEW c \in Live(tree) PROVE g[TruePath(tree, c)] = c
    <3>1. \A d \in Live(tree) : TruePath(tree, c) = TruePath(tree, d) => c = d
      OBVIOUS
    <3>2. {d \in Live(tree) : path(d) = TruePath(tree, c)} = {c}
      BY <1>2, <3>1
    <3>3. TruePath(tree, c) \in Paths(tree)
      BY DEF Paths
    <3> HIDE DEF path
    <3>4. g[TruePath(tree, c)] = Max({c})
      BY <2>3, <3>2, <3>3
    <3> QED
      BY <1>0, <3>4, MaxOfOne
  <2>5. Exact(tree, g)
    BY <2>3, <2>4 DEF Exact
  <2> QED
    BY <2>1, <2>5
<1> QED
  BY <1>5

LEMMA RebuildKeeps ==
    ASSUME InlineInv, Shallow(tree), Rebuild
    PROVE  InlineInv'
<1>0. /\ Sound(tree) /\ Exact(tree, pathIndex) /\ SlugsNamed(tree, slugOnly)
      /\ Live(tree) \subseteq Nat
  BY DEF InlineInv, Sound, Cat
<1> DEFINE bad == {c \in Live(tree) : TooDeep(tree, c)}
           path(c) == BuildSlugPath(tree, c)
           written == {c \in Live(tree) : \A b \in bad : c < b}
           sharing(slug) == {c \in Live(tree) : tree[c].slug = slug}
           first(c, d) == Len(path(c)) < Len(path(d)) \/ (Len(path(c)) = Len(path(d)) /\ c <= d)
           slugs == {tree[c].slug : c \in Live(tree)}
<1>1. /\ pathIndex' = [p \in {path(c) : c \in written} |->
                          Max({c \in written : path(c) = p})]
      /\ slugOnly' = IF bad # {} THEN <<>>
                     ELSE [slug \in slugs |->
                             CHOOSE c \in sharing(slug) : \A d \in sharing(slug) : first(c, d)]
      /\ UNCHANGED <<tree, nextCat, queue, worker, reader>>
  BY DEF Rebuild, lookups
<1>2. \A c \in Live(tree) : ~TooDeep(tree, c) /\ path(c) = TruePath(tree, c)
  BY <1>0, BuildIs
<1>3. bad = {}
  BY <1>2
<1>4. written = Live(tree)
  BY <1>3
<1> HIDE DEF bad, written
<1>5. Exact(tree, pathIndex')
  <2>1. \A c, d \in Live(tree) : TruePath(tree, c) = TruePath(tree, d) => c = d
    BY <1>0 DEF Exact
  <2> QED
    BY <1>0, <2>1, RebuildExact
<1>6. SlugsNamed(tree, slugOnly')
  <2>1. PICK h : h = slugOnly'
    OBVIOUS
  <2>2. h = [slug \in slugs |-> CHOOSE c \in sharing(slug) : \A d \in sharing(slug) : first(c, d)]
    BY <1>1, <1>3, <2>1
  <2>3. ASSUME NEW s \in slugs PROVE h[s] \in sharing(s)
    <3>1. sharing(s) # {} /\ sharing(s) \subseteq Nat
      BY <1>0
    <3>2. \A c \in sharing(s) : Len(path(c)) \in Nat
      <4>1. \A c \in Live(tree) : path(c) \in Seq(Slug)
        BY <1>0, <1>2, PathType
      <4> HIDE DEF path
      <4> QED
        BY <4>1, LenProperties
    <3> HIDE DEF sharing, path
    <3>3. \E c \in sharing(s) : \A d \in sharing(s) : first(c, d)
      <4>1. PICK n \in {Len(path(c)) : c \in sharing(s)} :
               \A m \in {Len(path(c)) : c \in sharing(s)} : n <= m
        <5>1. PICK S : S = {Len(path(c)) : c \in sharing(s)}
          OBVIOUS
        <5>2. S \subseteq Nat /\ S # {}
          BY <3>1, <3>2, <5>1
        <5>3. \E n \in S : \A m \in S : n <= m
          BY <5>2, LeastNumber
        <5> QED
          BY <5>1, <5>3
      <4>2. PICK c \in sharing(s) : Len(path(c)) = n /\ \A d \in sharing(s) : Len(path(d)) = n => c <= d
        <5>1. PICK S : S = {c \in sharing(s) : Len(path(c)) = n}
          OBVIOUS
        <5>2. S \subseteq Nat /\ S # {}
          BY <3>1, <4>1, <5>1
        <5>3. PICK c \in S : \A d \in S : c <= d
          BY <5>2, LeastNumber
        <5> QED
          BY <5>1, <5>3
      <4>3. ASSUME NEW d \in sharing(s) PROVE first(c, d)
        BY <3>2, <4>1, <4>2
      <4> QED
        BY <4>3
    <3> HIDE DEF first
    <3>4. h[s] = CHOOSE c \in sharing(s) : \A d \in sharing(s) : first(c, d)
      BY <2>2
    <3> QED
      BY <3>3, <3>4
  <2>4. DOMAIN h = slugs
    BY <2>2
  <2> HIDE DEF slugs
  <2>5. \A s \in DOMAIN h : h[s] \in Live(tree) /\ tree[h[s]].slug = s
    BY <2>3, <2>4
  <2> QED
    BY <2>1, <2>5 DEF SlugsNamed
<1> QED
  BY <1>1, <1>5, <1>6 DEF InlineInv

LEMMA InlineInit ==
    Init => InlineInv
<1> SUFFICES ASSUME Init PROVE InlineInv
  OBVIOUS
<1>1. Live(tree) = {}
  BY DEF Init, Live
<1>2. Sound(tree)
  BY <1>1 DEF Sound
<1>3. Exact(tree, pathIndex)
  <2>1. PICK f : f = pathIndex /\ f = <<>>
    BY DEF Init
  <2>2. DOMAIN f = {} /\ f = [p \in DOMAIN f |-> f[p]]
    BY <2>1
  <2>3. Paths(tree) = {}
    BY <1>1 DEF Paths
  <2> QED
    BY <1>1, <2>1, <2>2, <2>3 DEF Exact
<1>4. SlugsNamed(tree, slugOnly)
  <2>1. DOMAIN slugOnly = {}
    BY DEF Init
  <2> QED
    BY <2>1 DEF SlugsNamed
<1>5. AllCurrent(reader)
  <2>1. reader = [r \in Reader |-> NoReader]
    BY DEF Init
  <2> QED
    BY <2>1, IdleLookup, Zenon DEF AllCurrent
<1>6. nextCat = 1 /\ queue = <<>> /\ ~worker.busy
  BY DEF Init, IdleWorker
<1> QED
  BY <1>1, <1>2, <1>3, <1>4, <1>5, <1>6 DEF InlineInv

(* No large rename or move is queued and no chain gets too long.           *)
Calm == queue = <<>> /\ Shallow(tree)

LEMMA InlineStep ==
    ASSUME InlineInv, Calm, Calm', [Next]_vars
    PROVE  InlineInv'
<1>0. Shallow(tree) /\ queue' = <<>>
  BY DEF Calm
<1>1. CASE CreateCategory
  BY <1>0, <1>1, CreateKeeps
<1>2. CASE RenameCategory
  BY <1>0, <1>2, RenameKeeps
<1>3. CASE MoveCategory
  BY <1>0, <1>3, MoveKeeps
<1>4. CASE DeleteCategory
  BY <1>0, <1>4, DeleteKeeps
<1>5. CASE WorkerStart \/ WorkerChunk \/ WorkerComplete \/ Restart
  <2>1. queue = <<>> /\ ~worker.busy
    BY DEF InlineInv
  <2> QED
    BY <1>0, <1>5, <2>1 DEF WorkerStart, WorkerChunk, WorkerComplete, Restart
<1>6. CASE Rebuild
  BY <1>0, <1>6, RebuildKeeps
<1>7. ASSUME NEW r \in Reader, LookupSearch(r) \/ LookupGoesOn(r)
      PROVE  InlineInv'
  <2>1. AllCurrent(reader')
    <3>1. AllCurrent(reader)
      BY DEF InlineInv
    <3> QED
      BY <1>7, <3>1, SearchCurrent, MoveCurrent
  <2>2. UNCHANGED <<tree, nextCat, pathIndex, slugOnly, queue, worker>>
    BY <1>7, LookupMoves DEF LookupSearch, directory
  <2> QED
    BY <2>1, <2>2 DEF InlineInv
<1>8. CASE UNCHANGED vars
  BY <1>8 DEF vars, directory, lookups, InlineInv
<1> QED
  BY <1>1, <1>2, <1>3, <1>4, <1>5, <1>6, <1>7, <1>8 DEF Next, LookupGoesOn

LEMMA InlineInvariant == Spec /\ []Calm => []InlineInv
<1>1. Init => InlineInv
  BY InlineInit
<1>2. InlineInv /\ Calm /\ Calm' /\ [Next]_vars => InlineInv'
  BY InlineStep
<1> QED
  BY <1>1, <1>2, PTL DEF Spec

(* As long as every rename and move is done inline, none being large, and  *)
(* no category lies deeper than the writes can follow, a lookup answers    *)
(* with a category that had the name it was asked for at some moment of    *)
(* the lookup: one renamed, moved or deleted between the search and the    *)
(* answer still had it when the search found it.                           *)
THEOREM InlineAnswersAreCurrent == Spec /\ []Calm => []LookupsAreCurrent
<1>1. InlineInv => LookupsAreCurrent
  <2> SUFFICES ASSUME InlineInv, NEW r \in Reader, reader[r].step = "answered"
               PROVE  reader[r].current
    BY DEF LookupsAreCurrent
  <2>1. AllCurrent(reader) /\ reader[r].step # "idle"
    BY DEF InlineInv
  <2> QED
    BY <2>1, Zenon DEF AllCurrent
<1> QED
  BY <1>1, InlineInvariant, PTL

(* What Exact says, put as the property does.                              *)
LEMMA ExactIsIndex ==
    ASSUME Exact(tree, pathIndex)
    PROVE  PathIndexExact
<1>1. ASSUME NEW p \in Paths(tree)
      PROVE  pathIndex[p] = CHOOSE c \in Live(tree) : TruePath(tree, c) = p
  <2>1. PICK c \in Live(tree) : TruePath(tree, c) = p
    BY DEF Paths
  <2>2. \A d \in Live(tree) : TruePath(tree, d) = p => d = c
    BY <2>1 DEF Exact
  <2>3. (CHOOSE d \in Live(tree) : TruePath(tree, d) = p) = c
    BY <2>1, <2>2
  <2> QED
    BY <2>1, <2>3 DEF Exact
<1>2. pathIndex = [p \in Paths(tree) |-> pathIndex[p]]
  BY DEF Exact
<1> QED
  BY <1>1, <1>2 DEF PathIndexExact, Paths

(* Under the same conditions the path index is what the records say after  *)
(* every write, rename and move of a subtree, and every rebuild: each live *)
(* category under its canonical path, and nothing else.                    *)
THEOREM InlineIndexIsExact == Spec /\ []Calm => []PathIndexExact
<1>1. InlineInv => PathIndexExact
  BY ExactIsIndex DEF InlineInv
<1> QED
  BY <1>1, InlineInvariant, PTL

-----------------------------------------------------------------------------
(* Prefixes.                                                               *)

LEMMA PrefixConcat ==
    ASSUME NEW S, NEW a \in Seq(S), NEW b \in Seq(S)
    PROVE  IsPrefix(a, a \o b)
<1>1. /\ a \o b \in Seq(S) /\ Len(a \o b) = Len(a) + Len(b)
      /\ Len(a) \in Nat /\ Len(b) \in Nat
  BY ConcatProperties, LenProperties
<1>2. SubSeq(a, 1, Len(a)) = a
  BY SubSeqFull
<1>3. SubSeq(a \o b, 1, Len(a)) = a
  <2>1. CASE Len(a) = 0
    <3>1. a = <<>>
      BY <2>1, EmptySeq
    <3>2. SubSeq(a \o b, 1, Len(a)) = <<>>
      BY <2>1, SubSeqEmpty
    <3> QED
      BY <3>1, <3>2
  <2>2. CASE Len(a) # 0
    <3>1. 1 \in 1 .. Len(a) /\ Len(a) \in 1 .. Len(a)
      BY <1>1, <2>2
    <3>2. SubSeq(a \o b, 1, Len(a)) = SubSeq(a, 1, Len(a))
      BY <3>1, SubSeqOfConcat1
    <3> QED
      BY <1>2, <3>2
  <2> QED
    BY <2>1, <2>2
<1> QED
  BY <1>1, <1>2, <1>3 DEF IsPrefix

(* Two prefixes of one path: one begins the other.                         *)
LEMMA PrefixesCompare ==
    ASSUME NEW S, NEW a \in Seq(S), NEW b \in Seq(S), NEW p \in Seq(S),
           IsPrefix(a, p), IsPrefix(b, p)
    PROVE  IsPrefix(a, b) \/ IsPrefix(b, a)
<1>1. /\ Len(a) \in Nat /\ Len(b) \in Nat /\ Len(p) \in Nat
      /\ Len(a) <= Len(p) /\ Len(b) <= Len(p)
      /\ SubSeq(a, 1, Len(a)) = SubSeq(p, 1, Len(a))
      /\ SubSeq(b, 1, Len(b)) = SubSeq(p, 1, Len(b))
  BY LenProperties DEF IsPrefix
<1>2. SubSeq(a, 1, Len(a)) = a /\ SubSeq(b, 1, Len(b)) = b
  BY SubSeqFull
<1>3. ASSUME NEW u \in Seq(S), NEW v \in Seq(S), Len(u) <= Len(v), Len(v) <= Len(p),
             Len(u) \in Nat, Len(v) \in Nat,
             u = SubSeq(p, 1, Len(u)), v = SubSeq(p, 1, Len(v))
      PROVE  IsPrefix(u, v)
  <2>1. CASE Len(u) = 0
    <3>1. SubSeq(u, 1, Len(u)) = <<>> /\ SubSeq(v, 1, Len(u)) = <<>>
      BY <2>1, SubSeqEmpty
    <3> QED
      BY <1>3, <3>1 DEF IsPrefix
  <2>2. CASE Len(u) # 0
    <3>1. PICK m, n : m = Len(u) /\ n = Len(v)
      OBVIOUS
    <3>2. /\ 1 \in 1 .. Len(p) /\ n \in 1 .. Len(p) /\ n - 1 + 1 = n
          /\ 1 \in 1 .. n /\ m \in 1 .. n
      BY <1>1, <1>3, <2>2, <3>1
    <3>3. SubSeq(SubSeq(p, 1, n), 1, m) = SubSeq(p, 1 + 1 - 1, 1 + m - 1)
      BY <3>2, SubSeqOfSubSeq
    <3>4. 1 + 1 - 1 = 1 /\ 1 + m - 1 = m
      BY <1>3, <3>1
    <3>5. SubSeq(v, 1, m) = u
      BY <1>3, <3>1, <3>3, <3>4
    <3>6. SubSeq(u, 1, m) = u
      BY <3>1, SubSeqFull
    <3> QED
      BY <1>3, <3>1, <3>5, <3>6 DEF IsPrefix
  <2> QED
    BY <2>1, <2>2
<1>4. CASE Len(a) <= Len(b)
  BY <1>1, <1>2, <1>3, <1>4
<1>5. CASE Len(b) <= Len(a)
  BY <1>1, <1>2, <1>3, <1>5
<1> QED
  BY <1>1, <1>4, <1>5

-----------------------------------------------------------------------------
(* What a queued task knows a category below its root by.                  *)

LEMMA BelowType ==
    ASSUME NEW t, Sound(t), NEW root \in Live(t), NEW c \in Descendants(t, root) \cup {root}
    PROVE  Below(t, c, root) \in Seq(Slug)
<1>0. Live(t) \subseteq Cat
  BY DEF Sound
<1>1. Below(t, root, root) \in Seq(Slug)
  <2>1. Below(t, root, root) = <<>> /\ <<>> \in Seq(Slug)
    BY <1>0, ReachSelf
  <2> QED
    BY <2>1
<1> DEFINE T == {d \in Live(t) : d \in Descendants(t, root) => Below(t, d, root) \in Seq(Slug)}
<1>2. ASSUME NEW d \in Live(t) \ {root}, t[d].parent = root \/ t[d].parent \in T
      PROVE  d \in T
  <2> SUFFICES ASSUME d \in Descendants(t, root) PROVE Below(t, d, root) \in Seq(Slug)
    OBVIOUS
  <2>1. t[d].parent = root \/ t[d].parent \in Descendants(t, root)
    BY <1>0, DescendantStep
  <2>2. Below(t, t[d].parent, root) \in Seq(Slug)
    BY <1>1, <1>2, <2>1
  <2>3. PICK q \in Seq(Slug), s \in Slug : q = Below(t, t[d].parent, root) /\ s = t[d].slug
    BY <2>2 DEF Sound
  <2>4. Reach(t, d, root)
    BY DEF Descendants, Reach
  <2>5. Below(t, d, root) = Append(q, s)
    BY <1>0, <2>3, <2>4, ReachStep
  <2>6. Append(q, s) \in Seq(Slug)
    BY <2>3, AppendProperties
  <2> QED
    BY <2>5, <2>6
<1> HIDE DEF T
<1>3. Descendants(t, root) \subseteq T
  BY <1>0, <1>2, DescendantInduction
<1> QED
  BY <1>1, <1>3 DEF T

(* The path of a category is that of any ancestor and what lies between.   *)
LEMMA PathSplits ==
    ASSUME NEW t, Sound(t), NEW root \in Live(t), NEW c \in Descendants(t, root) \cup {root}
    PROVE  TruePath(t, c) = TruePath(t, root) \o Below(t, c, root)
<1>0. Live(t) \subseteq Cat
  BY DEF Sound
<1> DEFINE Good(d) == TruePath(t, d) = TruePath(t, root) \o Below(t, d, root)
           T == {d \in Live(t) : d \in Descendants(t, root) => Good(d)}
<1>1. Good(root)
  <2>1. Below(t, root, root) = <<>> /\ TruePath(t, root) \in Seq(Slug)
    BY <1>0, ReachSelf, PathType
  <2>2. PICK q \in Seq(Slug) : q = TruePath(t, root)
    BY <2>1
  <2>3. q \o <<>> = q
    BY <2>2, ConcatEmptySeq
  <2> QED
    BY <2>1, <2>2, <2>3
<1>2. ASSUME NEW d \in Live(t) \ {root}, t[d].parent = root \/ t[d].parent \in T
      PROVE  d \in T
  <2> SUFFICES ASSUME d \in Descendants(t, root) PROVE Good(d)
    OBVIOUS
  <2>1. t[d].parent = root \/ t[d].parent \in Descendants(t, root)
    BY <1>0, DescendantStep
  <2>2. Good(t[d].parent)
    <3> HIDE DEF Good
    <3> QED
      BY <1>1, <1>2, <2>1
  <2>3. Below(t, t[d].parent, root) \in Seq(Slug)
    BY <2>1, BelowType
  <2>4. PICK p \in Seq(Slug), q \in Seq(Slug), s \in Slug :
            p = TruePath(t, root) /\ q = Below(t, t[d].parent, root) /\ s = t[d].slug
    BY <2>3, PathType DEF Sound
  <2>5. Reach(t, d, root)
    BY DEF Descendants, Reach
  <2>6. Below(t, d, root) = Append(q, s)
    BY <1>0, <2>4, <2>5, ReachStep
  <2>7. TruePath(t, d) = Append(p \o q, s)
    BY <2>2, <2>4, PathStep
  <2>8. p \o Append(q, s) = Append(p \o q, s)
    <3>1. <<s>> \in Seq(Slug) /\ p \o q \in Seq(Slug)
      BY ConcatProperties
    <3>2. Append(q, s) = q \o <<s>> /\ Append(p \o q, s) = (p \o q) \o <<s>>
      BY <3>1, AppendIsConcat
    <3>3. (p \o q) \o <<s>> = p \o (q \o <<s>>)
      BY <3>1, ConcatAssociative
    <3> QED
      BY <3>2, <3>3
  <2> QED
    BY <2>4, <2>6, <2>7, <2>8
<1> HIDE DEF T, Good
<1>3. Descendants(t, root) \subseteq T
  BY <1>0, <1>2, DescendantInduction
<1>4. Good(c)
  BY <1>1, <1>3 DEF T
<1> QED
  BY <1>4 DEF Good

(* The part of the tree below a category does not see a change elsewhere.  *)
LEMMA SameSubtree ==
    ASSUME NEW t, NEW t1, Live(t) \subseteq Cat, Live(t1) \subseteq Cat, NEW root,
           \A c \in Descendants(t, root) : c \in Live(t1) /\ t1[c] = t[c]
    PROVE  \A c \in Descendants(t, root) :
              c \in Descendants(t1, root) /\ Below(t1, c, root) = Below(t, c, root)
<1> DEFINE Good(d) == Reach(t1, d, root) /\ Below(t1, d, root) = Below(t, d, root)
           T == {d \in Live(t) : d \in Descendants(t, root) => Good(d)}
<1>1. Good(root)
  BY ReachSelf
<1>2. ASSUME NEW d \in Live(t) \ {root}, t[d].parent = root \/ t[d].parent \in T
      PROVE  d \in T
  <2> SUFFICES ASSUME d \in Descendants(t, root) PROVE Good(d)
    OBVIOUS
  <2>1. t[d].parent = root \/ t[d].parent \in Descendants(t, root)
    BY DescendantStep
  <2>2. Good(t[d].parent)
    <3> HIDE DEF Good
    <3> QED
      BY <1>1, <1>2, <2>1
  <2>3. t1[d] = t[d] /\ d \in Live(t1) /\ Reach(t, d, root)
    BY DEF Descendants, Reach
  <2>4. Below(t, d, root) = Append(Below(t, t[d].parent, root), t[d].slug)
    BY <2>3, ReachStep
  <2>5. /\ Reach(t1, d, root)
        /\ Below(t1, d, root) = Append(Below(t1, t[d].parent, root), t[d].slug)
    BY <2>2, <2>3, ReachStep
  <2> QED
    BY <2>2, <2>4, <2>5
<1> HIDE DEF T, Good
<1>3. Descendants(t, root) \subseteq T
  BY <1>2, DescendantInduction
<1>4. \A c \in Descendants(t, root) : Good(c) /\ c \in Live(t) /\ c # root
  BY <1>3, DescendantsAre DEF T
<1> QED
  BY <1>4 DEF Good, Descendants, Reach

LEMMA SameBelow ==
    ASSUME NEW t, NEW t1, Live(t) \subseteq Cat, Live(t1) = Live(t), NEW id,
           \A c \in Live(t) \ {id} : t1[c] = t[c],
           NEW root, id \notin Descendants(t, root)
    PROVE  \A c \in Descendants(t, root) :
              c \in Descendants(t1, root) /\ Below(t1, c, root) = Below(t, c, root)
<1>1. \A c \in Descendants(t, root) : c \in Live(t1) /\ t1[c] = t[c]
  BY DescendantsAre
<1> QED
  BY <1>1, SameSubtree

-----------------------------------------------------------------------------
(* The index while tasks are queued.  A queued task knows the descendants  *)
(* of its root by their old paths: with the canonical one these are the    *)
(* names a category may be indexed by.                                     *)

QueuedTask == [root : Cat, prefix : Seq(Slug)]

Was(t, task, c) == task.prefix \o Below(t, c, task.root)

Named(t, q, c, p) ==
    \/ p = TruePath(t, c)
    \/ \E i \in DOMAIN q : c \in Descendants(t, q[i].root) /\ p = Was(t, q[i], c)

(* Each category is indexed once, by one of its names.                     *)
Indexed(t, q, f) ==
    /\ f = [p \in DOMAIN f |-> f[p]]
    /\ \A p \in DOMAIN f : f[p] \in Live(t) /\ Named(t, q, f[p], p)
    /\ \A c \in Live(t) : \E p \in DOMAIN f : f[p] = c
    /\ \A p, x \in DOMAIN f : f[p] = f[x] => p = x

(* No name is that of two categories.                                      *)
Apart(t, q) ==
    \A c, d \in Live(t) : \A p : Named(t, q, c, p) /\ Named(t, q, d, p) => c = d

(* No category has come to lie where a task still has paths to free.       *)
Vacated(t, q) ==
    /\ q \in Seq(QueuedTask)
    /\ \A i \in DOMAIN q :
          /\ q[i].root \in Live(t) /\ Descendants(t, q[i].root) # {}
          /\ \A c \in Live(t) : ~IsPrefix(q[i].prefix, TruePath(t, c))

Kept(t, q, f) == Indexed(t, q, f) /\ Apart(t, q) /\ Vacated(t, q)

(* A rename or move of id to the path new that meets none of the tasks.    *)
Unmet(t, t1, id, q, new) ==
    \A i \in DOMAIN q :
        /\ id \notin Descendants(t, q[i].root) /\ id \notin Descendants(t1, q[i].root)
        /\ ~IsPrefix(new, q[i].prefix) /\ ~IsPrefix(q[i].prefix, new)

LEMMA TaskTypes ==
    ASSUME NEW t, NEW q, Vacated(t, q), NEW i \in DOMAIN q
    PROVE  q[i] \in QueuedTask /\ q[i].root \in Live(t) /\ q[i].prefix \in Seq(Slug)
<1>1. DOMAIN q = 1 .. Len(q)
  BY LenProperties DEF Vacated
<1>2. q[i] \in QueuedTask
  BY <1>1, ElementOfSeq DEF Vacated
<1> QED
  BY <1>2 DEF Vacated, QueuedTask

(* The names a task knows begin with its prefix.                           *)
LEMMA WasBegins ==
    ASSUME NEW t, Sound(t), NEW q, Vacated(t, q), NEW i \in DOMAIN q,
           NEW c \in Descendants(t, q[i].root)
    PROVE  Was(t, q[i], c) \in Seq(Slug) /\ IsPrefix(q[i].prefix, Was(t, q[i], c))
<1>1. q[i].root \in Live(t) /\ q[i].prefix \in Seq(Slug)
  BY TaskTypes
<1>2. PICK a \in Seq(Slug), b \in Seq(Slug) : a = q[i].prefix /\ b = Below(t, c, q[i].root)
  BY <1>1, BelowType
<1>3. a \o b \in Seq(Slug) /\ IsPrefix(a, a \o b)
  BY <1>2, PrefixConcat, ConcatProperties
<1> QED
  BY <1>2, <1>3 DEF Was

(* A write beside the tasks changes nothing below their roots, and so none *)
(* of the names they know.                                                 *)
Aside(t, t1, q) ==
    \A i \in DOMAIN q :
        /\ \A c \in Descendants(t, q[i].root) : c \in Live(t1) /\ t1[c] = t[c]
        /\ \A c \in Descendants(t1, q[i].root) : c \in Live(t) /\ t1[c] = t[c]

LEMMA AsideNames ==
    ASSUME NEW t, NEW t1, Live(t) \subseteq Cat, Live(t1) \subseteq Cat,
           NEW q, Aside(t, t1, q), NEW i \in DOMAIN q
    PROVE  /\ Descendants(t1, q[i].root) = Descendants(t, q[i].root)
           /\ \A c \in Descendants(t, q[i].root) : Was(t1, q[i], c) = Was(t, q[i], c)
<1>1. /\ \A c \in Descendants(t, q[i].root) : c \in Live(t1) /\ t1[c] = t[c]
      /\ \A c \in Descendants(t1, q[i].root) : c \in Live(t) /\ t[c] = t1[c]
  BY DEF Aside
<1>2. \A c \in Descendants(t, q[i].root) :
          /\ c \in Descendants(t1, q[i].root)
          /\ Below(t1, c, q[i].root) = Below(t, c, q[i].root)
  BY <1>1, SameSubtree
<1>3. \A c \in Descendants(t1, q[i].root) : c \in Descendants(t, q[i].root)
  BY <1>1, SameSubtree
<1> QED
  BY <1>2, <1>3 DEF Was

LEMMA UnmetAside ==
    ASSUME NEW t, NEW t1, NEW id, Resettled(t, t1, id), NEW q, NEW new,
           Unmet(t, t1, id, q, new)
    PROVE  Aside(t, t1, q)
<1>0. /\ Live(t) \subseteq Cat /\ Live(t1) = Live(t)
      /\ \A c \in Live(t) \ {id} : t1[c] = t[c]
  BY DEF Resettled, Sound
<1>1. ASSUME NEW i \in DOMAIN q, NEW c \in Descendants(t, q[i].root) \cup Descendants(t1, q[i].root)
      PROVE  c \in Live(t) /\ t1[c] = t[c]
  <2>1. c \in Live(t)
    BY <1>0, DescendantsAre
  <2>2. c # id
    BY DEF Unmet
  <2> QED
    BY <1>0, <2>1, <2>2
<1> QED
  BY <1>0, <1>1 DEF Aside

LEMMA TasksUnmoved ==
    ASSUME NEW t, NEW t1, NEW id, Resettled(t, t1, id), NEW q, NEW new,
           Unmet(t, t1, id, q, new), NEW i \in DOMAIN q
    PROVE  /\ Descendants(t1, q[i].root) = Descendants(t, q[i].root)
           /\ \A c \in Descendants(t, q[i].root) : Was(t1, q[i], c) = Was(t, q[i], c)
<1>1. Live(t) \subseteq Cat /\ Live(t1) \subseteq Cat
  BY DEF Resettled, Sound
<1>2. Aside(t, t1, q)
  BY UnmetAside
<1> QED
  BY <1>1, <1>2, AsideNames

(* How the names change when a rename or move is queued.                   *)
NamesGrow(t, t1, id, q, q1) ==
    /\ \A p : Named(t, q, id, p) => p = TruePath(t, id)
    /\ \A c \in Live(t) \ {id} : \A p : Named(t, q, c, p) => Named(t1, q1, c, p)
    /\ \A c \in Live(t) : \A p : Named(t1, q1, c, p) =>
          \/ c # id /\ Named(t, q, c, p)
          \/ c \in Descendants(t, id) \cup {id} /\ p = TruePath(t1, c)

LEMMA NamesAfter ==
    ASSUME NEW t, NEW t1, NEW id, Resettled(t, t1, id), NEW q, Vacated(t, q), NEW new,
           Unmet(t, t1, id, q, new),
           NEW task, task = [root |-> id, prefix |-> TruePath(t, id)], NEW q1, q1 = Append(q, task)
    PROVE  NamesGrow(t, t1, id, q, q1)
<1>0. /\ Sound(t) /\ id \in Live(t) /\ Live(t1) = Live(t) /\ Live(t) \subseteq Cat
      /\ \A c \in Live(t) \ {id} : t1[c] = t[c]
      /\ id \notin Descendants(t, id) /\ id \notin Descendants(t1, id)
  BY DEF Resettled, Sound, Descendants
<1>1. /\ DOMAIN q = 1 .. Len(q) /\ Len(q) \in Nat
      /\ DOMAIN q1 = 1 .. Len(q) + 1
      /\ \A i \in DOMAIN q : q1[i] = q[i]
      /\ q1[Len(q) + 1] = task
  <2>1. task \in QueuedTask
    BY <1>0, PathType DEF QueuedTask
  <2>2. q \in Seq(QueuedTask)
    BY DEF Vacated
  <2>3. Append(q, task) \in Seq(QueuedTask)
    BY <2>1, <2>2, AppendProperties
  <2> QED
    BY <2>1, <2>2, <2>3, AppendProperties, LenProperties
<1>2. /\ Descendants(t1, id) = Descendants(t, id)
      /\ \A c \in Descendants(t, id) : Was(t1, task, c) = TruePath(t, c)
  <2>1. \A c \in Descendants(t, id) :
            c \in Descendants(t1, id) /\ Below(t1, c, id) = Below(t, c, id)
    BY <1>0, SameBelow
  <2>2. \A c \in Descendants(t1, id) : c \in Descendants(t, id)
    BY <1>0, SameBelow
  <2>3. \A c \in Descendants(t, id) : TruePath(t, c) = TruePath(t, id) \o Below(t, c, id)
    BY <1>0, PathSplits
  <2> QED
    BY <2>1, <2>2, <2>3 DEF Was
<1>3. \A i \in DOMAIN q :
          /\ Descendants(t1, q[i].root) = Descendants(t, q[i].root)
          /\ \A c \in Descendants(t, q[i].root) : Was(t1, q[i], c) = Was(t, q[i], c)
  BY TasksUnmoved
<1>4. \A c \in Live(t) \ (Descendants(t, id) \cup {id}) : TruePath(t1, c) = TruePath(t, c)
  <2>1. \A c \in Live(t) \ (Descendants(t, id) \cup {id}) : Below(t1, c, Root) = Below(t, c, Root)
    BY ResettledOutside
  <2> QED
    BY <2>1 DEF TruePath, Below
<1>5. \A p : Named(t, q, id, p) => p = TruePath(t, id)
  BY DEF Named, Unmet
<1>6. ASSUME NEW c \in Live(t) \ {id}, NEW p, Named(t, q, c, p) PROVE Named(t1, q1, c, p)
  <2>1. CASE p = TruePath(t, c) /\ c \in Descendants(t, id)
    <3>1. Len(q) + 1 \in DOMAIN q1 /\ q1[Len(q) + 1].root = id
      BY <1>1
    <3>2. c \in Descendants(t1, q1[Len(q) + 1].root) /\ p = Was(t1, q1[Len(q) + 1], c)
      BY <1>1, <1>2, <2>1, <3>1
    <3> QED
      BY <3>1, <3>2 DEF Named
  <2>2. CASE p = TruePath(t, c) /\ c \notin Descendants(t, id)
    BY <1>4, <2>2 DEF Named
  <2>3. ASSUME NEW i \in DOMAIN q, c \in Descendants(t, q[i].root), p = Was(t, q[i], c)
        PROVE  Named(t1, q1, c, p)
    <3>1. i \in DOMAIN q1 /\ q1[i] = q[i]
      BY <1>1
    <3>2. c \in Descendants(t1, q1[i].root) /\ p = Was(t1, q1[i], c)
      BY <1>3, <2>3, <3>1
    <3> QED
      BY <3>1, <3>2 DEF Named
  <2> QED
    BY <1>6, <2>1, <2>2, <2>3 DEF Named
<1>7. ASSUME NEW c \in Live(t), NEW p, Named(t1, q1, c, p)
      PROVE  \/ c # id /\ Named(t, q, c, p)
             \/ c \in Descendants(t, id) \cup {id} /\ p = TruePath(t1, c)
  <2>1. CASE p = TruePath(t1, c)
    BY <1>4, <2>1 DEF Named
  <2>2. ASSUME NEW i \in DOMAIN q1, c \in Descendants(t1, q1[i].root), p = Was(t1, q1[i], c)
        PROVE  c # id /\ Named(t, q, c, p)
    <3>1. CASE i = Len(q) + 1
      <4>1. c \in Descendants(t, id) /\ p = TruePath(t, c)
        BY <1>1, <1>2, <2>2, <3>1
      <4> QED
        BY <1>0, <4>1 DEF Named
    <3>2. CASE i \in DOMAIN q
      <4>1. q1[i] = q[i]
        BY <1>1, <3>2
      <4>2. c \in Descendants(t, q[i].root) /\ p = Was(t, q[i], c)
        BY <1>3, <2>2, <3>2, <4>1
      <4> QED
        BY <3>2, <4>2 DEF Named, Unmet
    <3> QED
      BY <1>1, <2>2, <3>1, <3>2
  <2> QED
    BY <1>7, <2>1, <2>2 DEF Named
<1> QED
  BY <1>5, <1>6, <1>7 DEF NamesGrow

(* A category with the path of a child of a category is a child of it.     *)
LEMMA SamePathSameParent ==
    ASSUME NEW t, Sound(t), \A c, d \in Live(t) : TruePath(t, c) = TruePath(t, d) => c = d,
           NEW to \in Live(t) \cup {Root}, NEW slug \in Slug, NEW e \in Live(t),
           TruePath(t, e) = Append(TruePath(t, to), slug)
    PROVE  t[e].parent = to /\ t[e].slug = slug
<1>1. \A c, d \in Live(t) \cup {Root} : TruePath(t, c) = TruePath(t, d) => c = d
  <2>1. TruePath(t, Root) = <<>> /\ \A c \in Live(t) : TruePath(t, c) # <<>>
    BY PathStep, PathType
  <2> QED
    BY <2>1
<1>2. TruePath(t, e) = Append(TruePath(t, t[e].parent), t[e].slug)
  BY PathStep
<1>3. t[e].parent \in Live(t) \cup {Root} /\ t[e].slug \in Slug
  BY DEF Sound
<1>4. PICK u \in Seq(Slug), v \in Seq(Slug), b \in Slug :
          u = TruePath(t, to) /\ v = TruePath(t, t[e].parent) /\ b = t[e].slug
  BY <1>3, PathType
<1>5. Append(u, slug) = Append(v, b)
  BY <1>2, <1>4
<1>6. u = v /\ slug = b
  BY <1>4, <1>5, AppendInjective
<1> QED
  BY <1>1, <1>3, <1>4, <1>6

(* The path is new: a category that has it would be one that a task is     *)
(* about, and so would the category that is renamed or moved.              *)
LEMMA QueuedPathFresh ==
    ASSUME NEW t, NEW t1, NEW id, Resettled(t, t1, id), t1[id] # t[id],
           NEW q, NEW f, Kept(t, q, f), NEW new, new = TruePath(t1, id),
           Unmet(t, t1, id, q, new), new \in DOMAIN f => f[new] = id
    PROVE  new \notin Paths(t)
<1>0. /\ Sound(t) /\ id \in Live(t) /\ Live(t1) = Live(t) /\ Live(t) \subseteq Cat
      /\ \A c \in Live(t) \ {id} : t1[c] = t[c]
      /\ t[id] \in [parent : Live(t) \cup {Root}, slug : Slug]
      /\ t1[id] \in [parent : Live(t) \cup {Root}, slug : Slug]
      /\ t1[id].parent # id /\ t1[id].parent \notin Descendants(t, id)
  BY DEF Resettled, Sound
<1>1. Sound(t1)
  BY ResettledSound
<1> SUFFICES ASSUME new \in Paths(t) PROVE FALSE
  OBVIOUS
<1>2. PICK e \in Live(t) : new = TruePath(t, e)
  BY DEF Paths
<1> DEFINE to == t1[id].parent
<1>3. TruePath(t1, to) = TruePath(t, to)
  <2>1. to \in (Live(t) \cup {Root}) \ (Descendants(t, id) \cup {id})
    BY <1>0
  <2>2. Below(t1, to, Root) = Below(t, to, Root)
    BY <2>1, ResettledOutside
  <2> QED
    BY <2>2 DEF TruePath, Below
<1>4. \A c, d \in Live(t) : TruePath(t, c) = TruePath(t, d) => c = d
  BY DEF Kept, Apart, Named
<1>5. t[e].parent = to /\ t[e].slug = t1[id].slug
  <2>1. PICK a, slug : a = to /\ slug = t1[id].slug
    OBVIOUS
  <2>2. TruePath(t, e) = Append(TruePath(t, a), slug)
    BY <1>0, <1>1, <1>2, <1>3, <2>1, PathStep
  <2>3. a \in Live(t) \cup {Root} /\ slug \in Slug
    BY <1>0, <2>1
  <2>4. t[e].parent = a /\ t[e].slug = slug
    BY <1>0, <1>4, <2>2, <2>3, SamePathSameParent
  <2> QED
    BY <2>1, <2>4
<1>6. e # id
  <2> SUFFICES ASSUME e = id PROVE FALSE
    OBVIOUS
  <2>1. PICK P, x, y : P = Live(t) \cup {Root} /\ x = t1[id] /\ y = t[id]
    OBVIOUS
  <2>2. x \in [parent : P, slug : Slug] /\ y \in [parent : P, slug : Slug]
    BY <1>0, <2>1
  <2>3. x.parent = y.parent /\ x.slug = y.slug
    BY <1>5, <2>1
  <2>4. x = y
    BY <2>2, <2>3
  <2> QED
    BY <2>1, <2>4
<1>7. PICK p \in DOMAIN f : f[p] = e
  BY DEF Kept, Indexed
<1>8. Named(t, q, e, p) /\ p # TruePath(t, e)
  BY <1>2, <1>6, <1>7 DEF Kept, Indexed
<1>9. PICK i \in DOMAIN q : e \in Descendants(t, q[i].root)
  BY <1>8 DEF Named
<1>10. q[i].root \in Live(t) /\ Vacated(t, q)
  BY TaskTypes DEF Kept
<1>11. to = q[i].root \/ to \in Descendants(t, q[i].root)
  BY <1>0, <1>5, <1>9, <1>10, DescendantIs
<1>12. to = q[i].root \/ to \in Descendants(t1, q[i].root)
  <2>1. Descendants(t1, q[i].root) = Descendants(t, q[i].root)
    BY TasksUnmoved
  <2> QED
    BY <1>11, <2>1
<1>13. CASE id = q[i].root
  BY <1>0, <1>11, <1>13
<1>14. CASE id # q[i].root
  <2>1. id \in Descendants(t1, q[i].root)
    BY <1>0, <1>1, <1>10, <1>12, <1>14, DescendantIs
  <2> QED
    BY <2>1 DEF Unmet
<1> QED
  BY <1>13, <1>14

(* A path below the new one begins with it.                                *)
SplitAlike(t, t1, id, c) ==
    \E a, b, u \in Seq(Slug) :
        /\ a = TruePath(t1, id) /\ TruePath(t1, c) = a \o u
        /\ b = TruePath(t, id) /\ TruePath(t, c) = b \o u

LEMMA NewPathBegins ==
    ASSUME NEW t, NEW t1, NEW id, Resettled(t, t1, id), NEW c \in Descendants(t, id) \cup {id}
    PROVE  /\ c \in Live(t) /\ SplitAlike(t, t1, id, c)
           /\ TruePath(t1, id) \in Seq(Slug) /\ TruePath(t1, c) \in Seq(Slug)
           /\ IsPrefix(TruePath(t1, id), TruePath(t1, c))
<1>0. /\ Sound(t) /\ id \in Live(t) /\ Live(t1) = Live(t) /\ Live(t) \subseteq Cat
      /\ \A d \in Live(t) \ {id} : t1[d] = t[d]
      /\ id \notin Descendants(t, id)
      /\ c \in Live(t)
  BY DescendantsAre DEF Resettled, Sound
<1>1. Sound(t1)
  BY ResettledSound
<1>2. c \in Descendants(t1, id) \cup {id} /\ Below(t1, c, id) = Below(t, c, id)
  <2>1. CASE c = id
    BY <1>0, <2>1, ReachSelf
  <2>2. CASE c # id
    BY <1>0, <2>2, SameBelow
  <2> QED
    BY <2>1, <2>2
<1>3. TruePath(t1, c) = TruePath(t1, id) \o Below(t1, c, id)
  BY <1>0, <1>1, <1>2, PathSplits
<1>4. TruePath(t, c) = TruePath(t, id) \o Below(t, c, id)
  BY <1>0, PathSplits
<1>5. PICK a \in Seq(Slug), b \in Seq(Slug), u \in Seq(Slug) :
          a = TruePath(t1, id) /\ b = TruePath(t, id) /\ u = Below(t, c, id)
  BY <1>0, <1>1, PathType, BelowType
<1>6. a \o u \in Seq(Slug) /\ IsPrefix(a, a \o u)
  BY <1>5, PrefixConcat, ConcatProperties
<1>7. TruePath(t1, c) = a \o u /\ TruePath(t, c) = b \o u
  BY <1>2, <1>3, <1>4, <1>5
<1> QED
  BY <1>0, <1>5, <1>6, <1>7 DEF SplitAlike

(* No category has a name below the new path already.                      *)
LEMMA NewNamesApart ==
    ASSUME NEW t, NEW t1, NEW id, Resettled(t, t1, id), NEW q, Vacated(t, q),
           NEW new, new = TruePath(t1, id), Unmet(t, t1, id, q, new), new \notin Paths(t),
           NEW c \in Descendants(t, id) \cup {id}, NEW d \in Live(t)
    PROVE  ~Named(t, q, d, TruePath(t1, c))
<1>0. Sound(t)
  BY DEF Resettled
<1>1. TruePath(t1, c) # TruePath(t, d)
  BY NewPathsFresh DEF Paths
<1>2. ASSUME NEW i \in DOMAIN q, d \in Descendants(t, q[i].root), TruePath(t1, c) = Was(t, q[i], d)
      PROVE  FALSE
  <2>1. TruePath(t1, c) \in Seq(Slug) /\ IsPrefix(new, TruePath(t1, c))
    BY NewPathBegins
  <2>2. new \in Seq(Slug)
    BY NewPathBegins
  <2>3. q[i].prefix \in Seq(Slug) /\ IsPrefix(q[i].prefix, TruePath(t1, c))
    BY <1>0, <1>2, TaskTypes, WasBegins
  <2>4. IsPrefix(new, q[i].prefix) \/ IsPrefix(q[i].prefix, new)
    BY <2>1, <2>2, <2>3, PrefixesCompare
  <2> QED
    BY <2>4 DEF Unmet
<1> QED
  BY <1>1, <1>2 DEF Named

(* Two that share the new path shared the old one.                         *)
LEMMA NewPathsApart ==
    ASSUME NEW t, NEW t1, NEW id, Resettled(t, t1, id),
           NEW c \in Descendants(t, id) \cup {id}, NEW d \in Descendants(t, id) \cup {id},
           TruePath(t1, c) = TruePath(t1, d)
    PROVE  TruePath(t, c) = TruePath(t, d)
<1>1. PICK a \in Seq(Slug), b \in Seq(Slug), u \in Seq(Slug) :
          /\ a = TruePath(t1, id) /\ TruePath(t1, c) = a \o u
          /\ b = TruePath(t, id) /\ TruePath(t, c) = b \o u
  <2>1. SplitAlike(t, t1, id, c)
    BY NewPathBegins
  <2> QED
    BY <2>1 DEF SplitAlike
<1>2. PICK a1 \in Seq(Slug), b1 \in Seq(Slug), v \in Seq(Slug) :
          /\ a1 = TruePath(t1, id) /\ TruePath(t1, d) = a1 \o v
          /\ b1 = TruePath(t, id) /\ TruePath(t, d) = b1 \o v
  <2>1. SplitAlike(t, t1, id, d)
    BY NewPathBegins
  <2> QED
    BY <2>1 DEF SplitAlike
<1>3. a \o u = a \o v
  BY <1>1, <1>2
<1>4. u = v
  BY <1>3, ConcatSimplifications
<1> QED
  BY <1>1, <1>2, <1>4

(* No task has paths to free where the new ones are.                       *)
LEMMA NewPathsClear ==
    ASSUME NEW t, NEW t1, NEW id, Resettled(t, t1, id), NEW q, Vacated(t, q),
           NEW new, new = TruePath(t1, id), Unmet(t, t1, id, q, new),
           NEW c \in Descendants(t, id) \cup {id}, NEW i \in DOMAIN q
    PROVE  ~IsPrefix(q[i].prefix, TruePath(t1, c))
<1> SUFFICES ASSUME IsPrefix(q[i].prefix, TruePath(t1, c)) PROVE FALSE
  OBVIOUS
<1>1. TruePath(t1, c) \in Seq(Slug) /\ IsPrefix(new, TruePath(t1, c)) /\ new \in Seq(Slug)
  BY NewPathBegins
<1>2. q[i].prefix \in Seq(Slug)
  BY TaskTypes
<1>3. IsPrefix(new, q[i].prefix) \/ IsPrefix(q[i].prefix, new)
  BY <1>1, <1>2, PrefixesCompare
<1> QED
  BY <1>3 DEF Unmet

LEMMA QueuedApart ==
    ASSUME NEW t, NEW t1, NEW id, Resettled(t, t1, id), NEW q, Vacated(t, q), Apart(t, q),
           NEW new, new = TruePath(t1, id), Unmet(t, t1, id, q, new), new \notin Paths(t),
           NEW task, task = [root |-> id, prefix |-> TruePath(t, id)], NEW q1, q1 = Append(q, task)
    PROVE  Apart(t1, q1)
<1>0. Live(t1) = Live(t) /\ Sound(t)
  BY DEF Resettled
<1> SUFFICES ASSUME NEW c \in Live(t), NEW d \in Live(t), NEW p,
                    Named(t1, q1, c, p), Named(t1, q1, d, p)
             PROVE  c = d
  BY <1>0 DEF Apart
<1>10. NamesGrow(t, t1, id, q, q1)
  BY NamesAfter
<1>1. /\ Named(t, q, c, p) \/ (c \in Descendants(t, id) \cup {id} /\ p = TruePath(t1, c))
      /\ Named(t, q, d, p) \/ (d \in Descendants(t, id) \cup {id} /\ p = TruePath(t1, d))
  BY <1>10 DEF NamesGrow
<1>2. CASE Named(t, q, c, p) /\ Named(t, q, d, p)
  BY <1>2 DEF Apart
<1>3. CASE Named(t, q, c, p) /\ d \in Descendants(t, id) \cup {id} /\ p = TruePath(t1, d)
  BY <1>3, NewNamesApart
<1>4. CASE Named(t, q, d, p) /\ c \in Descendants(t, id) \cup {id} /\ p = TruePath(t1, c)
  BY <1>4, NewNamesApart
<1>5. CASE /\ c \in Descendants(t, id) \cup {id} /\ p = TruePath(t1, c)
           /\ d \in Descendants(t, id) \cup {id} /\ p = TruePath(t1, d)
  <2>1. TruePath(t1, c) = TruePath(t1, d)
    BY <1>5
  <2>2. TruePath(t, c) = TruePath(t, d)
    BY <1>5, <2>1, NewPathsApart
  <2> QED
    BY <2>2 DEF Apart, Named
<1> QED
  BY <1>1, <1>2, <1>3, <1>4, <1>5

LEMMA QueuedVacated ==
    ASSUME NEW t, NEW t1, NEW id, Resettled(t, t1, id), NEW q, Vacated(t, q), Apart(t, q),
           NEW new, new = TruePath(t1, id), Unmet(t, t1, id, q, new), new \notin Paths(t),
           Descendants(t, id) # {},
           NEW task, task = [root |-> id, prefix |-> TruePath(t, id)], NEW q1, q1 = Append(q, task)
    PROVE  Vacated(t1, q1)
<1>0. /\ Sound(t) /\ id \in Live(t) /\ Live(t1) = Live(t) /\ Live(t) \subseteq Cat
      /\ q \in Seq(QueuedTask)
  BY DEF Resettled, Sound, Vacated
<1>1. Sound(t1)
  BY ResettledSound
<1>2. task \in QueuedTask
  BY <1>0, PathType DEF QueuedTask
<1>3. q1 \in Seq(QueuedTask) /\ DOMAIN q1 = DOMAIN q \cup {Len(q) + 1}
      /\ \A i \in DOMAIN q : q1[i] = q[i]
      /\ q1[Len(q) + 1] = task
  BY <1>0, <1>2, AppendProperties, LenProperties
<1>4. \A c \in Live(t) \ (Descendants(t, id) \cup {id}) : TruePath(t1, c) = TruePath(t, c)
  <2>1. \A c \in Live(t) \ (Descendants(t, id) \cup {id}) : Below(t1, c, Root) = Below(t, c, Root)
    BY ResettledOutside
  <2> QED
    BY <2>1 DEF TruePath, Below
<1>5. ASSUME NEW i \in DOMAIN q, NEW c \in Live(t), IsPrefix(q[i].prefix, TruePath(t1, c))
      PROVE  FALSE
  <2>1. CASE c \in Descendants(t, id) \cup {id}
    BY <1>5, <2>1, NewPathsClear
  <2>2. CASE c \notin Descendants(t, id) \cup {id}
    BY <1>4, <1>5, <2>2 DEF Vacated
  <2> QED
    BY <2>1, <2>2
<1>6. ASSUME NEW c \in Live(t), IsPrefix(TruePath(t, id), TruePath(t1, c))
      PROVE  FALSE
  <2>1. PICK p \in Seq(Slug), old \in Seq(Slug) : p = TruePath(t1, c) /\ old = TruePath(t, id) /\ old # <<>>
    BY <1>0, <1>1, PathType
  <2>2. Len(old) \in 1 .. Len(p) /\ SubSeq(p, 1, Len(old)) = old
    <3>1. Len(old) \in Nat \ {0} /\ Len(p) \in Nat
      BY <2>1, EmptySeq, LenProperties
    <3>2. Len(old) <= Len(p) /\ SubSeq(old, 1, Len(old)) = SubSeq(p, 1, Len(old))
      BY <1>6, <2>1 DEF IsPrefix
    <3>3. SubSeq(old, 1, Len(old)) = old
      BY <2>1, SubSeqFull
    <3> QED
      BY <3>1, <3>2, <3>3
  <2>3. old \in Paths(t1)
    <3>1. PICK n : n = Len(old)
      OBVIOUS
    <3>2. n \in 1 .. Len(TruePath(t1, c)) /\ c \in Live(t1)
      BY <1>0, <2>1, <2>2, <3>1
    <3>3. SubSeq(TruePath(t1, c), 1, n) \in Paths(t1)
      BY <1>1, <3>2, PrefixesLive
    <3> QED
      BY <2>1, <2>2, <3>1, <3>3
  <2>4. PICK e \in Live(t) : TruePath(t1, e) = old
    BY <1>0, <2>3 DEF Paths
  <2>5. CASE e \in Descendants(t, id) \cup {id}
    <3>1. TruePath(t1, e) \notin Paths(t)
      BY <2>5, NewPathsFresh
    <3> QED
      BY <1>0, <2>1, <2>4, <3>1 DEF Paths
  <2>6. CASE e \notin Descendants(t, id) \cup {id}
    <3>1. TruePath(t, e) = TruePath(t, id)
      BY <1>4, <2>1, <2>4, <2>6
    <3>2. e = id
      BY <1>0, <3>1 DEF Apart, Named
    <3> QED
      BY <2>6, <3>2
  <2> QED
    BY <2>5, <2>6
<1>7. ASSUME NEW i \in DOMAIN q1
      PROVE  /\ q1[i].root \in Live(t1) /\ Descendants(t1, q1[i].root) # {}
             /\ \A c \in Live(t1) : ~IsPrefix(q1[i].prefix, TruePath(t1, c))
  <2>1. CASE i \in DOMAIN q
    <3>1. Descendants(t1, q[i].root) = Descendants(t, q[i].root)
      BY <2>1, TasksUnmoved
    <3>2. Descendants(t, q[i].root) # {} /\ q[i].root \in Live(t)
      BY <2>1 DEF Vacated
    <3> QED
      BY <1>0, <1>3, <1>5, <2>1, <3>1, <3>2
  <2>2. CASE i = Len(q) + 1
    <3>1. id \notin Descendants(t, id) /\ \A c \in Live(t) \ {id} : t1[c] = t[c]
      BY DEF Resettled, Descendants
    <3>2. \A c \in Descendants(t, id) : c \in Descendants(t1, id)
      BY <1>0, <3>1, SameBelow
    <3> QED
      BY <1>0, <1>3, <1>6, <2>2, <3>2
  <2> QED
    BY <1>3, <1>7, <2>1, <2>2
<1> QED
  BY <1>3, <1>7 DEF Vacated

(* A queued rename or move, the queue and the index after it: the category *)
(* itself is indexed anew, those below it keep a name.                     *)
IsQueued(id, old, new, q, f, q1, f1) ==
    /\ q1 = Append(q, [root |-> id, prefix |-> old])
    /\ f1 = Swap1(f, [id |-> id, old |-> old, new |-> new])

LEMMA QueuedKeeps ==
    ASSUME NEW t, NEW t1, NEW id, Resettled(t, t1, id), t1[id] # t[id],
           NEW q, NEW f, Kept(t, q, f),
           NEW old, old = TruePath(t, id), NEW new, new = TruePath(t1, id),
           Unmet(t, t1, id, q, new), new \in DOMAIN f => f[new] = id,
           Descendants(t, id) # {}, NEW q1, NEW f1, IsQueued(id, old, new, q, f, q1, f1)
    PROVE  Kept(t1, q1, f1) /\ DOMAIN f1 \subseteq DOMAIN f \cup {new}
<1>0. /\ Sound(t) /\ id \in Live(t) /\ Live(t1) = Live(t)
      /\ Vacated(t, q) /\ Apart(t, q) /\ Indexed(t, q, f)
  BY DEF Resettled, Kept
<1>1. new \notin Paths(t)
  BY QueuedPathFresh
<1>2. PICK task : task = [root |-> id, prefix |-> old]
  OBVIOUS
<1>3. task = [root |-> id, prefix |-> TruePath(t, id)] /\ q1 = Append(q, task)
  BY <1>2 DEF IsQueued
<1>4. Apart(t1, q1) /\ Vacated(t1, q1)
  BY <1>0, <1>1, <1>3, QueuedApart, QueuedVacated
<1>5. PICK s : s = [id |-> id, old |-> old, new |-> new]
  OBVIOUS
<1>6. /\ DOMAIN f1 = (DOMAIN f \ {old}) \cup {new} /\ f1[new] = id
      /\ \A p \in DOMAIN f \ {old} : p # new => f1[p] = f[p]
      /\ f1 = [p \in DOMAIN f1 |-> f1[p]]
  <2>1. s.id = id /\ s.old = old /\ s.new = new /\ f1 = Swap1(f, s)
    BY <1>5 DEF IsQueued
  <2>2. PICK g : g = Swap1(f, s)
    OBVIOUS
  <2>3. /\ DOMAIN g = (DOMAIN f \ {s.old}) \cup {s.new} /\ g[s.new] = s.id
        /\ \A p \in DOMAIN f \ {s.old} : p # s.new => g[p] = f[p]
        /\ g = [p \in DOMAIN g |-> g[p]]
    BY <2>2 DEF Swap1, With, Without, Restrict
  <2> QED
    BY <2>1, <2>2, <2>3
<1>7. /\ \A p : Named(t, q, id, p) => p = old
      /\ \A c \in Live(t) \ {id} : \A p : Named(t, q, c, p) => Named(t1, q1, c, p)
  <2>1. NamesGrow(t, t1, id, q, q1)
    BY <1>0, <1>3, NamesAfter
  <2> QED
    BY <2>1 DEF NamesGrow
<1>8. old \in DOMAIN f /\ f[old] = id
  BY <1>0, <1>7 DEF Indexed
<1>9. new # old
  BY <1>0, <1>1 DEF Paths
<1>10. new \notin DOMAIN f
  BY <1>0, <1>7, <1>8, <1>9 DEF Indexed
<1>11. Indexed(t1, q1, f1)
  <2>1. ASSUME NEW p \in DOMAIN f1 PROVE f1[p] \in Live(t1) /\ Named(t1, q1, f1[p], p)
    <3>1. CASE p = new
      BY <1>0, <1>6, <3>1 DEF Named
    <3>2. CASE p # new
      <4>1. p \in DOMAIN f /\ p # old /\ f1[p] = f[p]
        BY <1>6, <3>2
      <4>2. f[p] \in Live(t) \ {id} /\ Named(t, q, f[p], p)
        BY <1>0, <1>8, <4>1 DEF Indexed
      <4> QED
        BY <1>0, <1>7, <4>1, <4>2
    <3> QED
      BY <3>1, <3>2
  <2>2. ASSUME NEW c \in Live(t1) PROVE \E p \in DOMAIN f1 : f1[p] = c
    <3>1. CASE c = id
      BY <1>6, <3>1
    <3>2. CASE c # id
      <4>1. PICK p \in DOMAIN f : f[p] = c
        BY <1>0 DEF Indexed
      <4>2. p # old /\ p # new
        BY <1>8, <1>10, <3>2, <4>1
      <4> QED
        BY <1>6, <4>1, <4>2
    <3> QED
      BY <3>1, <3>2
  <2>3. ASSUME NEW p \in DOMAIN f1, NEW x \in DOMAIN f1, f1[p] = f1[x] PROVE p = x
    <3>1. \A y \in DOMAIN f1 : y # new => y \in DOMAIN f /\ y # old /\ f1[y] = f[y]
      BY <1>6
    <3>2. \A y \in DOMAIN f1 : y # new => f1[y] # id
      BY <1>0, <1>8, <3>1 DEF Indexed
    <3> QED
      BY <1>0, <1>6, <2>3, <3>1, <3>2 DEF Indexed
  <2> QED
    BY <1>6, <2>1, <2>2, <2>3 DEF Indexed
<1> QED
  BY <1>4, <1>6, <1>11 DEF Kept

(* A write that swaps all the paths it has to, beside the tasks: out are   *)
(* the categories whose paths go, in those whose paths come.               *)
Beside(t, t1, q, out, in) ==
    /\ Sound(t1) /\ Aside(t, t1, q)
    /\ out \subseteq Live(t) /\ in \subseteq Live(t1) /\ Live(t1) \ in = Live(t) \ out
    /\ \A c \in Live(t) \ out : TruePath(t1, c) = TruePath(t, c)
    /\ \A i \in DOMAIN q :
          /\ q[i].root \in Live(t1)
          /\ Descendants(t, q[i].root) \cap (out \cup in) = {}
          /\ \A c \in in : ~IsPrefix(q[i].prefix, TruePath(t1, c))
    /\ \A c \in in, d \in Live(t) : ~Named(t, q, d, TruePath(t1, c))
    /\ \A c, d \in in : TruePath(t1, c) = TruePath(t1, d) => c = d

LEMMA BesideNames ==
    ASSUME NEW t, NEW t1, Sound(t), NEW q, NEW out, NEW in, Beside(t, t1, q, out, in)
    PROVE  /\ \A c \in Live(t) \ out : \A p : Named(t1, q, c, p) <=> Named(t, q, c, p)
           /\ \A c \in in : \A p : Named(t1, q, c, p) <=> p = TruePath(t1, c)
           /\ \A c \in out : \A p : Named(t, q, c, p) <=> p = TruePath(t, c)
<1>1. /\ \A c \in Live(t) \ out : TruePath(t1, c) = TruePath(t, c)
      /\ \A i \in DOMAIN q : Descendants(t, q[i].root) \cap (out \cup in) = {}
      /\ Aside(t, t1, q) /\ Live(t) \subseteq Cat /\ Live(t1) \subseteq Cat
  BY DEF Beside, Sound
<1>2. \A i \in DOMAIN q :
          /\ Descendants(t1, q[i].root) = Descendants(t, q[i].root)
          /\ \A c \in Descendants(t, q[i].root) : Was(t1, q[i], c) = Was(t, q[i], c)
  BY <1>1, AsideNames
<1>3. ASSUME NEW c \in Live(t) \ out, NEW p PROVE Named(t1, q, c, p) <=> Named(t, q, c, p)
  BY <1>1, <1>2 DEF Named
<1>4. ASSUME NEW c \in in, NEW p PROVE Named(t1, q, c, p) <=> p = TruePath(t1, c)
  BY <1>1, <1>2 DEF Named
<1>5. ASSUME NEW c \in out, NEW p PROVE Named(t, q, c, p) <=> p = TruePath(t, c)
  BY <1>1 DEF Named
<1> QED
  BY <1>3, <1>4, <1>5

LEMMA BesideKeeps ==
    ASSUME NEW t, NEW t1, Sound(t), NEW q, NEW f, Kept(t, q, f), NEW out, NEW in,
           Beside(t, t1, q, out, in), NEW g, IsMoved(g, f, t, t1, out, in)
    PROVE  Kept(t1, q, g)
<1>0. /\ out \subseteq Live(t) /\ in \subseteq Live(t1) /\ Live(t1) \ in = Live(t) \ out
      /\ \A c \in Live(t) \ out : TruePath(t1, c) = TruePath(t, c)
      /\ \A c \in in, d \in Live(t) : ~Named(t, q, d, TruePath(t1, c))
      /\ \A c, d \in in : TruePath(t1, c) = TruePath(t1, d) => c = d
  BY DEF Beside
<1>1. /\ \A c \in Live(t) \ out : \A p : Named(t1, q, c, p) <=> Named(t, q, c, p)
      /\ \A c \in in : \A p : Named(t1, q, c, p) <=> p = TruePath(t1, c)
      /\ \A c \in out : \A p : Named(t, q, c, p) <=> p = TruePath(t, c)
  BY BesideNames
<1>2. /\ \A p \in DOMAIN f : f[p] \in Live(t) /\ Named(t, q, f[p], p)
      /\ \A c \in Live(t) : \E p \in DOMAIN f : f[p] = c
      /\ \A p, x \in DOMAIN f : f[p] = f[x] => p = x
  BY DEF Kept, Indexed
<1> DEFINE O == PathsOf(t, out)
           N == PathsOf(t1, in)
<1>3. \A p \in DOMAIN f : p \notin N
  BY <1>0, <1>2 DEF PathsOf
<1>4. \A p \in DOMAIN f : p \in O <=> f[p] \in out
  <2>1. ASSUME NEW p \in DOMAIN f, f[p] \in out PROVE p \in O
    BY <1>1, <1>2, <2>1 DEF PathsOf
  <2>2. ASSUME NEW p \in DOMAIN f, p \in O PROVE f[p] \in out
    <3>1. PICK c \in out : p = TruePath(t, c)
      BY <2>2 DEF PathsOf
    <3>2. PICK x \in DOMAIN f : f[x] = c
      BY <1>0, <1>2
    <3>3. x = TruePath(t, c)
      BY <1>1, <1>2, <3>2
    <3> QED
      BY <3>1, <3>2, <3>3
  <2> QED
    BY <2>1, <2>2
<1>5. /\ g = [p \in DOMAIN g |-> g[p]] /\ DOMAIN g = (DOMAIN f \ O) \cup N
      /\ \A c \in in : g[TruePath(t1, c)] = c
      /\ \A p \in DOMAIN f : p \notin O /\ p \notin N => g[p] = f[p]
  BY DEF IsMoved
<1>6. \A p \in N : g[p] \in in /\ p = TruePath(t1, g[p])
  BY <1>5 DEF PathsOf
<1>7. \A c \in in : TruePath(t1, c) \in N
  BY DEF PathsOf
<1> HIDE DEF O, N
<1>8. \A p \in DOMAIN f \ O : g[p] = f[p] /\ g[p] \in Live(t) \ out
  BY <1>2, <1>3, <1>4, <1>5
<1>9. Indexed(t1, q, g)
  <2>1. ASSUME NEW p \in DOMAIN g PROVE g[p] \in Live(t1) /\ Named(t1, q, g[p], p)
    <3>1. CASE p \in N
      BY <1>0, <1>1, <1>6, <3>1
    <3>2. CASE p \in DOMAIN f \ O
      BY <1>0, <1>1, <1>2, <1>8, <3>2
    <3> QED
      BY <1>5, <3>1, <3>2
  <2>2. ASSUME NEW c \in Live(t1) PROVE \E p \in DOMAIN g : g[p] = c
    <3>1. CASE c \in in
      BY <1>5, <1>7, <3>1
    <3>2. CASE c \notin in
      <4>1. c \in Live(t) \ out
        BY <1>0, <3>2
      <4>2. PICK p \in DOMAIN f : f[p] = c
        BY <1>2, <4>1
      <4> QED
        BY <1>4, <1>5, <1>8, <4>1, <4>2
    <3> QED
      BY <3>1, <3>2
  <2>3. ASSUME NEW p \in DOMAIN g, NEW x \in DOMAIN g, g[p] = g[x] PROVE p = x
    <3>1. \A y \in DOMAIN f \ O : g[y] \notin in
      BY <1>0, <1>8
    <3>2. CASE p \in N \/ x \in N
      BY <1>5, <1>6, <2>3, <3>1, <3>2
    <3>3. CASE p \in DOMAIN f \ O /\ x \in DOMAIN f \ O
      BY <1>2, <1>8, <2>3, <3>3
    <3> QED
      BY <1>5, <3>2, <3>3
  <2> QED
    BY <1>5, <2>1, <2>2, <2>3 DEF Indexed
<1>10. Apart(t1, q)
  <2> SUFFICES ASSUME NEW c \in Live(t1), NEW d \in Live(t1), NEW p,
                      Named(t1, q, c, p), Named(t1, q, d, p)
               PROVE  c = d
    BY DEF Apart
  <2>1. CASE c \in in /\ d \in in
    BY <1>0, <1>1, <2>1
  <2>2. CASE c \in in /\ d \notin in
    BY <1>0, <1>1, <2>2
  <2>3. CASE c \notin in /\ d \in in
    BY <1>0, <1>1, <2>3
  <2>4. CASE c \notin in /\ d \notin in
    <3>1. c \in Live(t) /\ d \in Live(t) /\ Named(t, q, c, p) /\ Named(t, q, d, p)
      BY <1>0, <1>1, <2>4
    <3> QED
      BY <3>1 DEF Kept, Apart
  <2> QED
    BY <2>1, <2>2, <2>3, <2>4
<1>11. Vacated(t1, q)
  <2>1. q \in Seq(QueuedTask)
    BY DEF Kept, Vacated
  <2>2. ASSUME NEW i \in DOMAIN q PROVE q[i].root \in Live(t1) /\ Descendants(t1, q[i].root) # {}
    <3>1. Descendants(t1, q[i].root) = Descendants(t, q[i].root)
      BY AsideNames DEF Beside, Sound
    <3> QED
      BY <3>1 DEF Kept, Vacated, Beside
  <2>3. ASSUME NEW i \in DOMAIN q, NEW c \in Live(t1) PROVE ~IsPrefix(q[i].prefix, TruePath(t1, c))
    <3>1. CASE c \in in
      BY <3>1 DEF Beside
    <3>2. CASE c \notin in
      <4>1. c \in Live(t) /\ TruePath(t1, c) = TruePath(t, c)
        BY <1>0, <3>2
      <4> QED
        BY <4>1 DEF Kept, Vacated
    <3> QED
      BY <3>1, <3>2
  <2> QED
    BY <2>1, <2>2, <2>3 DEF Vacated
<1> QED
  BY <1>9, <1>10, <1>11 DEF Kept

(* The three kinds of such a write.                                        *)
SharesNone(t, id, q) ==
    \A i \in DOMAIN q : Descendants(t, id) \cap Descendants(t, q[i].root) = {}

LEMMA ResettledBeside ==
    ASSUME NEW t, NEW t1, NEW id, Resettled(t, t1, id), t1[id] # t[id],
           NEW q, NEW f, Kept(t, q, f), NEW new, new = TruePath(t1, id),
           Unmet(t, t1, id, q, new), SharesNone(t, id, q), new \in DOMAIN f => f[new] = id,
           NEW in, in = Descendants(t, id) \cup {id}
    PROVE  Beside(t, t1, q, in, in) /\ new \notin Paths(t)
<1>0. /\ Sound(t) /\ id \in Live(t) /\ Live(t1) = Live(t) /\ Live(t) \subseteq Cat
      /\ Vacated(t, q) /\ Apart(t, q)
  BY DEF Resettled, Sound, Kept
<1>1. new \notin Paths(t)
  BY QueuedPathFresh
<1>2. Sound(t1) /\ Aside(t, t1, q) /\ in \subseteq Live(t)
  BY <1>0, ResettledSound, UnmetAside, DescendantsAre
<1>3. \A c \in Live(t) \ in : TruePath(t1, c) = TruePath(t, c)
  <2>1. \A c \in Live(t) \ in : Below(t1, c, Root) = Below(t, c, Root)
    BY ResettledOutside
  <2> QED
    BY <2>1 DEF TruePath, Below
<1>4. ASSUME NEW i \in DOMAIN q
      PROVE  /\ q[i].root \in Live(t1) /\ Descendants(t, q[i].root) \cap in = {}
             /\ \A c \in in : ~IsPrefix(q[i].prefix, TruePath(t1, c))
  <2>1. \A c \in in : ~IsPrefix(q[i].prefix, TruePath(t1, c))
    BY <1>0, NewPathsClear
  <2>2. q[i].root \in Live(t1)
    BY <1>0 DEF Vacated
  <2>3. Descendants(t, q[i].root) \cap in = {}
    BY DEF SharesNone, Unmet
  <2> QED
    BY <2>1, <2>2, <2>3
<1>5. \A c \in in, d \in Live(t) : ~Named(t, q, d, TruePath(t1, c))
  BY <1>0, <1>1, NewNamesApart
<1>6. ASSUME NEW c \in in, NEW d \in in, TruePath(t1, c) = TruePath(t1, d) PROVE c = d
  <2>1. TruePath(t, c) = TruePath(t, d)
    BY <1>6, NewPathsApart
  <2> QED
    BY <1>0, <1>2, <2>1 DEF Apart, Named
<1> QED
  BY <1>0, <1>1, <1>2, <1>3, <1>4, <1>5, <1>6 DEF Beside

LEMMA GrownBeside ==
    ASSUME NEW t, Sound(t), NEW t1, NEW id, NEW parent, NEW slug, Grown(t, t1, id, parent, slug),
           NEW q, NEW f, Kept(t, q, f), NEW new, new = TruePath(t1, id),
           Unmet(t, t1, id, q, new), new \in DOMAIN f => f[new] \notin Live(t)
    PROVE  Beside(t, t1, q, {}, {id})
<1>0. /\ id \in Cat \ Live(t) /\ parent \in Live(t) \cup {Root} /\ slug \in Slug
      /\ Live(t1) = Live(t) \cup {id} /\ \A c \in Live(t) : t1[c] = t[c]
      /\ t1[id] = [parent |-> parent, slug |-> slug]
      /\ Live(t) \subseteq Cat /\ Vacated(t, q) /\ Apart(t, q) /\ Indexed(t, q, f)
  BY DEF Grown, Sound, Kept
<1>1. /\ Sound(t1) /\ \A c \in Live(t) : TruePath(t1, c) = TruePath(t, c)
      /\ new = Append(TruePath(t, parent), slug)
  BY GrownIs
<1>2. Live(t1) \subseteq Cat
  BY <1>1 DEF Sound
<1>3. Aside(t, t1, q)
  <2>1. ASSUME NEW i \in DOMAIN q, NEW c \in Descendants(t, q[i].root) \cup Descendants(t1, q[i].root)
        PROVE  c \in Live(t) /\ c \in Live(t1) /\ t1[c] = t[c]
    <3>1. c \in Live(t1)
      BY <1>0, <1>2, DescendantsAre
    <3>2. c # id \/ c \in Descendants(t, q[i].root)
      BY DEF Unmet
    <3>3. c \in Live(t)
      BY <1>0, <3>1, <3>2, DescendantsAre
    <3> QED
      BY <1>0, <3>1, <3>3
  <2> QED
    BY <2>1 DEF Aside
<1>4. ASSUME NEW d \in Live(t) PROVE ~Named(t, q, d, new)
  <2>1. ASSUME NEW i \in DOMAIN q, d \in Descendants(t, q[i].root), new = Was(t, q[i], d)
        PROVE  FALSE
    <3>1. IsPrefix(q[i].prefix, new)
      BY <1>0, <2>1, WasBegins
    <3> QED
      BY <3>1 DEF Unmet
  <2>2. ASSUME new = TruePath(t, d) PROVE FALSE
    <3>1. \A c, e \in Live(t) : TruePath(t, c) = TruePath(t, e) => c = e
      BY <1>0 DEF Apart, Named
    <3>2. t[d].parent = parent /\ t[d].slug = slug
      <4>1. TruePath(t, d) = Append(TruePath(t, parent), slug)
        BY <1>1, <2>2
      <4>2. parent \in Live(t) \cup {Root} /\ slug \in Slug
        BY <1>0
      <4> QED
        BY <3>1, <4>1, <4>2, SamePathSameParent
    <3>3. PICK p \in DOMAIN f : f[p] = d /\ Named(t, q, d, p)
      BY <1>0 DEF Indexed
    <3>4. p # TruePath(t, d)
      BY <2>2, <3>3
    <3>5. PICK i \in DOMAIN q : d \in Descendants(t, q[i].root)
      BY <3>3, <3>4 DEF Named
    <3>6. q[i].root \in Live(t)
      BY <1>0 DEF Vacated
    <3>7. parent = q[i].root \/ parent \in Descendants(t, q[i].root)
      BY <3>2, <3>5, <3>6, DescendantIs
    <3>8. parent = q[i].root \/ parent \in Descendants(t1, q[i].root)
      BY <1>0, <1>2, <1>3, <3>7, AsideNames
    <3>9. id # q[i].root /\ id \in Live(t1) /\ t1[id].parent = parent
      BY <1>0, <3>6
    <3>10. id \in Descendants(t1, q[i].root)
      BY <1>2, <3>8, <3>9, DescendantStep
    <3> QED
      BY <3>10 DEF Unmet
  <2> QED
    BY <2>1, <2>2 DEF Named
<1>5. ASSUME NEW i \in DOMAIN q
      PROVE  /\ q[i].root \in Live(t1) /\ Descendants(t, q[i].root) \cap {id} = {}
             /\ ~IsPrefix(q[i].prefix, new)
  BY <1>0 DEF Vacated, Unmet
<1> QED
  BY <1>0, <1>1, <1>3, <1>4, <1>5 DEF Beside

LEMMA PrunedBeside ==
    ASSUME NEW t, Sound(t), NEW t1, NEW id, Pruned(t, t1, id), NEW q, Vacated(t, q),
           \A i \in DOMAIN q : id \notin Descendants(t, q[i].root)
    PROVE  Beside(t, t1, q, {id}, {})
<1>0. /\ id \in Live(t) /\ Live(t1) = Live(t) \ {id} /\ \A c \in Live(t1) : t1[c] = t[c]
      /\ Live(t) \subseteq Cat
  BY DEF Pruned, Sound
<1>1. /\ Sound(t1) /\ Descendants(t, id) = {}
      /\ \A c \in Live(t1) : TruePath(t1, c) = TruePath(t, c)
  BY PrunedIs
<1>2. Live(t1) \subseteq Cat
  BY <1>0
<1>3. ASSUME NEW i \in DOMAIN q PROVE q[i].root \in Live(t1)
  BY <1>0, <1>1 DEF Vacated
<1>4. Aside(t, t1, q)
  <2>1. ASSUME NEW i \in DOMAIN q, NEW c \in Descendants(t, q[i].root) \cup Descendants(t1, q[i].root)
        PROVE  c \in Live(t) /\ c \in Live(t1) /\ t1[c] = t[c]
    <3>1. c \in Live(t)
      BY <1>0, <1>2, DescendantsAre
    <3>2. c # id
      BY <1>0, <1>2, DescendantsAre
    <3> QED
      BY <1>0, <3>1, <3>2
  <2> QED
    BY <2>1 DEF Aside
<1> QED
  BY <1>0, <1>1, <1>3, <1>4 DEF Beside

(* An exact index is one where every category is under its own path.       *)
LEMMA ExactIsIndexed ==
    ASSUME NEW t, NEW f, Exact(t, f), NEW q
    PROVE  Indexed(t, q, f)
<1>1. /\ f = [p \in DOMAIN f |-> f[p]]
      /\ \A p \in DOMAIN f : \E c \in Live(t) : p = TruePath(t, c)
      /\ \A c \in Live(t) : TruePath(t, c) \in DOMAIN f /\ f[TruePath(t, c)] = c
  BY DEF Exact, Paths
<1>2. \A p \in DOMAIN f : f[p] \in Live(t) /\ p = TruePath(t, f[p])
  BY <1>1
<1>3. \A p \in DOMAIN f : f[p] \in Live(t) /\ Named(t, q, f[p], p)
  BY <1>2 DEF Named
<1>4. \A c \in Live(t) : \E p \in DOMAIN f : f[p] = c
  BY <1>1
<1>5. \A p, x \in DOMAIN f : f[p] = f[x] => p = x
  BY <1>2
<1> QED
  BY <1>1, <1>3, <1>4, <1>5 DEF Indexed

LEMMA NoTask == <<>> \in Seq(QueuedTask) /\ DOMAIN <<>> = {}
  OBVIOUS

LEMMA ExactIsKept ==
    ASSUME NEW t, NEW f, Exact(t, f)
    PROVE  Kept(t, <<>>, f)
<1>1. Indexed(t, <<>>, f)
  BY ExactIsIndexed
<1>2. Apart(t, <<>>)
  BY NoTask DEF Apart, Named, Exact
<1>3. Vacated(t, <<>>)
  BY NoTask DEF Vacated
<1> QED
  BY <1>1, <1>2, <1>3 DEF Kept

LEMMA KeptIsExact ==
    ASSUME NEW t, NEW f, Kept(t, <<>>, f)
    PROVE  Exact(t, f)
<1>1. /\ f = [p \in DOMAIN f |-> f[p]]
      /\ \A p \in DOMAIN f : f[p] \in Live(t) /\ p = TruePath(t, f[p])
      /\ \A c \in Live(t) : \E p \in DOMAIN f : f[p] = c
  BY NoTask DEF Kept, Indexed, Named
<1>2. \A c \in Live(t) : TruePath(t, c) \in DOMAIN f /\ f[TruePath(t, c)] = c
  BY <1>1
<1>3. DOMAIN f = Paths(t)
  BY <1>1, <1>2 DEF Paths
<1> QED
  BY <1>1, <1>2, <1>3 DEF Exact

(* A swap of the first task: a category below the root, from its old path, *)
(* which is indexed, to its canonical one.                                 *)
IsRepair(t, task, f, s) ==
    /\ s.id \in Descendants(t, task.root)
    /\ s.old = Was(t, task, s.id) /\ s.old \in DOMAIN f
    /\ s.new = TruePath(t, s.id)

AreRepairs(t, task, f, swaps) ==
    /\ DOMAIN swaps = 1 .. Len(swaps) /\ Len(swaps) \in Nat
    /\ \A i \in 1 .. Len(swaps) : IsRepair(t, task, f, swaps[i])

(* What is left of the old paths of the first task.                        *)
StillWas(t, task, f) == {c \in Descendants(t, task.root) : Was(t, task, c) \in DOMAIN f}

Repaired(swaps) == {swaps[i].id : i \in 1 .. Len(swaps)}

LEMMA FirstTask ==
    ASSUME NEW t, NEW q, Vacated(t, q), q # <<>>
    PROVE  /\ 1 \in DOMAIN q /\ Head(q) = q[1]
           /\ Tail(q) \in Seq(QueuedTask) /\ DOMAIN Tail(q) = 1 .. Len(q) - 1
           /\ \A i \in DOMAIN Tail(q) : i + 1 \in DOMAIN q /\ Tail(q)[i] = q[i + 1]
           /\ \A i \in DOMAIN q : i # 1 => i - 1 \in DOMAIN Tail(q)
           /\ Len(q) \in Nat \ {0}
<1>1. q \in Seq(QueuedTask)
  BY DEF Vacated
<1>2. Len(q) \in Nat \ {0} /\ DOMAIN q = 1 .. Len(q)
  BY <1>1, EmptySeq, LenProperties
<1>3. /\ Tail(q) \in Seq(QueuedTask) /\ Len(Tail(q)) = Len(q) - 1
      /\ \A i \in 1 .. Len(Tail(q)) : Tail(q)[i] = q[i + 1]
  BY <1>1, HeadTailProperties
<1>4. DOMAIN Tail(q) = 1 .. Len(q) - 1
  BY <1>3, LenProperties
<1>5. Head(q) = q[1]
  BY <1>1
<1> QED
  BY <1>2, <1>3, <1>4, <1>5

(* An old path of a task is not a canonical path.                          *)
LEMMA WasIsGone ==
    ASSUME NEW t, Sound(t), NEW q, Vacated(t, q), NEW i \in DOMAIN q,
           NEW c \in Descendants(t, q[i].root), NEW d \in Live(t)
    PROVE  Was(t, q[i], c) # TruePath(t, d)
BY WasBegins DEF Vacated

(* A chunk leaves every category under one name, those swapped under the   *)
(* canonical one.                                                          *)
LEMMA ChunkKeeps ==
    ASSUME NEW t, Sound(t), NEW q, q # <<>>, NEW f, Kept(t, q, f),
           NEW swaps, AreRepairs(t, q[1], f, swaps), NEW g, g = Swapped(f, swaps)
    PROVE  Kept(t, q, g) /\ StillWas(t, q[1], g) \subseteq StillWas(t, q[1], f) \ Repaired(swaps)
<1>0. Indexed(t, q, f) /\ Apart(t, q) /\ Vacated(t, q) /\ Live(t) \subseteq Cat
  BY DEF Kept, Sound
<1>1. 1 \in DOMAIN q
  BY <1>0, FirstTask
<1> DEFINE n == Len(swaps)
           D == Descendants(t, q[1].root)
<1>2. /\ n \in Nat /\ DOMAIN swaps = 1..n
      /\ \A i \in 1..n : /\ swaps[i].id \in D /\ swaps[i].new = TruePath(t, swaps[i].id)
                         /\ swaps[i].old = Was(t, q[1], swaps[i].id) /\ swaps[i].old \in DOMAIN f
  BY DEF AreRepairs, IsRepair
<1>3. D \subseteq Live(t)
  BY <1>0, DescendantsAre
<1>4. \A c \in D : \A d \in Live(t) : Was(t, q[1], c) # TruePath(t, d)
  BY <1>0, <1>1, WasIsGone
<1>5. \A c \in D : Named(t, q, c, Was(t, q[1], c))
  BY <1>1 DEF Named
<1>6. \A c \in Live(t) : Named(t, q, c, TruePath(t, c))
  BY DEF Named
<1> HIDE DEF n, D
<1>7. Olds(swaps, n) \cap News(swaps, n) = {}
  BY <1>2, <1>3, <1>4 DEF Olds, News
<1>8. \A i, j \in 1..n : swaps[i].new = swaps[j].new => swaps[i].id = swaps[j].id
  <2> TAKE i, j \in 1..n
  <2> HAVE swaps[i].new = swaps[j].new
  <2>1. PICK c \in Live(t), d \in Live(t) :
            c = swaps[i].id /\ d = swaps[j].id /\ TruePath(t, c) = TruePath(t, d)
    BY <1>2, <1>3
  <2>2. Named(t, q, c, TruePath(t, c)) /\ Named(t, q, d, TruePath(t, c))
    BY <1>6, <2>1
  <2> QED
    BY <1>0, <2>1, <2>2 DEF Apart
<1>9. IsSwapped(g, f, swaps, n)
  <2>1. f = [p \in DOMAIN f |-> f[p]]
    BY <1>0 DEF Indexed
  <2>2. IsSwapped(Swapped(f, swaps), f, swaps, n)
    BY <1>2, <1>7, <1>8, <2>1, SwappedIs
  <2> QED
    BY <2>2
<1>10. /\ g = [p \in DOMAIN g |-> g[p]]
       /\ DOMAIN g = (DOMAIN f \ Olds(swaps, n)) \cup News(swaps, n)
       /\ \A i \in 1..n : g[swaps[i].new] = swaps[i].id
       /\ \A p \in DOMAIN f \ (Olds(swaps, n) \cup News(swaps, n)) : g[p] = f[p]
  BY <1>9 DEF IsSwapped
<1>11. \A i \in 1..n : f[swaps[i].old] = swaps[i].id
  <2> TAKE i \in 1..n
  <2>1. PICK c, p : c = swaps[i].id /\ p = swaps[i].old
    OBVIOUS
  <2>2. c \in Live(t) /\ p \in DOMAIN f /\ Named(t, q, c, p)
    BY <1>2, <1>3, <1>5, <2>1
  <2>3. f[p] \in Live(t) /\ Named(t, q, f[p], p)
    BY <1>0, <2>2 DEF Indexed
  <2>4. f[p] = c
    BY <1>0, <2>2, <2>3 DEF Apart
  <2> QED
    BY <2>1, <2>4
<1>12. \A p \in DOMAIN g : \/ \E i \in 1..n : p = swaps[i].new /\ g[p] = swaps[i].id
                           \/ p \in DOMAIN f \ (Olds(swaps, n) \cup News(swaps, n)) /\ g[p] = f[p]
  <2> TAKE p \in DOMAIN g
  <2>1. CASE p \in News(swaps, n)
    BY <1>10, <2>1 DEF News
  <2>2. CASE p \notin News(swaps, n)
    BY <1>10, <2>2
  <2> QED
    BY <2>1, <2>2
<1>13. ASSUME NEW p \in DOMAIN g PROVE g[p] \in Live(t) /\ Named(t, q, g[p], p)
  <2>1. CASE p \in DOMAIN f /\ g[p] = f[p]
    BY <1>0, <2>1 DEF Indexed
  <2>2. ASSUME NEW i \in 1..n, p = swaps[i].new, g[p] = swaps[i].id
        PROVE  g[p] \in Live(t) /\ Named(t, q, g[p], p)
    <3>1. PICK c \in Live(t) : c = swaps[i].id /\ p = TruePath(t, c)
      BY <1>2, <1>3, <2>2
    <3> QED
      BY <1>6, <2>2, <3>1
  <2> QED
    BY <1>12, <2>1, <2>2
<1>14. ASSUME NEW c \in Live(t) PROVE \E p \in DOMAIN g : g[p] = c
  <2>1. PICK p \in DOMAIN f : f[p] = c
    BY <1>0 DEF Indexed
  <2>2. Named(t, q, c, p)
    BY <1>0, <2>1 DEF Indexed
  <2>3. ASSUME NEW i \in 1..n, p = swaps[i].old PROVE \E x \in DOMAIN g : g[x] = c
    <3>1. swaps[i].id = c /\ swaps[i].new \in DOMAIN g /\ g[swaps[i].new] = swaps[i].id
      BY <1>10, <1>11, <2>1, <2>3 DEF News
    <3> QED
      BY <3>1
  <2>4. ASSUME NEW i \in 1..n, p = swaps[i].new PROVE \E x \in DOMAIN g : g[x] = c
    <3>1. PICK d \in Live(t) : d = swaps[i].id /\ p = TruePath(t, d)
      BY <1>2, <1>3, <2>4
    <3>2. Named(t, q, d, p)
      BY <1>6, <3>1
    <3>3. d = c
      BY <1>0, <2>2, <3>2 DEF Apart
    <3>4. p \in DOMAIN g /\ g[p] = d
      BY <1>10, <2>4, <3>1 DEF News
    <3> QED
      BY <3>3, <3>4
  <2>5. CASE p \notin Olds(swaps, n) /\ p \notin News(swaps, n)
    BY <1>10, <2>1, <2>5
  <2> QED
    BY <2>3, <2>4, <2>5 DEF Olds, News
<1>15. ASSUME NEW p \in DOMAIN g, NEW x \in DOMAIN g, g[p] = g[x] PROVE p = x
  <2>1. ASSUME NEW y \in DOMAIN f \ (Olds(swaps, n) \cup News(swaps, n)), NEW i \in 1..n,
               f[y] = swaps[i].id
        PROVE  FALSE
    <3>1. f[swaps[i].old] = f[y] /\ swaps[i].old \in DOMAIN f
      BY <1>2, <1>11, <2>1
    <3>2. y = swaps[i].old
      BY <1>0, <3>1 DEF Indexed
    <3> QED
      BY <2>1, <3>2 DEF Olds
  <2>2. ASSUME NEW i \in 1..n, NEW j \in 1..n, swaps[i].id = swaps[j].id
        PROVE  swaps[i].new = swaps[j].new
    BY <1>2, <2>2
  <2>3. CASE \E i \in 1..n : p = swaps[i].new /\ g[p] = swaps[i].id
    <3>1. PICK i \in 1..n : p = swaps[i].new /\ g[p] = swaps[i].id
      BY <2>3
    <3> QED
      BY <1>12, <1>15, <2>1, <2>2, <3>1
  <2>4. CASE p \in DOMAIN f \ (Olds(swaps, n) \cup News(swaps, n)) /\ g[p] = f[p]
    <3>1. CASE \E i \in 1..n : x = swaps[i].new /\ g[x] = swaps[i].id
      BY <1>15, <2>1, <2>4, <3>1
    <3>2. CASE x \in DOMAIN f \ (Olds(swaps, n) \cup News(swaps, n)) /\ g[x] = f[x]
      BY <1>0, <1>15, <2>4, <3>2 DEF Indexed
    <3> QED
      BY <1>12, <3>1, <3>2
  <2> QED
    BY <1>12, <2>3, <2>4
<1>16. Indexed(t, q, g)
  BY <1>10, <1>13, <1>14, <1>15 DEF Indexed
<1>17. ASSUME NEW c \in StillWas(t, q[1], g)
       PROVE  c \in StillWas(t, q[1], f) /\ c \notin Repaired(swaps)
  <2>1. c \in D /\ Was(t, q[1], c) \in DOMAIN g
    BY DEF StillWas, D
  <2>2. Was(t, q[1], c) \notin News(swaps, n)
    BY <1>2, <1>3, <1>4, <2>1 DEF News
  <2>3. Was(t, q[1], c) \in DOMAIN f /\ Was(t, q[1], c) \notin Olds(swaps, n)
    BY <1>10, <2>1, <2>2
  <2>4. \A i \in 1..n : swaps[i].id # c
    BY <1>2, <2>3 DEF Olds
  <2> QED
    BY <2>1, <2>3, <2>4 DEF StillWas, Repaired, D, n
<1> QED
  BY <1>0, <1>16, <1>17 DEF Kept

(* The first task leaves the queue once none of its old paths is indexed.  *)
LEMMA CompleteKeeps ==
    ASSUME NEW t, NEW q, q # <<>>, NEW f, Kept(t, q, f), StillWas(t, q[1], f) = {}
    PROVE  Kept(t, Tail(q), f)
<1>0. Indexed(t, q, f) /\ Apart(t, q) /\ Vacated(t, q)
  BY DEF Kept
<1>1. PICK q1 : q1 = Tail(q)
  OBVIOUS
<1>2. /\ q1 \in Seq(QueuedTask)
      /\ \A i \in DOMAIN q1 : i + 1 \in DOMAIN q /\ q1[i] = q[i + 1]
      /\ \A i \in DOMAIN q : i # 1 => i - 1 \in DOMAIN q1 /\ q1[i - 1] = q[i]
  <2>1. /\ q1 \in Seq(QueuedTask) /\ DOMAIN q1 = 1 .. Len(q) - 1 /\ Len(q) \in Nat
        /\ \A i \in DOMAIN q1 : i + 1 \in DOMAIN q /\ q1[i] = q[i + 1]
        /\ \A i \in DOMAIN q : i # 1 => i - 1 \in DOMAIN q1
    BY <1>0, <1>1, FirstTask
  <2>2. \A i \in DOMAIN q : i # 1 => q1[i - 1] = q[i]
    <3> TAKE i \in DOMAIN q
    <3> HAVE i # 1
    <3>1. i - 1 \in DOMAIN q1 /\ i - 1 \in 1 .. Len(q) - 1
      BY <2>1
    <3>2. q \in Seq(QueuedTask)
      BY <1>0 DEF Vacated
    <3>3. i \in 1 .. Len(q)
      BY <3>2, LenProperties
    <3>4. (i - 1) + 1 = i
      BY <3>3
    <3> QED
      BY <2>1, <3>1, <3>4
  <2> QED
    BY <2>1, <2>2
<1>3. \A c, p : Named(t, q1, c, p) => Named(t, q, c, p)
  BY <1>2 DEF Named
<1>4. \A p \in DOMAIN f : Named(t, q, f[p], p) => Named(t, q1, f[p], p)
  <2> TAKE p \in DOMAIN f
  <2> HAVE Named(t, q, f[p], p)
  <2>1. ASSUME NEW i \in DOMAIN q, f[p] \in Descendants(t, q[i].root), p = Was(t, q[i], f[p])
        PROVE  Named(t, q1, f[p], p)
    <3>1. i # 1
      BY <2>1 DEF StillWas
    <3>2. i - 1 \in DOMAIN q1 /\ q1[i - 1] = q[i]
      BY <1>2, <3>1
    <3> QED
      BY <2>1, <3>2 DEF Named
  <2> QED
    BY <2>1 DEF Named
<1>5. Indexed(t, q1, f)
  BY <1>0, <1>4 DEF Indexed
<1>6. Apart(t, q1)
  BY <1>0, <1>3 DEF Apart
<1>7. Vacated(t, q1)
  BY <1>0, <1>2 DEF Vacated
<1> QED
  BY <1>1, <1>5, <1>6, <1>7 DEF Kept

-----------------------------------------------------------------------------
(* A chunk of the walk.  What a frame has left are the children from its   *)
(* offset on and what is below them.                                       *)

Left(t, frame) ==
    {c \in Live(t) : \E j \in frame.offset + 1 .. Len(Children(t, frame.id)) :
        \/ c = Children(t, frame.id)[j]
        \/ c \in Descendants(t, Children(t, frame.id)[j])}

Ahead(t, stack) == UNION {Left(t, stack[k]) : k \in 1 .. Len(stack)}

Walked(t, task) == Descendants(t, task.root) \cup {task.root}

FrameOf(t, task) == [id : Walked(t, task), offset : Nat]

(* A child in the list of children.                                        *)
LEMMA ChildAt ==
    ASSUME NEW t, Sound(t), NEW p
    PROVE  /\ Len(Children(t, p)) \in Nat /\ Children(t, p) \in Seq(Live(t))
           /\ \A c \in Live(t) : t[c].parent = p =>
                 \E j \in 1 .. Len(Children(t, p)) : Children(t, p)[j] = c
           /\ \A j \in 1 .. Len(Children(t, p)) :
                 Children(t, p)[j] \in Live(t) /\ t[Children(t, p)[j]].parent = p
<1>1. Live(t) \subseteq Cat
  BY DEF Sound
<1>2. PICK kids, S : kids = Children(t, p) /\ S = ChildSet(t, p)
  OBVIOUS
<1>3. kids \in Seq(S) /\ ToSet(kids) = S
  BY <1>1, <1>2, ChildrenAre DEF ListsAll
<1>4. ToSet(kids) = {kids[i] : i \in 1 .. Len(kids)}
  BY <1>3, SetOfSeq
<1>5. S \subseteq Live(t) /\ \A c \in S : t[c].parent = p
  BY <1>2 DEF ChildSet
<1>6. \A c \in Live(t) : t[c].parent = p => c \in S
  BY <1>2 DEF ChildSet
<1>7. \A j \in 1 .. Len(kids) : kids[j] \in S
  BY <1>3
<1>8. \A c \in S : \E j \in 1 .. Len(kids) : kids[j] = c
  BY <1>3, <1>4
<1>9. Len(kids) \in Nat /\ kids \in Seq(Live(t))
  BY <1>3, <1>5, LenProperties
<1> QED
  BY <1>2, <1>5, <1>6, <1>7, <1>8, <1>9

(* What lies below a descendant is a descendant.                           *)
LEMMA DescendantsNest ==
    ASSUME NEW t, Sound(t), NEW root \in Live(t), NEW id \in Descendants(t, root) \cup {root}
    PROVE  Descendants(t, id) \subseteq Descendants(t, root)
<1>1. Live(t) \subseteq Cat
  BY DEF Sound
<1>2. ASSUME NEW c \in Live(t) \ {id}, t[c].parent = id \/ t[c].parent \in Descendants(t, root)
      PROVE  c \in Descendants(t, root)
  BY <1>2, DescendantIs
<1> QED
  BY <1>1, <1>2, DescendantInduction

(* All below a category is a child of it or below one.                     *)
LEMMA FrameHasAll ==
    ASSUME NEW t, Sound(t), NEW id \in Live(t)
    PROVE  Descendants(t, id) \subseteq Left(t, Frame(id))
<1>0. Live(t) \subseteq Cat
  BY DEF Sound
<1> DEFINE S == {c \in Live(t) : \E k \in Live(t) : t[k].parent = id /\ (c = k \/ c \in Descendants(t, k))}
<1>1. ASSUME NEW c \in Live(t) \ {id}, t[c].parent = id \/ t[c].parent \in S PROVE c \in S
  <2>1. CASE t[c].parent = id
    BY <2>1
  <2>2. CASE t[c].parent \in S
    <3>1. PICK k \in Live(t) : t[k].parent = id /\ (t[c].parent = k \/ t[c].parent \in Descendants(t, k))
      BY <2>2
    <3>2. c \in Descendants(t, k)
      BY <3>1, DescendantIs
    <3> QED
      BY <3>1, <3>2
  <2> QED
    BY <1>1, <2>1, <2>2
<1> HIDE DEF S
<1>2. Descendants(t, id) \subseteq S
  BY <1>0, <1>1, DescendantInduction
<1>3. S \subseteq Left(t, Frame(id))
  <2> SUFFICES ASSUME NEW c \in S PROVE c \in Left(t, Frame(id))
    OBVIOUS
  <2>1. PICK k \in Live(t) : t[k].parent = id /\ (c = k \/ c \in Descendants(t, k))
    BY DEF S
  <2>2. PICK j \in 1 .. Len(Children(t, id)) : Children(t, id)[j] = k
    BY <2>1, ChildAt
  <2>3. Frame(id).offset = 0 /\ Frame(id).id = id
    BY DEF Frame
  <2>4. c \in Live(t)
    BY DEF S
  <2> QED
    BY <2>1, <2>2, <2>3, <2>4 DEF Left
<1> QED
  BY <1>2, <1>3

LEMMA LeftShrinks ==
    ASSUME NEW t, Sound(t), NEW id \in Live(t), NEW o \in Nat
    PROVE  /\ o >= Len(Children(t, id)) => Left(t, [id |-> id, offset |-> o]) = {}
           /\ \A c \in Left(t, [id |-> id, offset |-> o]) :
                 \/ c \in Left(t, [id |-> id, offset |-> o + 1])
                 \/ c = Children(t, id)[o + 1]
                 \/ c \in Descendants(t, Children(t, id)[o + 1])
<1>1. PICK n \in Nat : n = Len(Children(t, id))
  BY ChildAt
<1>2. o >= n => o + 1 .. n = {}
  OBVIOUS
<1>3. \A j \in o + 1 .. n : j = o + 1 \/ j \in (o + 1) + 1 .. n
  OBVIOUS
<1> QED
  BY <1>1, <1>2, <1>3 DEF Left

(* What a scan may swap: a category still under an old path of the task.   *)
Repairs(t, task, f) ==
    {[id |-> c, old |-> Was(t, task, c), new |-> TruePath(t, c)] : c \in StillWas(t, task, f)}

LEMMA RepairsAre ==
    ASSUME NEW t, NEW task, NEW f, NEW swaps \in Seq(Repairs(t, task, f))
    PROVE  AreRepairs(t, task, f, swaps)
<1>1. \A i \in 1 .. Len(swaps) : swaps[i] \in Repairs(t, task, f)
  OBVIOUS
<1>2. DOMAIN swaps = 1 .. Len(swaps) /\ Len(swaps) \in Nat
  BY LenProperties
<1>3. \A s \in Repairs(t, task, f) : IsRepair(t, task, f, s)
  BY DEF Repairs, IsRepair, StillWas
<1> QED
  BY <1>1, <1>2, <1>3 DEF AreRepairs

LEMMA RepairedBoth ==
    ASSUME NEW S, NEW a \in Seq(S), NEW b \in Seq(S)
    PROVE  Repaired(a) \cup Repaired(b) \subseteq Repaired(a \o b)
<1>1. PICK m, n, s : m \in Nat /\ n \in Nat /\ m = Len(a) /\ n = Len(b) /\ s = a \o b
  BY LenProperties
<1>2. /\ Len(s) = m + n
      /\ \A i \in 1..m : s[i] = a[i]
      /\ \A i \in 1..n : s[m + i] = b[i]
  BY <1>1, ConcatProperties
<1>3. \A i \in 1..n : m + i \in 1 .. m + n
  BY <1>1
<1>4. \A i \in 1..m : i \in 1 .. m + n
  BY <1>1
<1>5. Repaired(a) = {a[i].id : i \in 1..m} /\ Repaired(b) = {b[i].id : i \in 1..n}
      /\ Repaired(s) = {s[i].id : i \in 1 .. m + n}
  BY <1>1, <1>2 DEF Repaired
<1>6. \A i \in 1..m : a[i].id \in Repaired(s)
  BY <1>2, <1>4, <1>5
<1>7. \A i \in 1..n : b[i].id \in Repaired(s)
  BY <1>2, <1>3, <1>5
<1>8. Repaired(a) \subseteq Repaired(s) /\ Repaired(b) \subseteq Repaired(s)
  BY <1>5, <1>6, <1>7
<1> QED
  BY <1>1, <1>8

(* The plan for a category below the root of the task: from its old path,  *)
(* if that is still indexed, to the canonical one.                         *)
LEMMA PlanIs ==
    ASSUME Sound(tree), Shallow(tree), queue # <<>>, Vacated(tree, queue),
           NEW id \in Descendants(tree, Task.root)
    PROVE  /\ PlanFails(id) = FALSE
           /\ PlanSwap(id) \in Seq(Repairs(tree, Task, pathIndex))
           /\ id \in StillWas(tree, Task, pathIndex) => id \in Repaired(PlanSwap(id))
<1>0. Live(tree) \subseteq Cat
  BY DEF Sound
<1>1. 1 \in DOMAIN queue /\ Task = queue[1]
  BY FirstTask DEF Task
<1>2. Task.root \in Live(tree)
  BY <1>1, TaskTypes
<1>3. id \in Live(tree) /\ id # Task.root /\ Reach(tree, id, Task.root)
  BY DEF Descendants, Reach
<1>4. /\ Climb(tree, id, Task.root, DepthMax).at = Task.root
      /\ Climb(tree, id, Task.root, DepthMax).path = Below(tree, id, Task.root)
  BY <1>3, ShallowClimb
<1>5. HasPath(tree, id) /\ ~TooDeep(tree, id) /\ BuildSlugPath(tree, id) = TruePath(tree, id)
  BY <1>3, BuildIs
<1>6. OldPath(tree, Task.prefix, Task.root, id) = Was(tree, Task, id) /\ IsBelow(tree, Task.root, id)
  BY <1>3, <1>4 DEF OldPath, Was, IsBelow
<1>7. Was(tree, Task, id) # TruePath(tree, id)
  BY <1>1, <1>3, WasIsGone
<1>8. PlanFails(id) = FALSE
  BY <1>5 DEF PlanFails
<1>9. PICK s : s = [id |-> id, old |-> Was(tree, Task, id), new |-> TruePath(tree, id)]
  OBVIOUS
<1>10. PlanSwap(id) = IF Was(tree, Task, id) \in DOMAIN pathIndex THEN <<s>> ELSE <<>>
  BY <1>5, <1>6, <1>7, <1>9 DEF PlanSwap
<1>11. CASE Was(tree, Task, id) \in DOMAIN pathIndex
  <2>1. s \in Repairs(tree, Task, pathIndex)
    BY <1>9, <1>11 DEF Repairs, StillWas
  <2>2. <<s>> \in Seq(Repairs(tree, Task, pathIndex)) /\ Len(<<s>>) = 1 /\ <<s>>[1] = s
    BY <2>1
  <2>3. id \in Repaired(<<s>>)
    BY <1>9, <2>2 DEF Repaired
  <2> QED
    BY <1>8, <1>10, <1>11, <2>2, <2>3
<1>12. CASE Was(tree, Task, id) \notin DOMAIN pathIndex
  BY <1>8, <1>10, <1>12 DEF StillWas
<1> QED
  BY <1>11, <1>12

ScanType ==
    [stack : Seq(FrameOf(tree, Task)), swaps : Seq(Repairs(tree, Task, pathIndex)),
     failed : {FALSE}]

(* Every category that has an old path is swapped or yet to be reached.    *)
Scanning(scan) ==
    /\ scan \in ScanType
    /\ StillWas(tree, Task, pathIndex) \subseteq Repaired(scan.swaps) \cup Ahead(tree, scan.stack)

(* The setting of a chunk.                                                 *)
AtTask == Sound(tree) /\ Shallow(tree) /\ queue # <<>> /\ Vacated(tree, queue)

LEMMA TaskRoot ==
    ASSUME AtTask
    PROVE  Task.root \in Live(tree) /\ Walked(tree, Task) \subseteq Live(tree)
<1>1. 1 \in DOMAIN queue /\ Task = queue[1]
  BY FirstTask DEF Task, AtTask
<1>2. Task.root \in Live(tree)
  BY <1>1, TaskTypes DEF AtTask
<1> QED
  BY <1>2 DEF Walked, Descendants

LEMMA PageIs ==
    ASSUME AtTask, NEW frame \in FrameOf(tree, Task), NEW page, page = Page(frame)
    PROVE  /\ frame.id \in Live(tree) /\ frame.offset \in Nat
           /\ Len(page) \in Nat
           /\ Len(page) > 0 => frame.offset + Len(page) = Len(Children(tree, frame.id))
           /\ page = <<>> => frame.offset >= Len(Children(tree, frame.id))
           /\ \A n \in 1 .. Len(page) :
                 /\ page[n] = Children(tree, frame.id)[frame.offset + n]
                 /\ page[n] \in Descendants(tree, Task.root)
<1>0. Sound(tree) /\ Task.root \in Live(tree) /\ Walked(tree, Task) \subseteq Live(tree)
  BY TaskRoot DEF AtTask
<1>1. frame.id \in Walked(tree, Task) /\ frame.offset \in Nat
  BY DEF FrameOf
<1>2. PICK kids, o : kids = Children(tree, frame.id) /\ o = frame.offset
  OBVIOUS
<1>3. /\ kids \in Seq(Live(tree)) /\ Len(kids) \in Nat /\ o \in Nat
      /\ \A j \in 1 .. Len(kids) : kids[j] \in Live(tree) /\ tree[kids[j]].parent = frame.id
  BY <1>0, <1>1, <1>2, ChildAt
<1>4. page = SubSeq(kids, o + 1, Len(kids))
  BY <1>2 DEF Page
<1>5. /\ Len(page) = IF o + 1 <= Len(kids) THEN Len(kids) - o ELSE 0
      /\ \A n \in 1 .. Len(page) : page[n] = kids[o + n]
  BY <1>3, <1>4
<1>6. Len(page) \in Nat
  BY <1>3, <1>5
<1>7. page = <<>> => o >= Len(kids)
  <2>1. page = <<>> => Len(page) = 0
    OBVIOUS
  <2> QED
    BY <1>3, <1>5, <2>1
<1>8. ASSUME NEW n \in 1 .. Len(page) PROVE page[n] \in Descendants(tree, Task.root)
  <2>1. o + n \in 1 .. Len(kids)
    BY <1>3, <1>5
  <2>2. page[n] \in Live(tree) /\ tree[page[n]].parent = frame.id
    BY <1>3, <1>5, <2>1
  <2> QED
    BY <1>0, <1>1, <2>2, DescendantIs DEF Walked
<1> QED
  BY <1>0, <1>1, <1>2, <1>3, <1>5, <1>6, <1>7, <1>8

(* The visits of a page, one child after the other.                        *)
IsVisit(visit, scan, page, m) ==
    visit = [n \in 0..m |-> IF n = 0 THEN scan ELSE Visit(visit[n - 1], page[n])]

LEMMA VisitExists ==
    ASSUME NEW scan, NEW page, NEW limit \in Nat
    PROVE  \E visit : IsVisit(visit, scan, page, limit)
<1> DEFINE S == {m \in Nat : \E visit : IsVisit(visit, scan, page, m)}
<1>1. 0 \in S
  <2> DEFINE first == [n \in 0..0 |-> scan]
  <2>1. first = [n \in 0..0 |-> IF n = 0 THEN scan ELSE Visit(first[n - 1], page[n])]
    OBVIOUS
  <2>2. IsVisit(first, scan, page, 0)
    BY <2>1 DEF IsVisit
  <2> HIDE DEF first
  <2> QED
    BY <2>2
<1>2. ASSUME NEW m \in Nat, m \in S PROVE m + 1 \in S
  <2>1. PICK visit : IsVisit(visit, scan, page, m)
    BY <1>2
  <2> DEFINE longer == [n \in 0..m + 1 |-> IF n <= m THEN visit[n] ELSE Visit(visit[m], page[n])]
  <2>2. visit[0] = scan /\ \A n \in 1..m : visit[n] = Visit(visit[n - 1], page[n])
    BY <2>1 DEF IsVisit
  <2>3. longer[0] = scan
    BY <2>2
  <2>4. ASSUME NEW n \in 1..m + 1 PROVE longer[n] = Visit(longer[n - 1], page[n])
    <3>1. longer[n - 1] = visit[n - 1]
      OBVIOUS
    <3> QED
      BY <2>2, <3>1
  <2>5. longer = [n \in 0..m + 1 |-> longer[n]]
    OBVIOUS
  <2> HIDE DEF longer
  <2>6. \A n \in 0..m + 1 : longer[n] = IF n = 0 THEN scan ELSE Visit(longer[n - 1], page[n])
    <3> TAKE n \in 0..m + 1
    <3>1. n = 0 \/ n \in 1..m + 1
      OBVIOUS
    <3> QED
      BY <2>3, <2>4, <3>1
  <2>7. longer = [n \in 0..m + 1 |-> IF n = 0 THEN scan ELSE Visit(longer[n - 1], page[n])]
    BY <2>5, <2>6, Zenon
  <2> QED
    BY <2>7 DEF IsVisit
<1> HIDE DEF S
<1>3. limit \in S
  BY <1>1, <1>2, AllNumbers
<1> QED
  BY <1>3 DEF S

IsVisitOf(visit, scan, page) ==
    /\ visit[0] = scan
    /\ \A n \in 0 .. Len(page) - 1 : visit[n + 1] = Visit(visit[n], page[n + 1])
    /\ VisitAll(scan, page) = visit[Len(page)]

LEMMA VisitAllIs ==
    ASSUME NEW scan, NEW page, Len(page) \in Nat
    PROVE  \E visit : IsVisitOf(visit, scan, page)
<1>0. PICK m \in Nat : m = Len(page)
  OBVIOUS
<1> DEFINE visit == CHOOSE v : IsVisit(v, scan, page, Len(page))
<1>1. IsVisit(visit, scan, page, Len(page))
  BY VisitExists
<1>2. VisitAll(scan, page) = visit[Len(page)]
  BY DEF VisitAll, IsVisit
<1> HIDE DEF visit
<1>3. visit[0] = scan /\ \A n \in 1..m : visit[n] = Visit(visit[n - 1], page[n])
  BY <1>0, <1>1 DEF IsVisit
<1>4. \A n \in 0 .. m - 1 : visit[n + 1] = Visit(visit[n], page[n + 1])
  <2> TAKE n \in 0 .. m - 1
  <2>1. n + 1 \in 1..m /\ (n + 1) - 1 = n
    OBVIOUS
  <2> QED
    BY <1>3, <2>1
<1> QED
  BY <1>0, <1>2, <1>3, <1>4 DEF IsVisitOf

(* The stack once the frame of the page resumes after the visited.         *)
IsAdvanced(b, a, l) ==
    /\ Len(b) = Len(a)
    /\ b[l] = [id |-> a[l].id, offset |-> a[l].offset + (Len(a) - l)]
    /\ \A k \in 1 .. Len(a) : k # l => b[k] = a[k]

LEMMA AdvancedIs ==
    ASSUME NEW from, NEW v \in ScanType, NEW l, l = Len(from.stack), l \in 1 .. Len(v.stack)
    PROVE  /\ Advanced(from, v) \in ScanType /\ Advanced(from, v).swaps = v.swaps
           /\ IsAdvanced(Advanced(from, v).stack, v.stack, l)
<1>1. PICK F, R : F = FrameOf(tree, Task) /\ R = Repairs(tree, Task, pathIndex)
  OBVIOUS
<1>2. PICK W : W = Walked(tree, Task)
  OBVIOUS
<1>3. v \in [stack : Seq(F), swaps : Seq(R), failed : {FALSE}] /\ F = [id : W, offset : Nat]
  BY <1>1, <1>2 DEF ScanType, FrameOf
<1>4. PICK a, n : a = v.stack /\ n = Len(a)
  OBVIOUS
<1>5. a \in Seq(F) /\ n \in Nat /\ l \in 1..n /\ a[l] \in F
  BY <1>3, <1>4, LenProperties
<1>6. PICK x : x = [id |-> a[l].id, offset |-> a[l].offset + (n - l)]
  OBVIOUS
<1>7. x \in F
  <2>1. PICK o \in Nat : o = a[l].offset /\ a[l].id \in W
    BY <1>3, <1>5
  <2>2. o + (n - l) \in Nat
    BY <1>5, <2>1
  <2> QED
    BY <1>3, <1>6, <2>1, <2>2
<1>8. a[l].offset + n - l = a[l].offset + (n - l)
  <2>1. PICK o \in Nat : o = a[l].offset
    BY <1>3, <1>5
  <2>2. o + n - l = o + (n - l)
    BY <1>5
  <2> QED
    BY <2>1, <2>2
<1>9. PICK b : b = [a EXCEPT ![l] = x]
  OBVIOUS
<1>10. b \in Seq(F) /\ Len(b) = n /\ b[l] = x /\ \A k \in 1..n : k # l => b[k] = a[k]
  <2>1. b = [k \in 1..n |-> IF k = l THEN x ELSE a[k]]
    BY <1>4, <1>5, <1>9
  <2>2. \A k \in 1..n : a[k] \in F
    BY <1>4, <1>5
  <2>3. b \in [1..n -> F]
    BY <1>7, <2>1, <2>2
  <2> QED
    BY <1>5, <2>1, <2>3
<1>11. [a[l] EXCEPT !.offset = a[l].offset + n - l] = x
  <2>1. PICK y \in [id : W, offset : Nat] : y = a[l]
    BY <1>3, <1>5
  <2>2. [y EXCEPT !.offset = y.offset + n - l] = [id |-> y.id, offset |-> y.offset + n - l]
    BY <2>1
  <2> QED
    BY <1>6, <1>8, <2>1, <2>2
<1>12. Advanced(from, v) = [v EXCEPT !.stack = b]
  BY <1>4, <1>9, <1>11 DEF Advanced
<1>13. /\ [v EXCEPT !.stack = b] \in [stack : Seq(F), swaps : Seq(R), failed : {FALSE}]
       /\ [v EXCEPT !.stack = b].stack = b /\ [v EXCEPT !.stack = b].swaps = v.swaps
  BY <1>3, <1>10
<1>14. IsAdvanced(b, a, l)
  BY <1>4, <1>6, <1>10 DEF IsAdvanced
<1> QED
  BY <1>1, <1>4, <1>12, <1>13, <1>14 DEF ScanType

(* After n children of the page: unless the chunk is full all of them are  *)
(* on the stack, and resuming after those that are misses nothing.         *)
Visiting(from, v, n) ==
    /\ v \in ScanType
    /\ Len(from.stack) <= Len(v.stack)
    /\ \A k \in 1 .. Len(from.stack) : v.stack[k] = from.stack[k]
    /\ ~Full(v) => Len(v.stack) = Len(from.stack) + n
    /\ Scanning(Advanced(from, v))

LEMMA VisitKeeps ==
    ASSUME AtTask, NEW from, Scanning(from), from.stack # <<>>,
           NEW frame, frame = Last(from.stack), NEW page, page = Page(frame),
           NEW n \in 0 .. Len(page) - 1, NEW v, Visiting(from, v, n)
    PROVE  Visiting(from, Visit(v, page[n + 1]), n + 1)
<1>1. PICK F, R : F = FrameOf(tree, Task) /\ R = Repairs(tree, Task, pathIndex)
  OBVIOUS
<1>2. /\ from.stack \in Seq(F) /\ v.stack \in Seq(F) /\ v.swaps \in Seq(R)
      /\ v.failed = FALSE /\ v \in ScanType
  BY <1>1 DEF Scanning, ScanType, Visiting
<1>3. PICK l : l = Len(from.stack)
  OBVIOUS
<1>4. l \in Nat \ {0} /\ l \in 1 .. Len(v.stack) /\ Len(v.stack) \in Nat
      /\ v.stack[l] = frame /\ frame \in F
  <2>1. Len(from.stack) \in Nat \ {0} /\ frame = from.stack[l]
    BY <1>2, <1>3, EmptySeq, LenProperties DEF Last
  <2>2. l <= Len(v.stack) /\ \A k \in 1..l : v.stack[k] = from.stack[k]
    BY <1>3 DEF Visiting
  <2>3. Len(v.stack) \in Nat /\ from.stack[l] \in F
    BY <1>2, <1>3, <2>1, LenProperties
  <2> QED
    BY <1>3, <2>1, <2>2, <2>3
<1>5. CASE Full(v)
  <2>1. Visit(v, page[n + 1]) = v
    BY <1>5 DEF Visit
  <2> QED
    BY <1>5, <2>1 DEF Visiting
<1>6. CASE ~Full(v)
  <2>1. PICK kid, o : kid = page[n + 1] /\ o = frame.offset
    OBVIOUS
  <2>2. /\ frame.id \in Live(tree) /\ o \in Nat /\ n \in Nat
        /\ kid = Children(tree, frame.id)[o + n + 1] /\ kid \in Descendants(tree, Task.root)
    <3>1. n + 1 \in 1 .. Len(page) /\ Len(page) \in Nat
      BY <1>1, <1>4, PageIs
    <3>2. /\ frame.id \in Live(tree) /\ frame.offset \in Nat
          /\ page[n + 1] = Children(tree, frame.id)[frame.offset + (n + 1)]
          /\ page[n + 1] \in Descendants(tree, Task.root)
      BY <1>1, <1>4, <3>1, PageIs
    <3>3. frame.offset + (n + 1) = o + n + 1
      BY <2>1, <3>1, <3>2
    <3> QED
      BY <2>1, <3>1, <3>2, <3>3
  <2>3. PlanFails(kid) = FALSE /\ PlanSwap(kid) \in Seq(R)
        /\ (kid \in StillWas(tree, Task, pathIndex) => kid \in Repaired(PlanSwap(kid)))
    BY <1>1, <2>2, PlanIs DEF AtTask
  <2>4. PICK st, sw, w : /\ st = Append(v.stack, Frame(kid)) /\ sw = v.swaps \o PlanSwap(kid)
                         /\ w = [stack |-> st, swaps |-> sw, failed |-> FALSE]
    OBVIOUS
  <2>5. Visit(v, page[n + 1]) = w
    BY <1>6, <2>1, <2>3, <2>4 DEF Visit
  <2>6. Frame(kid) \in F
    BY <1>1, <2>2 DEF Frame, FrameOf, Walked
  <2>7. /\ st \in Seq(F) /\ Len(st) = Len(v.stack) + 1 /\ st[Len(v.stack) + 1] = Frame(kid)
        /\ \A k \in 1 .. Len(v.stack) : st[k] = v.stack[k]
    BY <1>2, <2>4, <2>6, AppendProperties
  <2>8. sw \in Seq(R)
    BY <1>2, <2>3, <2>4, ConcatProperties
  <2>9. Repaired(v.swaps) \cup Repaired(PlanSwap(kid)) \subseteq Repaired(sw)
    BY <1>2, <2>3, <2>4, RepairedBoth
  <2>10. w \in ScanType /\ w.stack = st /\ w.swaps = sw
    BY <1>1, <2>4, <2>7, <2>8 DEF ScanType
  <2>11. Len(v.stack) = l + n
    BY <1>3, <1>6 DEF Visiting
  <2>12. PICK a, b : a = Advanced(from, v).stack /\ b = Advanced(from, w).stack
    OBVIOUS
  <2>13. IsAdvanced(a, v.stack, l) /\ Advanced(from, v).swaps = v.swaps
    BY <1>2, <1>3, <1>4, <2>12, AdvancedIs
  <2>14. IsAdvanced(b, st, l) /\ Advanced(from, w).swaps = sw /\ Advanced(from, w) \in ScanType
    <3>1. l \in 1 .. Len(w.stack)
      BY <1>4, <2>7, <2>10
    <3> QED
      BY <1>3, <2>10, <2>12, <3>1, AdvancedIs
  <2>15. /\ Len(a) = l + n /\ Len(b) = l + n + 1
         /\ a[l] = [id |-> frame.id, offset |-> o + n]
         /\ b[l] = [id |-> frame.id, offset |-> o + n + 1]
         /\ b[l + n + 1] = Frame(kid)
         /\ \A k \in 1 .. l + n : k # l => b[k] = a[k]
    <3>1. st[l] = frame
      BY <1>4, <2>7
    <3>2. (l + n) - l = n /\ (l + n + 1) - l = n + 1 /\ o + (n + 1) = o + n + 1
      BY <1>4, <2>2
    <3>3. Len(st) = l + n + 1 /\ l + n + 1 # l /\ l + n + 1 \in 1 .. l + n + 1
      BY <1>4, <2>2, <2>7, <2>11
    <3>4. Len(a) = l + n /\ a[l] = [id |-> frame.id, offset |-> o + n]
      BY <1>4, <2>1, <2>11, <2>13, <3>2 DEF IsAdvanced
    <3>5. Len(b) = l + n + 1 /\ b[l] = [id |-> frame.id, offset |-> o + n + 1]
      BY <2>1, <2>14, <3>1, <3>2, <3>3 DEF IsAdvanced
    <3>6. b[l + n + 1] = Frame(kid)
      BY <2>7, <2>11, <2>14, <3>3 DEF IsAdvanced
    <3>7. ASSUME NEW k \in 1 .. l + n, k # l PROVE b[k] = a[k]
      <4>1. k \in 1 .. Len(st) /\ k \in 1 .. Len(v.stack)
        BY <1>4, <2>2, <2>11, <3>3
      <4> QED
        BY <2>7, <2>13, <2>14, <3>7, <4>1 DEF IsAdvanced
    <3> QED
      BY <3>4, <3>5, <3>6, <3>7
  <2>16. Ahead(tree, a) \subseteq Ahead(tree, b) \cup {kid}
    <3> SUFFICES ASSUME NEW c \in Ahead(tree, a), c # kid PROVE c \in Ahead(tree, b)
      OBVIOUS
    <3>1. PICK k \in 1 .. l + n : c \in Left(tree, a[k])
      BY <2>15 DEF Ahead
    <3>2. k \in 1 .. Len(b) /\ l \in 1 .. Len(b) /\ l + n + 1 \in 1 .. Len(b)
      BY <1>4, <2>2, <2>15
    <3>3. CASE k # l
      BY <2>15, <3>1, <3>2, <3>3 DEF Ahead
    <3>4. CASE k = l
      <4>1. Sound(tree)
        BY DEF AtTask
      <4>2. PICK m \in Nat : m = o + n
        BY <2>2
      <4>3. /\ a[l] = [id |-> frame.id, offset |-> m] /\ b[l] = [id |-> frame.id, offset |-> m + 1]
            /\ kid = Children(tree, frame.id)[m + 1]
        BY <2>2, <2>15, <4>2
      <4>4. c \in Left(tree, b[l]) \/ c \in Descendants(tree, kid)
        BY <2>2, <3>1, <3>4, <4>1, <4>3, LeftShrinks
      <4>5. kid \in Live(tree)
        BY <2>2 DEF Descendants
      <4>6. c \in Left(tree, b[l]) \/ c \in Left(tree, b[l + n + 1])
        BY <2>15, <4>1, <4>4, <4>5, FrameHasAll
      <4> QED
        BY <3>2, <4>6 DEF Ahead
    <3> QED
      BY <3>3, <3>4
  <2>17. StillWas(tree, Task, pathIndex) \subseteq Repaired(v.swaps) \cup Ahead(tree, a)
    BY <2>12, <2>13 DEF Visiting, Scanning
  <2>18. Scanning(Advanced(from, w))
    BY <2>3, <2>9, <2>12, <2>14, <2>16, <2>17 DEF Scanning
  <2>19. Len(from.stack) <= Len(st) /\ Len(st) = Len(from.stack) + (n + 1)
    <3>1. PICK d \in Nat : d = Len(v.stack)
      BY <1>4
    <3>2. Len(st) = d + 1 /\ d = l + n
      BY <2>7, <2>11, <3>1
    <3>3. l <= d + 1 /\ d + 1 = l + (n + 1)
      BY <1>4, <2>2, <3>2
    <3> QED
      BY <1>3, <3>2, <3>3
  <2>20. \A k \in 1 .. Len(from.stack) : st[k] = from.stack[k]
    <3> TAKE k \in 1 .. Len(from.stack)
    <3>1. k \in 1 .. Len(v.stack)
      BY <1>3, <1>4
    <3> QED
      BY <2>7, <3>1 DEF Visiting
  <2> QED
    BY <2>5, <2>10, <2>18, <2>19, <2>20 DEF Visiting
<1> QED
  BY <1>5, <1>6

(* Nothing visited, nothing changed.                                       *)
LEMMA VisitStarts ==
    ASSUME AtTask, NEW from, Scanning(from), from.stack # <<>>
    PROVE  Visiting(from, from, 0)
<1>1. PICK F, R, W : /\ F = FrameOf(tree, Task) /\ R = Repairs(tree, Task, pathIndex)
                     /\ W = Walked(tree, Task)
  OBVIOUS
<1>2. from \in [stack : Seq(F), swaps : Seq(R), failed : {FALSE}] /\ F = [id : W, offset : Nat]
  BY <1>1 DEF Scanning, ScanType, FrameOf
<1>3. PICK a, l : a = from.stack /\ l = Len(a)
  OBVIOUS
<1>4. a \in Seq(F) /\ l \in Nat \ {0} /\ l \in 1 .. Len(a)
  BY <1>2, <1>3, EmptySeq, LenProperties
<1>5. from \in ScanType
  BY DEF Scanning
<1>6. PICK b : b = Advanced(from, from).stack
  OBVIOUS
<1>7. /\ Advanced(from, from) \in ScanType /\ Advanced(from, from).swaps = from.swaps
      /\ IsAdvanced(b, a, l)
  BY <1>3, <1>4, <1>5, <1>6, AdvancedIs
<1>8. b = a
  <2>1. b \in Seq(F) /\ Len(b) = l
    BY <1>1, <1>3, <1>6, <1>7 DEF ScanType, IsAdvanced
  <2>2. PICK y \in [id : W, offset : Nat] : y = a[l]
    <3>1. l \in 1 .. Len(a) /\ a[l] \in F
      BY <1>4, ElementOfSeq
    <3> QED
      BY <1>2, <3>1
  <2>3. [id |-> y.id, offset |-> y.offset + (l - l)] = y
    BY <1>4
  <2>4. \A k \in 1..l : b[k] = a[k]
    BY <1>3, <1>7, <2>2, <2>3 DEF IsAdvanced
  <2> QED
    BY <1>3, <1>4, <2>1, <2>4, SeqEqual
<1>9. Scanning(Advanced(from, from))
  BY <1>3, <1>6, <1>7, <1>8 DEF Scanning
<1> QED
  BY <1>3, <1>4, <1>5, <1>9 DEF Visiting

LEMMA PageKeeps ==
    ASSUME AtTask, NEW from, Scanning(from), from.stack # <<>>,
           NEW page, page = Page(Last(from.stack))
    PROVE  Scanning(Advanced(from, VisitAll(from, page)))
<1>1. PICK frame : frame = Last(from.stack)
  OBVIOUS
<1>2. frame \in FrameOf(tree, Task)
  <2>1. from.stack \in Seq(FrameOf(tree, Task))
    BY DEF Scanning, ScanType
  <2> QED
    BY <1>1, <2>1, SplitLast
<1>3. PICK m \in Nat : m = Len(page)
  BY <1>1, <1>2, PageIs
<1>4. PICK visit : IsVisitOf(visit, from, page)
  BY <1>3, VisitAllIs
<1> DEFINE S == {n \in Nat : n <= m => Visiting(from, visit[n], n)}
<1>5. 0 \in S
  BY <1>4, VisitStarts DEF IsVisitOf
<1>6. ASSUME NEW n \in Nat, n \in S PROVE n + 1 \in S
  <2> SUFFICES ASSUME n + 1 <= m PROVE Visiting(from, visit[n + 1], n + 1)
    OBVIOUS
  <2>1. n \in 0 .. Len(page) - 1 /\ Visiting(from, visit[n], n)
    BY <1>3, <1>6
  <2>2. visit[n + 1] = Visit(visit[n], page[n + 1])
    BY <1>4, <2>1 DEF IsVisitOf
  <2>3. Visiting(from, Visit(visit[n], page[n + 1]), n + 1)
    BY <1>1, <2>1, VisitKeeps
  <2> QED
    BY <2>2, <2>3
<1> HIDE DEF S
<1>7. m \in S
  BY <1>5, <1>6, AllNumbers
<1>8. Visiting(from, visit[m], m)
  BY <1>7 DEF S
<1> QED
  BY <1>3, <1>4, <1>8 DEF IsVisitOf, Visiting

(* A frame is left once it has nothing left.                               *)
LEMMA FrameDone ==
    ASSUME AtTask, NEW from, Scanning(from), from.stack # <<>>, Page(Last(from.stack)) = <<>>,
           NEW scan, scan = [from EXCEPT !.stack = Front(@)]
    PROVE  Scanning(scan)
<1>1. PICK F, R, W : /\ F = FrameOf(tree, Task) /\ R = Repairs(tree, Task, pathIndex)
                     /\ W = Walked(tree, Task)
  OBVIOUS
<1>2. from \in [stack : Seq(F), swaps : Seq(R), failed : {FALSE}] /\ F = [id : W, offset : Nat]
  BY <1>1 DEF Scanning, ScanType, FrameOf
<1>3. PICK a, b : a = from.stack /\ b = Front(a)
  OBVIOUS
<1>4. PICK n \in Nat : Len(a) = n + 1
  <2>1. PICK m \in Nat \ {0} : m = Len(a)
    BY <1>2, <1>3, EmptySeq
  <2>2. m - 1 \in Nat /\ m = (m - 1) + 1
    OBVIOUS
  <2> QED
    BY <2>1, <2>2
<1>5. /\ a \in Seq(F) /\ b \in Seq(F) /\ Len(b) = n
      /\ \A k \in 1..n : b[k] = a[k]
      /\ Last(a) = a[n + 1] /\ a[n + 1] \in F
  <2>1. a \in Seq(F) /\ b = SubSeq(a, 1, n)
    BY <1>2, <1>3, <1>4 DEF Front
  <2>2. Last(a) = a[n + 1] /\ a[n + 1] \in F
    BY <1>4, <2>1 DEF Last
  <2> QED
    BY <1>4, <2>1, <2>2
<1>6. /\ scan \in [stack : Seq(F), swaps : Seq(R), failed : {FALSE}]
      /\ scan.stack = b /\ scan.swaps = from.swaps
  BY <1>2, <1>3, <1>5
<1>7. Left(tree, a[n + 1]) = {}
  <2>1. PICK y \in [id : W, offset : Nat] : y = a[n + 1]
    BY <1>2, <1>5
  <2>2. y.id \in Live(tree) /\ y.offset \in Nat /\ y.offset >= Len(Children(tree, y.id))
    BY <1>1, <1>2, <1>3, <1>5, <2>1, PageIs
  <2>3. Left(tree, [id |-> y.id, offset |-> y.offset]) = {}
    BY <2>2, LeftShrinks DEF AtTask
  <2>4. [id |-> y.id, offset |-> y.offset] = y
    OBVIOUS
  <2> QED
    BY <2>1, <2>3, <2>4
<1>8. Ahead(tree, a) \subseteq Ahead(tree, b)
  <2> SUFFICES ASSUME NEW c \in Ahead(tree, a) PROVE c \in Ahead(tree, b)
    OBVIOUS
  <2>1. PICK k \in 1 .. n + 1 : c \in Left(tree, a[k])
    BY <1>4 DEF Ahead
  <2>2. k \in 1..n
    BY <1>7, <2>1
  <2> QED
    BY <1>5, <2>1, <2>2 DEF Ahead
<1>9. StillWas(tree, Task, pathIndex) \subseteq Repaired(from.swaps) \cup Ahead(tree, a)
  BY <1>3 DEF Scanning
<1> QED
  BY <1>1, <1>6, <1>8, <1>9 DEF Scanning, ScanType

LEMMA ScanPageKeeps ==
    ASSUME AtTask, NEW from, Scanning(from), NEW scan \in ScanPage(from)
    PROVE  Scanning(scan)
<1>1. PICK page : page = Page(Last(from.stack))
  OBVIOUS
<1>2. CASE from.stack = <<>> \/ Full(from)
  BY <1>2 DEF ScanPage
<1>3. CASE from.stack # <<>> /\ ~Full(from) /\ page = <<>>
  <2>1. scan = [from EXCEPT !.stack = Front(@)]
    BY <1>1, <1>3 DEF ScanPage
  <2> QED
    BY <1>1, <1>3, <2>1, FrameDone
<1>4. CASE from.stack # <<>> /\ ~Full(from) /\ page # <<>>
  <2>1. scan = Advanced(from, VisitAll(from, page))
    BY <1>1, <1>4 DEF ScanPage
  <2> QED
    BY <1>1, <1>4, <2>1, PageKeeps
<1> QED
  BY <1>2, <1>3, <1>4

(* The scans of a chunk, one page after the other.                         *)
After(scans) == UNION {ScanPage(scan) : scan \in scans}

IsScans(scans, start, m) ==
    scans = [n \in 0..m |-> IF n = 0 THEN {start} ELSE After(scans[n - 1])]

LEMMA ScansExist ==
    ASSUME NEW start, NEW limit \in Nat
    PROVE  \E scans : IsScans(scans, start, limit)
<1> DEFINE S == {m \in Nat : \E scans : IsScans(scans, start, m)}
<1>1. 0 \in S
  <2> DEFINE first == [n \in 0..0 |-> {start}]
  <2>1. first = [n \in 0..0 |-> IF n = 0 THEN {start} ELSE After(first[n - 1])]
    OBVIOUS
  <2>2. IsScans(first, start, 0)
    BY <2>1 DEF IsScans
  <2> HIDE DEF first
  <2> QED
    BY <2>2
<1>2. ASSUME NEW m \in Nat, m \in S PROVE m + 1 \in S
  <2>1. PICK scans : IsScans(scans, start, m)
    BY <1>2
  <2>2. scans = [n \in 0..m |-> IF n = 0 THEN {start} ELSE After(scans[n - 1])]
    BY <2>1 DEF IsScans
  <2> DEFINE longer == [n \in 0..m + 1 |-> IF n <= m THEN scans[n] ELSE After(scans[m])]
  <2>3. scans[0] = {start} /\ \A n \in 1..m : scans[n] = After(scans[n - 1])
    <3>1. PICK one : one = {start}
      OBVIOUS
    <3>2. scans = [n \in 0..m |-> IF n = 0 THEN one ELSE After(scans[n - 1])]
      BY <2>1, <3>1, Zenon DEF IsScans
    <3>3. \A n \in 0..m : scans[n] = IF n = 0 THEN one ELSE After(scans[n - 1])
      BY <3>2, Zenon
    <3>4. 0 \in 0..m /\ \A n \in 1..m : n \in 0..m /\ n # 0
      OBVIOUS
    <3> QED
      BY <3>1, <3>3, <3>4, Zenon
  <2>4. longer[0] = {start}
    BY <2>3
  <2>5. ASSUME NEW n \in 1..m + 1 PROVE longer[n] = After(longer[n - 1])
    <3>1. longer[n - 1] = scans[n - 1]
      OBVIOUS
    <3> QED
      BY <2>3, <3>1
  <2>6. longer = [n \in 0..m + 1 |-> longer[n]]
    OBVIOUS
  <2> HIDE DEF longer
  <2>7. \A n \in 0..m + 1 : longer[n] = IF n = 0 THEN {start} ELSE After(longer[n - 1])
    <3> TAKE n \in 0..m + 1
    <3>1. n = 0 \/ n \in 1..m + 1
      OBVIOUS
    <3> QED
      BY <2>4, <2>5, <3>1
  <2>8. longer = [n \in 0..m + 1 |-> IF n = 0 THEN {start} ELSE After(longer[n - 1])]
    BY <2>6, <2>7, Zenon
  <2> QED
    BY <2>8 DEF IsScans
<1> HIDE DEF S
<1>3. limit \in S
  BY <1>1, <1>2, AllNumbers
<1> QED
  BY <1>3 DEF S

IsScansOf(scans, walk, m) ==
    /\ scans[0] = {[stack |-> walk, swaps |-> <<>>, failed |-> FALSE]}
    /\ \A n \in 0 .. m - 1 : \A scan \in scans[n + 1] :
          \E from \in scans[n] : scan \in ScanPage(from)
    /\ ScanChunk(walk) = scans[m]

LEMMA ScanChunkIs ==
    ASSUME NEW walk, Len(walk) \in Nat
    PROVE  \E m \in Nat : \E scans : IsScansOf(scans, walk, m)
<1>1. PICK m : m = Len(walk) * (2 * MaxCat + 1)
  OBVIOUS
<1>2. m \in Nat
  BY <1>1, LimitAssumption
<1>3. PICK start : start = [stack |-> walk, swaps |-> <<>>, failed |-> FALSE]
  OBVIOUS
<1> DEFINE scans == CHOOSE s : IsScans(s, start, m)
<1>4. IsScans(scans, start, m)
  BY <1>2, ScansExist
<1>5. ScanChunk(walk) = scans[m]
  BY <1>1, <1>3 DEF ScanChunk, IsScans, After
<1> HIDE DEF scans
<1>6. /\ scans[0] = {start}
      /\ \A n \in 1..m : scans[n] = UNION {ScanPage(scan) : scan \in scans[n - 1]}
  BY <1>2, <1>4 DEF IsScans, After
<1>7. ASSUME NEW n \in 0 .. m - 1, NEW scan \in scans[n + 1]
      PROVE  \E from \in scans[n] : scan \in ScanPage(from)
  <2>1. n + 1 \in 1..m /\ (n + 1) - 1 = n
    BY <1>2
  <2> QED
    BY <1>6, <1>7, <2>1
<1> QED
  BY <1>2, <1>3, <1>5, <1>6, <1>7 DEF IsScansOf

(* A chunk swaps or leaves ahead whatever was ahead.                       *)
LEMMA ChunkScans ==
    ASSUME AtTask, NEW walk \in Seq(FrameOf(tree, Task)),
           StillWas(tree, Task, pathIndex) \subseteq Ahead(tree, walk),
           NEW scan \in ScanChunk(walk)
    PROVE  Scanning(scan)
<1>1. Len(walk) \in Nat
  BY LenProperties
<1>2. PICK m, scans : m \in Nat /\ IsScansOf(scans, walk, m)
  BY <1>1, ScanChunkIs
<1> DEFINE S == {n \in Nat : n <= m => \A s \in scans[n] : Scanning(s)}
<1>3. 0 \in S
  <2>1. PICK s : s = [stack |-> walk, swaps |-> <<>>, failed |-> FALSE]
    OBVIOUS
  <2>2. s \in ScanType /\ s.stack = walk
    BY <2>1 DEF ScanType
  <2>3. Scanning(s)
    BY <2>2 DEF Scanning
  <2>4. scans[0] = {s}
    BY <1>2, <2>1 DEF IsScansOf
  <2> QED
    BY <2>3, <2>4
<1>4. ASSUME NEW n \in Nat, n \in S PROVE n + 1 \in S
  <2> SUFFICES ASSUME n + 1 <= m, NEW s \in scans[n + 1] PROVE Scanning(s)
    BY <1>2
  <2>1. n \in 0 .. m - 1
    BY <1>2
  <2>2. PICK from \in scans[n] : s \in ScanPage(from)
    BY <1>2, <2>1 DEF IsScansOf
  <2>3. Scanning(from)
    BY <1>2, <1>4, <2>1
  <2> QED
    BY <2>2, <2>3, ScanPageKeeps
<1> HIDE DEF S
<1>5. m \in S
  BY <1>2, <1>3, <1>4, AllNumbers
<1> QED
  BY <1>2, <1>5 DEF IsScansOf, S

-----------------------------------------------------------------------------
(* The walk of the worker: all that is still to swap lies ahead of it.     *)

OnWalk(t, task, f, stack) ==
    /\ stack \in Seq(FrameOf(t, task))
    /\ StillWas(t, task, f) \subseteq Ahead(t, stack)

(* A write beside the tasks leaves the walk what it has ahead of it.       *)
LEMMA WalkAside ==
    ASSUME NEW t, NEW t1, Sound(t), Sound(t1), NEW q, q # <<>>, Vacated(t, q), Aside(t, t1, q),
           NEW task, task = q[1], NEW f, NEW f1,
           \A p \in DOMAIN f1 : p \in DOMAIN f \/ ~IsPrefix(task.prefix, p),
           NEW stack, OnWalk(t, task, f, stack)
    PROVE  OnWalk(t1, task, f1, stack)
<1>0. Live(t) \subseteq Cat /\ Live(t1) \subseteq Cat /\ 1 \in DOMAIN q
  BY FirstTask DEF Sound
<1>1. PICK root : root = task.root
  OBVIOUS
<1>2. /\ root \in Live(t)
      /\ \A c \in Descendants(t, root) : c \in Live(t1) /\ t1[c] = t[c]
      /\ \A c \in Descendants(t1, root) : c \in Live(t) /\ t1[c] = t[c]
  BY <1>0, <1>1, TaskTypes DEF Aside
<1>3. /\ Descendants(t1, root) = Descendants(t, root)
      /\ \A c \in Descendants(t, root) : Was(t1, task, c) = Was(t, task, c)
  BY <1>0, <1>1, AsideNames
<1>4. Walked(t1, task) = Walked(t, task) /\ FrameOf(t1, task) = FrameOf(t, task)
      /\ Walked(t, task) = Descendants(t, root) \cup {root}
  BY <1>1, <1>3 DEF Walked, FrameOf
<1>5. StillWas(t1, task, f1) \subseteq StillWas(t, task, f)
  <2> SUFFICES ASSUME NEW c \in StillWas(t1, task, f1) PROVE c \in StillWas(t, task, f)
    OBVIOUS
  <2>1. c \in Descendants(t, root) /\ Was(t, task, c) \in DOMAIN f1
    BY <1>1, <1>3 DEF StillWas
  <2>2. PICK p : p = Was(t, task, c) /\ IsPrefix(task.prefix, p)
    BY <1>0, <1>1, <2>1, WasBegins
  <2> QED
    BY <1>1, <2>1, <2>2 DEF StillWas
<1>6. ASSUME NEW p \in Walked(t, task) PROVE Children(t1, p) = Children(t, p)
  <2>1. ASSUME NEW c \in Live(t), t[c].parent = p PROVE c \in Live(t1) /\ t1[c].parent = p
    <3>1. c \in Descendants(t, root)
      BY <1>0, <1>2, <1>4, <1>6, <2>1, DescendantIs
    <3> QED
      BY <1>2, <2>1, <3>1
  <2>2. ASSUME NEW c \in Live(t1), t1[c].parent = p PROVE c \in Live(t) /\ t[c].parent = p
    <3>1. p = root \/ p \in Descendants(t1, root)
      BY <1>3, <1>4, <1>6
    <3>2. CASE c = root
      BY <2>2, <3>1, <3>2, ParentAbove
    <3>3. CASE c # root
      <4>1. c \in Descendants(t1, root)
        BY <1>0, <2>2, <3>1, <3>3, DescendantStep
      <4> QED
        BY <1>2, <2>2, <4>1
    <3> QED
      BY <3>2, <3>3
  <2>3. {c \in Live(t1) : t1[c].parent = p} = {c \in Live(t) : t[c].parent = p}
    BY <2>1, <2>2
  <2> QED
    BY <2>3 DEF Children
<1>7. ASSUME NEW frame \in FrameOf(t, task), NEW c \in Left(t, frame) PROVE c \in Left(t1, frame)
  <2>1. frame.id \in Walked(t, task) /\ frame.offset \in Nat
    BY DEF FrameOf
  <2>2. PICK kids : kids = Children(t, frame.id) /\ kids = Children(t1, frame.id)
    BY <1>6, <2>1
  <2>3. PICK j \in frame.offset + 1 .. Len(kids) : c = kids[j] \/ c \in Descendants(t, kids[j])
    BY <1>7, <2>2 DEF Left
  <2>4. kids[j] \in Live(t) /\ t[kids[j]].parent = frame.id
    <3>1. Len(kids) \in Nat
      BY <1>0, <2>2, ChildAt
    <3>2. j \in 1 .. Len(kids)
      BY <2>1, <3>1
    <3>3. kids \in Seq(Live(t)) /\ ToSet(kids) = ChildSet(t, frame.id)
      <4>1. PICK S : S = ChildSet(t, frame.id)
        OBVIOUS
      <4>2. ListsAll(kids, S)
        BY <1>0, <2>2, <4>1, ChildrenAre
      <4>3. kids \in Seq(S) /\ ToSet(kids) = S /\ S \subseteq Live(t)
        BY <4>1, <4>2 DEF ListsAll, ChildSet
      <4> QED
        BY <4>1, <4>3
    <3>4. kids[j] \in ToSet(kids)
      BY <3>2, <3>3, SetOfSeq
    <3> QED
      BY <3>3, <3>4 DEF ChildSet
  <2>5. kids[j] \in Descendants(t, root)
    BY <1>0, <1>2, <1>4, <2>1, <2>4, DescendantIs
  <2>6. \A d \in Descendants(t, kids[j]) : d \in Live(t1) /\ t1[d] = t[d]
    BY <1>2, <2>5, DescendantsNest
  <2>7. c \in Descendants(t, kids[j]) => c \in Descendants(t1, kids[j])
    BY <1>0, <2>6, SameSubtree
  <2>8. c \in Live(t1)
    BY <1>2, <2>3, <2>5, <2>6
  <2> QED
    BY <2>2, <2>3, <2>7, <2>8 DEF Left
<1>8. Ahead(t, stack) \subseteq Ahead(t1, stack)
  <2>1. \A k \in 1 .. Len(stack) : stack[k] \in FrameOf(t, task)
    BY ElementOfSeq DEF OnWalk
  <2> QED
    BY <1>7, <2>1 DEF Ahead
<1> QED
  BY <1>4, <1>5, <1>8 DEF OnWalk

LEMMA OneSwap ==
    ASSUME NEW f, NEW s
    PROVE  Swapped(f, <<s>>) = Swap1(f, s)
<1>1. PICK ss : ss = <<s>>
  OBVIOUS
<1>2. DOMAIN ss = 1..1 /\ ss[1] = s /\ 1 \in Nat
  BY <1>1
<1>3. PICK g : IsSwapWalk(g, 1, f, ss)
  BY <1>2, SwapWalk
<1>4. g[0] = f /\ g[1] = Swapped(f, ss) /\ g[0 + 1] = Swap1(g[0], ss[0 + 1])
  BY <1>3 DEF IsSwapWalk
<1> QED
  BY <1>1, <1>2, <1>4

-----------------------------------------------------------------------------
(* The invariant: the records are a tree; while nothing disturbed a task   *)
(* the index is kept and the worker has ahead of it all that is to swap.   *)

RepairInv ==
    /\ TreeInv
    /\ queue \in Seq(QueuedTask)
    /\ worker = [busy |-> worker.busy, stack |-> worker.stack]
    /\ worker.busy => queue # <<>>
    /\ ~disturbed => Kept(tree, queue, pathIndex)
    /\ ~disturbed /\ worker.busy => OnWalk(tree, Task, pathIndex, worker.stack)

LEMMA TaskIs ==
    ASSUME queue \in Seq(QueuedTask), queue # <<>>
    PROVE  Task = queue[1] /\ Tail(queue) \in Seq(QueuedTask)
BY DEF Task

(* A write that queues nothing and meets no task.                          *)
LEMMA BesideRepairs ==
    ASSUME RepairInv, TreeInv', queue' = queue, worker' = worker, ~disturbed' => ~disturbed,
           NEW t1, tree' = t1, NEW f1, pathIndex' = f1, NEW out, NEW in,
           ~disturbed' => /\ Beside(tree, t1, queue, out, in)
                          /\ IsMoved(f1, pathIndex, tree, t1, out, in)
    PROVE  RepairInv'
<1>0. /\ Sound(tree) /\ queue \in Seq(QueuedTask) /\ (worker.busy => queue # <<>>)
      /\ worker = [busy |-> worker.busy, stack |-> worker.stack]
  BY DEF RepairInv, TreeInv
<1>1. Task' = Task /\ (queue # <<>> => Task = queue[1])
  BY <1>0, TaskIs DEF Task
<1>2. ASSUME ~disturbed'
      PROVE  Kept(t1, queue, f1) /\ (worker.busy => OnWalk(t1, Task, f1, worker.stack))
  <2>1. /\ Kept(tree, queue, pathIndex) /\ Beside(tree, t1, queue, out, in)
        /\ IsMoved(f1, pathIndex, tree, t1, out, in)
    BY <1>2 DEF RepairInv
  <2>2. Kept(t1, queue, f1)
    BY <1>0, <2>1, BesideKeeps
  <2>3. ASSUME worker.busy PROVE OnWalk(t1, Task, f1, worker.stack)
    <3>1. PICK q, f, st : q = queue /\ f = pathIndex /\ st = worker.stack
      OBVIOUS
    <3>2. q # <<>> /\ Task = q[1] /\ Vacated(tree, q) /\ OnWalk(tree, Task, f, st)
      BY <1>0, <1>1, <1>2, <2>1, <2>3, <3>1 DEF RepairInv, Kept
    <3>3. Sound(t1) /\ Aside(tree, t1, q)
      BY <2>1, <3>1 DEF Beside
    <3>4. \A p \in DOMAIN f1 : p \in DOMAIN f \/ ~IsPrefix(q[1].prefix, p)
      <4> SUFFICES ASSUME NEW p \in DOMAIN f1, p \notin DOMAIN f PROVE ~IsPrefix(q[1].prefix, p)
        OBVIOUS
      <4>1. p \in PathsOf(t1, in)
        BY <2>1, <3>1 DEF IsMoved
      <4>2. 1 \in DOMAIN q
        BY <3>2, FirstTask
      <4> QED
        BY <2>1, <3>1, <4>1, <4>2 DEF PathsOf, Beside
    <3>5. OnWalk(t1, Task, f1, st)
      BY <1>0, <3>2, <3>3, <3>4, WalkAside
    <3> QED
      BY <3>1, <3>5
  <2> QED
    BY <2>2, <2>3
<1> QED
  BY <1>0, <1>1, <1>2 DEF RepairInv

(* A rename or move, small or large.                                       *)
LEMMA ResettleRepairs ==
    ASSUME RepairInv, Shallow(tree), NEW t1, NEW id, Resettling(t1, id), nextCat' = nextCat
    PROVE  RepairInv'
<1>0. /\ Sound(tree) /\ nextCat \in Nat \ {0} /\ \A c \in Live(tree) : c < nextCat
      /\ queue \in Seq(QueuedTask) /\ (worker.busy => queue # <<>>)
      /\ worker = [busy |-> worker.busy, stack |-> worker.stack]
  BY DEF RepairInv, TreeInv
<1>1. PICK parent, slug : parent = t1[id].parent /\ slug = t1[id].slug
  OBVIOUS
<1>2. /\ tree' = t1 /\ Resettled(tree, t1, id) /\ t1[id] # tree[id]
      /\ PathFree(parent, slug, id)
      /\ SwapPaths(id, BuildSlugPath(tree, id), ChildPath(tree, parent, slug))
  BY <1>1 DEF Resettling
<1>3. /\ id \in Live(tree) /\ Live(t1) = Live(tree)
      /\ t1[id] \in [parent : Live(tree) \cup {Root}, slug : Slug]
      /\ t1[id].parent # id /\ t1[id].parent \notin Descendants(tree, id)
  BY <1>2 DEF Resettled
<1>4. Sound(t1)
  BY <1>2, ResettledSound
<1>5. TreeInv'
  BY <1>0, <1>2, <1>3, <1>4 DEF TreeInv
<1>6. PICK old, new : old = BuildSlugPath(tree, id) /\ new = ChildPath(tree, parent, slug)
  OBVIOUS
<1>7. old = TruePath(tree, id)
  BY <1>0, <1>3, <1>6, BuildIs
<1>8. new = TruePath(t1, id)
  <2>1. parent \in (Live(tree) \cup {Root}) \ (Descendants(tree, id) \cup {id})
    BY <1>1, <1>3
  <2>2. TruePath(t1, parent) = TruePath(tree, parent)
    BY <1>2, <2>1, ResettledPaths
  <2>3. new = Append(TruePath(tree, parent), slug)
    BY <1>0, <1>6, <2>1, BuildIs
  <2>4. TruePath(t1, id) = Append(TruePath(t1, parent), slug)
    BY <1>1, <1>3, <1>4, PathStep
  <2> QED
    BY <2>2, <2>3, <2>4
<1>9. worker' = worker
  BY <1>2 DEF SwapPaths, Written
<1>12. new \in DOMAIN pathIndex => pathIndex[new] = id
  BY <1>2, <1>6 DEF PathFree
<1>13. ASSUME ~disturbed', queue # <<>> => ~MeetsQueuedTask(id, new)
       PROVE  Unmet(tree, t1, id, queue, new)
  <2>1. CASE queue = <<>>
    <3>1. DOMAIN queue = {}
      BY <2>1
    <3> QED
      BY <3>1 DEF Unmet
  <2>2. CASE queue # <<>>
    <3>1. ~MeetsQueuedTask(id, new)
      BY <1>13, <2>2
    <3> QED
      BY <1>2, <3>1, Zenon DEF MeetsQueuedTask, BelowQueuedTask, Unmet
  <2> QED
    BY <2>1, <2>2
<1>10. CASE ~AboveThreshold(tree, id)
  <2>1. /\ queue' = queue
        /\ disturbed' = (disturbed \/ (queue # <<>> /\ ~(~MeetsQueuedTask(id, new) /\ ~SharesWithQueuedTask(id))))
    BY <1>2, <1>6, <1>10 DEF SwapPaths, Written
  <2>2. PICK f1, f, q, in : /\ f1 = pathIndex' /\ f = pathIndex /\ q = queue
                            /\ in = Descendants(tree, id) \cup {id}
    OBVIOUS
  <2>3. IsRewritten(f1, f, tree, id, old, new)
    BY <1>2, <1>6, <1>10, <2>2 DEF SwapPaths, IsRewritten
  <2>4. ASSUME ~disturbed'
        PROVE  Beside(tree, t1, q, in, in) /\ IsMoved(f1, f, tree, t1, in, in)
    <3>1. Kept(tree, q, f) /\ Unmet(tree, t1, id, q, new)
      BY <1>13, <2>1, <2>2, <2>4 DEF RepairInv
    <3>2. SharesNone(tree, id, q)
      <4>1. CASE queue = <<>>
        <5>1. DOMAIN queue = {}
          BY <4>1
        <5> QED
          BY <2>2, <5>1 DEF SharesNone
      <4>2. CASE queue # <<>>
        <5>1. ~SharesWithQueuedTask(id)
          BY <2>1, <2>4, <4>2
        <5> QED
          BY <2>2, <5>1, Zenon DEF SharesWithQueuedTask, SharesNone
      <4> QED
        BY <4>1, <4>2
    <3>3. Beside(tree, t1, q, in, in) /\ new \notin Paths(tree)
      BY <1>2, <1>8, <1>12, <2>2, <3>1, <3>2, ResettledBeside
    <3>4. \A c, d \in in : TruePath(tree, c) = TruePath(tree, d) => c = d
      <4>1. in \subseteq Live(tree)
        BY <1>0, <1>3, <2>2, DescendantsAre DEF Sound
      <4> QED
        BY <3>1, <4>1 DEF Kept, Apart, Named
    <3>5. \A c, d \in in : TruePath(t1, c) = TruePath(t1, d) => c = d
      BY <3>3 DEF Beside
    <3>6. f = [p \in DOMAIN f |-> f[p]]
      BY <3>1 DEF Kept, Indexed
    <3> QED
      BY <1>2, <1>7, <1>8, <2>2, <2>3, <3>3, <3>4, <3>5, <3>6, SwapsMove
  <2> QED
    BY <1>2, <1>5, <1>9, <2>1, <2>2, <2>4, BesideRepairs
<1>11. CASE AboveThreshold(tree, id)
  <2>1. PICK task, s, q1, f1 : /\ task = [root |-> id, prefix |-> old]
                               /\ s = [id |-> id, old |-> old, new |-> new]
                               /\ q1 = Append(queue, task) /\ f1 = Swap1(pathIndex, s)
    OBVIOUS
  <2>2. pathIndex' = f1
    <3>1. pathIndex' = Swapped(pathIndex, <<s>>)
      BY <1>2, <1>6, <1>11, <2>1 DEF SwapPaths
    <3> QED
      BY <2>1, <3>1, OneSwap
  <2>3. queue' = q1 /\ disturbed' = (disturbed \/ (queue # <<>> /\ MeetsQueuedTask(id, new)))
    BY <1>2, <1>6, <1>11, <2>1 DEF SwapPaths, Written
  <2>4. q1 \in Seq(QueuedTask) /\ q1 # <<>>
        /\ (queue # <<>> => queue[1] = q1[1])
    <3>1. task \in QueuedTask
      <4>1. id \in Cat /\ old \in Seq(Slug)
        BY <1>0, <1>3, <1>7, PathType DEF Sound
      <4> QED
        BY <2>1, <4>1 DEF QueuedTask
    <3>2. q1 \in Seq(QueuedTask) /\ Len(q1) = Len(queue) + 1 /\ Len(queue) \in Nat
          /\ \A i \in 1 .. Len(queue) : q1[i] = queue[i]
      BY <1>0, <2>1, <3>1, AppendProperties, LenProperties
    <3>3. q1 # <<>>
      BY <3>2, EmptySeq
    <3>4. queue # <<>> => 1 \in 1 .. Len(queue)
      BY <1>0, <3>2, EmptySeq
    <3> QED
      BY <3>2, <3>3, <3>4
  <2>5. ASSUME ~disturbed'
        PROVE  Kept(t1, q1, f1) /\ (worker.busy => OnWalk(t1, queue[1], f1, worker.stack))
    <3>1. Kept(tree, queue, pathIndex) /\ (worker.busy => OnWalk(tree, queue[1], pathIndex, worker.stack))
      BY <1>0, <2>3, <2>5, TaskIs DEF RepairInv
    <3>2. Unmet(tree, t1, id, queue, new)
      BY <1>13, <2>3, <2>5
    <3>3. Descendants(tree, id) # {}
      <4> SUFFICES ASSUME Descendants(tree, id) = {} PROVE FALSE
        OBVIOUS
      <4>1. Cardinality({}) = 0 /\ Threshold \in Nat
        BY FS_EmptySet, LimitAssumption
      <4>2. Counted(tree, id) = {}
        BY DEF Counted
      <4> QED
        BY <1>11, <4>1, <4>2 DEF AboveThreshold
    <3>4. Kept(t1, q1, f1) /\ DOMAIN f1 \subseteq DOMAIN pathIndex \cup {new}
      <4>1. IsQueued(id, old, new, queue, pathIndex, q1, f1)
        BY <2>1 DEF IsQueued
      <4> QED
        BY <1>2, <1>7, <1>8, <1>12, <3>1, <3>2, <3>3, <4>1, QueuedKeeps
    <3>5. ASSUME worker.busy PROVE OnWalk(t1, queue[1], f1, worker.stack)
      <4>1. OnWalk(tree, queue[1], pathIndex, worker.stack) /\ queue # <<>> /\ Vacated(tree, queue)
        BY <1>0, <3>1, <3>5 DEF Kept
      <4>2. 1 \in DOMAIN queue
        BY <4>1, FirstTask
      <4>3. \A p \in DOMAIN f1 : p \in DOMAIN pathIndex \/ ~IsPrefix(queue[1].prefix, p)
        BY <3>2, <3>4, <4>2 DEF Unmet
      <4>4. Aside(tree, t1, queue)
        BY <1>2, <3>2, UnmetAside
      <4> QED
        BY <1>0, <1>4, <4>1, <4>3, <4>4, WalkAside
    <3> QED
      BY <3>4, <3>5
  <2>6. ASSUME worker.busy PROVE Task' = queue[1]
    <3>1. q1[1] = queue[1] /\ Head(q1) = q1[1]
      BY <1>0, <2>4, <2>6
    <3> QED
      BY <2>3, <3>1 DEF Task
  <2> QED
    BY <1>0, <1>2, <1>5, <1>9, <2>2, <2>3, <2>4, <2>5, <2>6 DEF RepairInv
<1> QED
  BY <1>10, <1>11

LEMMA WriteRepairs ==
    ASSUME RepairInv, Shallow(tree),
           CreateCategory \/ RenameCategory \/ MoveCategory \/ DeleteCategory
    PROVE  RepairInv'
<1>0. TreeInv /\ Sound(tree)
  BY DEF RepairInv, TreeInv
<1>1. CASE RenameCategory
  BY <1>0, <1>1, RenameResettles, ResettleRepairs
<1>2. CASE MoveCategory
  BY <1>0, <1>2, MoveResettles, ResettleRepairs
<1>3. CASE CreateCategory
  <2>1. PICK t1, id, new : TreeInv' /\ Growing(t1, id, new)
    BY <1>0, <1>3, CreateGrows
  <2>2. /\ tree' = t1 /\ queue' = queue /\ worker' = worker
        /\ disturbed' = (disturbed \/ (queue # <<>> /\ MeetsQueuedTask(id, new)))
        /\ new = TruePath(t1, id) /\ (new \in DOMAIN pathIndex => pathIndex[new] = NoCat)
    BY <2>1 DEF Growing, Written
  <2>3. PICK parent, slug : Grown(tree, t1, id, parent, slug)
    BY <2>1 DEF Growing
  <2>4. PICK f1, f, q : /\ f1 = pathIndex' /\ f = pathIndex /\ q = queue
                        /\ f1 = With(f, new, id)
    BY <2>1 DEF Growing
  <2>5. ASSUME ~disturbed'
        PROVE  Beside(tree, t1, q, {}, {id}) /\ IsMoved(f1, f, tree, t1, {}, {id})
    <3>1. Kept(tree, q, f)
      BY <2>2, <2>4, <2>5 DEF RepairInv
    <3>2. Unmet(tree, t1, id, q, new)
      <4>1. CASE queue = <<>>
        <5>1. DOMAIN queue = {}
          BY <4>1
        <5> QED
          BY <2>4, <5>1 DEF Unmet
      <4>2. CASE queue # <<>>
        <5>1. ~MeetsQueuedTask(id, new)
          BY <2>2, <2>5, <4>2
        <5> QED
          BY <2>2, <2>4, <5>1, Zenon DEF MeetsQueuedTask, BelowQueuedTask, Unmet
      <4> QED
        BY <4>1, <4>2
    <3>3. new \in DOMAIN f => f[new] \notin Live(tree)
      BY <1>0, <2>2, <2>4, NotRoot DEF Sound, NoCat, Root
    <3>4. Beside(tree, t1, q, {}, {id})
      BY <1>0, <2>2, <2>3, <3>1, <3>2, <3>3, GrownBeside
    <3>5. /\ DOMAIN f1 = DOMAIN f \cup {new} /\ f1[new] = id
          /\ \A x \in DOMAIN f : x # new => f1[x] = f[x]
          /\ f1 = [x \in DOMAIN f1 |-> f1[x]]
      BY <2>4 DEF With
    <3>6. PathsOf(tree, {}) = {} /\ PathsOf(t1, {id}) = {new}
      BY <2>2 DEF PathsOf
    <3> QED
      BY <2>2, <3>4, <3>5, <3>6 DEF IsMoved
  <2> QED
    BY <2>1, <2>2, <2>4, <2>5, BesideRepairs
<1>4. CASE DeleteCategory
  <2>1. PICK t1, id, old : TreeInv' /\ Pruning(t1, id, old)
    BY <1>0, <1>4, DeletePrunes
  <2>2. /\ tree' = t1 /\ queue' = queue /\ worker' = worker
        /\ disturbed' = (disturbed \/ (queue # <<>> /\ BelowQueuedTask(id)))
        /\ old = TruePath(tree, id) /\ Pruned(tree, t1, id)
    BY <2>1 DEF Pruning, Written
  <2>3. PICK f1, f, q : /\ f1 = pathIndex' /\ f = pathIndex /\ q = queue
                        /\ f1 = Without(f, {old})
    BY <2>1 DEF Pruning
  <2>4. ASSUME ~disturbed'
        PROVE  Beside(tree, t1, q, {id}, {}) /\ IsMoved(f1, f, tree, t1, {id}, {})
    <3>1. Kept(tree, q, f)
      BY <2>2, <2>3, <2>4 DEF RepairInv
    <3>2. \A i \in DOMAIN q : id \notin Descendants(tree, q[i].root)
      <4>1. CASE queue = <<>>
        <5>1. DOMAIN queue = {}
          BY <4>1
        <5> QED
          BY <2>3, <5>1
      <4>2. CASE queue # <<>>
        <5>1. ~BelowQueuedTask(id)
          BY <2>2, <2>4, <4>2
        <5> QED
          BY <2>3, <5>1, Zenon DEF BelowQueuedTask
      <4> QED
        BY <4>1, <4>2
    <3>3. Beside(tree, t1, q, {id}, {})
      BY <1>0, <2>2, <3>1, <3>2, PrunedBeside DEF Kept
    <3>4. /\ DOMAIN f1 = DOMAIN f \ {old} /\ f1 = [x \in DOMAIN f1 |-> f1[x]]
          /\ \A x \in DOMAIN f1 : f1[x] = f[x]
      BY <2>3 DEF Without, Restrict
    <3>5. PathsOf(tree, {id}) = {old} /\ PathsOf(t1, {}) = {}
      BY <2>2 DEF PathsOf
    <3> QED
      BY <3>3, <3>4, <3>5 DEF IsMoved
  <2> QED
    BY <2>1, <2>2, <2>3, <2>4, BesideRepairs
<1> QED
  BY <1>1, <1>2, <1>3, <1>4

(* The worker begins with all descendants ahead of it.                     *)
LEMMA StartRepairs ==
    ASSUME RepairInv, Shallow(tree), WorkerStart
    PROVE  RepairInv'
<1>0. TreeInv /\ Sound(tree) /\ queue \in Seq(QueuedTask) /\ queue # <<>> /\ ~worker.busy
      /\ worker = [busy |-> worker.busy, stack |-> worker.stack]
      /\ UNCHANGED <<tree, nextCat, pathIndex, disturbed>>
  BY DEF RepairInv, TreeInv, WorkerStart
<1>1. Task = queue[1] /\ Tail(queue) \in Seq(QueuedTask)
  BY <1>0, TaskIs
<1>2. CASE Task.root \in Live(tree)
  <2>1. worker' = [busy |-> TRUE, stack |-> <<Frame(Task.root)>>] /\ queue' = queue
    BY <1>2 DEF WorkerStart
  <2>2. OnWalk(tree, Task, pathIndex, <<Frame(Task.root)>>)
    <3>1. PICK st, fr : st = <<fr>> /\ fr = Frame(Task.root)
      OBVIOUS
    <3>2. fr \in FrameOf(tree, Task)
      BY <3>1 DEF Frame, FrameOf, Walked
    <3>3. st \in Seq(FrameOf(tree, Task)) /\ Len(st) = 1 /\ st[1] = fr
      BY <3>1, <3>2
    <3>4. Left(tree, fr) \subseteq Ahead(tree, st)
      BY <3>3 DEF Ahead
    <3>5. StillWas(tree, Task, pathIndex) \subseteq Left(tree, fr)
      BY <1>0, <1>2, <3>1, FrameHasAll DEF StillWas
    <3> QED
      BY <3>1, <3>3, <3>4, <3>5 DEF OnWalk
  <2>3. Task' = Task
    BY <2>1 DEF Task
  <2>4. /\ worker'.busy /\ worker'.stack = <<Frame(Task.root)>>
        /\ worker' = [busy |-> worker'.busy, stack |-> worker'.stack]
    BY <2>1
  <2>5. TreeInv'
    BY <1>0 DEF TreeInv
  <2>6. ~disturbed => Kept(tree, queue, pathIndex)
    BY DEF RepairInv
  <2> QED
    BY <1>0, <2>1, <2>2, <2>3, <2>4, <2>5, <2>6 DEF RepairInv
<1>3. CASE Task.root \notin Live(tree)
  <2>1. queue' = Tail(queue) /\ worker' = worker
    BY <1>3 DEF WorkerStart
  <2>2. disturbed
    <3>1. SUFFICES ASSUME ~disturbed PROVE FALSE
      OBVIOUS
    <3>2. Vacated(tree, queue)
      BY <3>1 DEF RepairInv, Kept
    <3> QED
      BY <1>0, <1>1, <1>3, <3>2, FirstTask, TaskTypes
  <2>3. TreeInv'
    BY <1>0 DEF TreeInv
  <2> QED
    BY <1>0, <1>1, <2>1, <2>2, <2>3 DEF RepairInv
<1> QED
  BY <1>2, <1>3

(* A chunk swaps some of what is ahead and leaves the rest ahead; one that *)
(* fails is as if it had not been.                                         *)
LEMMA ChunkRepairs ==
    ASSUME RepairInv, Shallow(tree), WorkerChunk
    PROVE  RepairInv'
<1>0. TreeInv /\ Sound(tree) /\ queue \in Seq(QueuedTask) /\ queue # <<>> /\ worker.busy
      /\ worker = [busy |-> worker.busy, stack |-> worker.stack]
      /\ UNCHANGED <<tree, nextCat, queue, disturbed>>
  BY DEF RepairInv, TreeInv, WorkerChunk
<1>1. Task' = Task /\ Task = queue[1]
  BY <1>0, TaskIs DEF Task
<1>2. TreeInv'
  BY <1>0 DEF TreeInv
<1>3. PICK scan \in ScanChunk(worker.stack) :
         IF scan.failed
         THEN worker' = IdleWorker /\ UNCHANGED pathIndex
         ELSE /\ worker' = [worker EXCEPT !.stack = scan.stack]
              /\ pathIndex' = Swapped(pathIndex, scan.swaps)
  BY DEF WorkerChunk
<1>4. CASE scan.failed
  <2>1. worker' = [busy |-> FALSE, stack |-> <<>>] /\ pathIndex' = pathIndex
    BY <1>3, <1>4 DEF IdleWorker
  <2>2. ~worker'.busy /\ worker' = [busy |-> worker'.busy, stack |-> worker'.stack]
    BY <2>1
  <2> QED
    BY <1>0, <1>2, <2>1, <2>2 DEF RepairInv
<1>5. CASE ~scan.failed
  <2>1. worker' = [worker EXCEPT !.stack = scan.stack] /\ pathIndex' = Swapped(pathIndex, scan.swaps)
    BY <1>3, <1>5
  <2>2. /\ worker'.busy = worker.busy /\ worker'.stack = scan.stack
        /\ worker' = [busy |-> worker'.busy, stack |-> worker'.stack]
    BY <1>0, <2>1
  <2>3. ASSUME ~disturbed
        PROVE  Kept(tree, queue, pathIndex') /\ OnWalk(tree, Task, pathIndex', scan.stack)
    <3>1. Kept(tree, queue, pathIndex) /\ OnWalk(tree, Task, pathIndex, worker.stack)
      BY <1>0, <2>3 DEF RepairInv
    <3>2. AtTask
      BY <1>0, <3>1 DEF AtTask, Kept
    <3>3. Scanning(scan)
      BY <3>1, <3>2, ChunkScans DEF OnWalk
    <3>4. AreRepairs(tree, Task, pathIndex, scan.swaps)
      BY <3>3, RepairsAre DEF Scanning, ScanType
    <3>5. PICK g, f, q : g = pathIndex' /\ f = pathIndex /\ q = queue
      OBVIOUS
    <3>6. Kept(tree, q, g) /\ StillWas(tree, q[1], g) \subseteq StillWas(tree, q[1], f) \ Repaired(scan.swaps)
      <4>1. AreRepairs(tree, q[1], f, scan.swaps) /\ Kept(tree, q, f) /\ g = Swapped(f, scan.swaps)
        BY <1>1, <2>1, <3>1, <3>4, <3>5
      <4> QED
        BY <1>0, <3>5, <4>1, ChunkKeeps
    <3>7. StillWas(tree, Task, g) \subseteq Ahead(tree, scan.stack)
      BY <1>1, <3>3, <3>5, <3>6 DEF Scanning
    <3>8. scan.stack \in Seq(FrameOf(tree, Task))
      BY <3>3 DEF Scanning, ScanType
    <3> QED
      BY <3>5, <3>6, <3>7, <3>8 DEF OnWalk
  <2> QED
    BY <1>0, <1>1, <1>2, <2>2, <2>3 DEF RepairInv
<1> QED
  BY <1>4, <1>5

(* With nothing ahead no old path of the task is left.                     *)
LEMMA CompleteRepairs ==
    ASSUME RepairInv, WorkerComplete
    PROVE  RepairInv'
<1>0. TreeInv /\ queue \in Seq(QueuedTask) /\ queue # <<>> /\ worker.busy /\ worker.stack = <<>>
      /\ queue' = Tail(queue) /\ worker' = IdleWorker
      /\ UNCHANGED <<tree, nextCat, pathIndex, disturbed>>
  BY DEF RepairInv, WorkerComplete
<1>1. Task = queue[1] /\ Tail(queue) \in Seq(QueuedTask)
  BY <1>0, TaskIs
<1>2. ~worker'.busy /\ worker' = [busy |-> worker'.busy, stack |-> worker'.stack]
  BY <1>0 DEF IdleWorker
<1>3. TreeInv'
  BY <1>0 DEF TreeInv
<1>4. ASSUME ~disturbed PROVE Kept(tree, Tail(queue), pathIndex)
  <2>1. Kept(tree, queue, pathIndex) /\ OnWalk(tree, Task, pathIndex, <<>>)
    BY <1>0, <1>4 DEF RepairInv
  <2>2. Ahead(tree, <<>>) = {}
    BY DEF Ahead
  <2>3. StillWas(tree, queue[1], pathIndex) = {}
    BY <1>1, <2>1, <2>2 DEF OnWalk
  <2> QED
    BY <1>0, <2>1, <2>3, CompleteKeeps
<1> QED
  BY <1>0, <1>1, <1>2, <1>3, <1>4 DEF RepairInv

(* A rebuild leaves every category under its canonical path, whatever is   *)
(* queued; a worker within a task finds nothing more to do.                *)
LEMMA RebuildRepairs ==
    ASSUME RepairInv, Shallow(tree), Rebuild
    PROVE  RepairInv'
<1>0. TreeInv /\ Sound(tree) /\ queue \in Seq(QueuedTask) /\ (worker.busy => queue # <<>>)
      /\ worker = [busy |-> worker.busy, stack |-> worker.stack]
      /\ UNCHANGED <<tree, nextCat, queue, worker>>
  BY DEF RepairInv, TreeInv, Rebuild
<1>1. TreeInv'
  BY <1>0 DEF TreeInv
<1>2. Task' = Task /\ (queue # <<>> => Task = queue[1])
  BY <1>0, TaskIs DEF Task
<1>3. PICK f1 : f1 = pathIndex'
  OBVIOUS
<1>4. ~disturbed' => ~disturbed \/ (queue = <<>> /\ SiblingSlugsDiffer)
  BY DEF Rebuild, lookups
<1>5. CASE ~disturbed
  <2>1. Kept(tree, queue, pathIndex) /\ Apart(tree, queue) /\ Vacated(tree, queue)
        /\ (worker.busy => OnWalk(tree, Task, pathIndex, worker.stack))
    BY <1>5 DEF RepairInv, Kept
  <2>2. \A c, d \in Live(tree) : TruePath(tree, c) = TruePath(tree, d) => c = d
    BY <2>1 DEF Apart, Named
  <2>3. Exact(tree, f1)
    BY <1>0, <1>3, <2>2, RebuildExact
  <2>4. Kept(tree, queue, f1)
    BY <2>1, <2>3, ExactIsIndexed DEF Kept
  <2>5. ASSUME worker.busy PROVE OnWalk(tree, Task, f1, worker.stack)
    <3>1. queue # <<>> /\ Task = queue[1] /\ 1 \in DOMAIN queue
      BY <1>0, <1>2, <2>1, <2>5, FirstTask
    <3>2. StillWas(tree, Task, f1) = {}
      <4> SUFFICES ASSUME NEW c \in StillWas(tree, Task, f1) PROVE FALSE
        OBVIOUS
      <4>1. c \in Descendants(tree, queue[1].root) /\ Was(tree, queue[1], c) \in Paths(tree)
        BY <2>3, <3>1 DEF StillWas, Exact
      <4>2. PICK d \in Live(tree) : Was(tree, queue[1], c) = TruePath(tree, d)
        BY <4>1 DEF Paths
      <4> QED
        BY <1>0, <2>1, <3>1, <4>1, <4>2, WasIsGone
    <3> QED
      BY <2>1, <2>5, <3>2 DEF OnWalk
  <2> QED
    BY <1>0, <1>1, <1>2, <1>3, <2>4, <2>5 DEF RepairInv
<1>6. CASE queue = <<>> /\ SiblingSlugsDiffer
  <2>1. SiblingsDiffer(tree)
    BY <1>6 DEF SiblingSlugsDiffer, SiblingsDiffer
  <2>2. \A c, d \in Live(tree) : TruePath(tree, c) = TruePath(tree, d) => c = d
    BY <1>0, <2>1, PathsDiffer
  <2>3. Exact(tree, f1)
    BY <1>0, <1>3, <2>2, RebuildExact
  <2>4. Kept(tree, <<>>, f1)
    BY <2>3, ExactIsKept
  <2> QED
    BY <1>0, <1>1, <1>3, <1>6, <2>4 DEF RepairInv
<1>7. CASE disturbed'
  BY <1>0, <1>1, <1>7 DEF RepairInv
<1> QED
  BY <1>4, <1>5, <1>6, <1>7

LEMMA RepairInit ==
    Init => RepairInv
<1> SUFFICES ASSUME Init PROVE RepairInv
  OBVIOUS
<1>1. Live(tree) = {} /\ nextCat = 1 /\ queue = <<>>
  BY DEF Init, Live
<1>2. Sound(tree)
  BY <1>1 DEF Sound
<1>3. Exact(tree, pathIndex)
  <2>1. PICK f : f = pathIndex /\ f = <<>>
    BY DEF Init
  <2>2. DOMAIN f = {} /\ f = [p \in DOMAIN f |-> f[p]]
    BY <2>1
  <2>3. Paths(tree) = {}
    BY <1>1 DEF Paths
  <2> QED
    BY <1>1, <2>1, <2>2, <2>3 DEF Exact
<1>4. Kept(tree, queue, pathIndex)
  BY <1>1, <1>3, ExactIsKept
<1>5. ~worker.busy /\ worker = [busy |-> worker.busy, stack |-> worker.stack]
  BY DEF Init, IdleWorker
<1>6. queue \in Seq(QueuedTask)
  BY <1>1
<1>7. TreeInv
  BY <1>1, <1>2 DEF TreeInv
<1> QED
  BY <1>4, <1>5, <1>6, <1>7 DEF RepairInv

LEMMA RepairStep ==
    ASSUME RepairInv, Shallow(tree), [Next]_vars
    PROVE  RepairInv'
<1>1. CASE CreateCategory \/ RenameCategory \/ MoveCategory \/ DeleteCategory
  BY <1>1, WriteRepairs
<1>2. CASE WorkerStart
  BY <1>2, StartRepairs
<1>3. CASE WorkerChunk
  BY <1>3, ChunkRepairs
<1>4. CASE WorkerComplete
  BY <1>4, CompleteRepairs
<1>5. CASE Rebuild
  BY <1>5, RebuildRepairs
<1>6. CASE Restart
  <2>1. worker' = IdleWorker /\ UNCHANGED <<tree, nextCat, pathIndex, queue, disturbed>>
    BY <1>6 DEF Restart
  <2>2. ~worker'.busy /\ worker' = [busy |-> worker'.busy, stack |-> worker'.stack]
    BY <2>1 DEF IdleWorker
  <2> QED
    BY <2>1, <2>2 DEF RepairInv, TreeInv
<1>7. ASSUME NEW r \in Reader, LookupSearch(r) \/ LookupGoesOn(r)
      PROVE  RepairInv'
  <2>1. UNCHANGED <<tree, nextCat, pathIndex, queue, worker, disturbed>>
    BY <1>7, LookupMoves DEF LookupSearch, directory
  <2> QED
    BY <2>1 DEF RepairInv, TreeInv, Task
<1>8. CASE UNCHANGED vars
  BY <1>8 DEF vars, directory, RepairInv, TreeInv, Task
<1> QED
  BY <1>1, <1>2, <1>3, <1>4, <1>5, <1>6, <1>7, <1>8 DEF Next, LookupGoesOn

(* The condition of the repair theorems, as a formula of the state.        *)
ChainsFit == Shallow(tree)

LEMMA RepairInvariant == Spec /\ []ChainsFit => []RepairInv
<1>1. Init => RepairInv
  BY RepairInit
<1>2. RepairInv /\ ChainsFit /\ [Next]_vars => RepairInv'
  BY RepairStep DEF ChainsFit
<1> QED
  BY <1>1, <1>2, PTL DEF Spec

(* Once the queue of repair tasks has drained, with large renames and      *)
(* moves queued one behind the other, creates, deletes, small renames and  *)
(* moves and worker chunks between any of them, restarts within a task and *)
(* rebuilds at any moment, each live category is in the path index under   *)
(* its canonical path, and nothing else is.  What may not have happened    *)
(* meanwhile is what disturbed records: a write to what a queued task has  *)
(* yet to repair; and no chain of parents is longer than a write can       *)
(* follow.                                                                 *)
THEOREM RepairedIndexIsExact == Spec /\ []ChainsFit => []RepairConverges
<1>1. RepairInv => RepairConverges
  <2> SUFFICES ASSUME RepairInv, queue = <<>>, ~disturbed PROVE PathIndexExact
    BY DEF RepairConverges
  <2>1. Kept(tree, <<>>, pathIndex)
    BY DEF RepairInv
  <2> QED
    BY <2>1, KeptIsExact, ExactIsIndex
<1> QED
  BY <1>1, RepairInvariant, PTL

(* While tasks are queued or under way no category drops out of the path   *)
(* index and none that is gone stays in it: each chunk takes away an old   *)
(* path and adds the canonical one of the same category, and a write aside *)
(* from the tasks has its own paths to itself.                             *)
THEOREM QueuedCategoriesStayIndexed == Spec /\ []ChainsFit => []RepairLosesNoCategory
<1>1. RepairInv => RepairLosesNoCategory
  <2> SUFFICES ASSUME RepairInv, ~disturbed PROVE Live(tree) = Range(pathIndex)
    BY DEF RepairLosesNoCategory
  <2>1. Indexed(tree, queue, pathIndex)
    BY DEF RepairInv, Kept
  <2> QED
    BY <2>1 DEF Indexed, Range
<1> QED
  BY <1>1, RepairInvariant, PTL

(* A chain of parents passes no category twice, so no chain is longer than *)
(* the number of categories.                                               *)
LEMMA FewAreShallow ==
    ASSUME MaxCat <= DepthMax, NEW t, Sound(t)
    PROVE  Shallow(t)
<1>0. Live(t) \subseteq Cat /\ DepthMax \in Nat
  BY LimitAssumption DEF Sound
<1>1. ASSUME NEW c \in Live(t) PROVE ~TooDeep(t, c)
  <2>1. Reach(t, c, Root)
    BY <1>0, ReachLine DEF Sound
  <2>2. Climb(t, c, Root, DepthMax).at = Root
    BY <1>0, <2>1, AnyLimit
  <2> QED
    BY <1>0, <2>2, NotRoot DEF TooDeep
<1> QED
  BY <1>1 DEF Shallow

(* The condition of the theorems holds of itself in a directory that has   *)
(* room for no more categories than a write can follow.                    *)
THEOREM FewCategoriesFit ==
    ASSUME MaxCat <= DepthMax
    PROVE  Spec => []ChainsFit
<1>1. RepairInv => ChainsFit
  BY FewAreShallow DEF RepairInv, TreeInv, ChainsFit
<1>2. Init => RepairInv
  BY RepairInit
<1>3. RepairInv /\ [Next]_vars => RepairInv'
  BY <1>1, RepairStep DEF ChainsFit
<1> QED
  BY <1>1, <1>2, <1>3, PTL DEF Spec

-----------------------------------------------------------------------------
(* The path a lookup builds, a record at a time.  While nothing is written *)
(* what was read is a line of the tree.  After a write the rest is read of *)
(* another tree: but a path such a reading may come to is one the category *)
(* had before the write or has after it.                                   *)

IsBuild(b) ==
    /\ b = [ids |-> b.ids, up |-> b.up, slugs |-> b.slugs, wrote |-> b.wrote]
    /\ b.ids \in Seq(Cat) /\ b.slugs \in Seq(Slug) /\ b.wrote \in Nat

Shaped(b) ==
    /\ IsBuild(b) /\ Len(b.slugs) <= Len(b.ids)
    /\ b.slugs = <<>> \/ b.up = Root

(* The records of a build that is completed in t: those it has read, then  *)
(* the line that goes on from there.                                       *)
Trail(at, k, id, b, t) ==
    /\ k \in Nat \ {0} /\ Len(b.ids) <= k
    /\ at[0] = id /\ at[Len(b.ids)] = b.up /\ at[k] = Root
    /\ \A n \in 0 .. Len(b.ids) - 1 : at[n] = b.ids[n + 1]
    /\ \A n \in Len(b.ids) .. k - 1 : at[n] # Root /\ at[n + 1] = t[at[n]].parent
    /\ \A n \in 0 .. k - Len(b.slugs) - 1 : at[n] \in Live(t)

(* The path it comes to.                                                   *)
Reading(at, k, b, t) ==
    [j \in 1..k |-> IF j <= Len(b.slugs) THEN b.slugs[j] ELSE t[at[k - j]].slug]

Promised(x, b, t) ==
    \A at, k : Trail(at, k, x.id, b, t) /\ Reading(at, k, b, t) = x.path => x.current

(* What was read is what t says.                                           *)
Consistent(b, t) ==
    /\ \A n \in 1 .. Len(b.ids) :
          /\ b.ids[n] \in Live(t)
          /\ t[b.ids[n]].parent = IF n < Len(b.ids) THEN b.ids[n + 1] ELSE b.up
    /\ \A j \in 1 .. Len(b.slugs) : b.slugs[j] = t[b.ids[Len(b.ids) + 1 - j]].slug

LEMMA TrailEnds ==
    ASSUME NEW at, NEW k, NEW id, NEW b, NEW t, Trail(at, k, id, b, t), IsBuild(b), b.up = Root
    PROVE  k = Len(b.ids)
<1>1. /\ k \in Nat /\ Len(b.ids) <= k /\ at[Len(b.ids)] = Root /\ Len(b.ids) \in Nat
      /\ \A n \in Len(b.ids) .. k - 1 : at[n] # Root
  BY DEF Trail, IsBuild
<1> QED
  BY <1>1

LEMMA LineNames ==
    ASSUME NEW t, Live(t) \subseteq Cat, NEW at, NEW k, NEW id, IsLine(at, k, t, id, Root),
           k # 0
    PROVE  Names(t, LineSlugs(at, k, t), id)
<1>1. k \in Nat /\ id \in Live(t)
  <2>1. k \in Nat /\ at[0] = id /\ \A n \in 0 .. k - 1 : at[n] \in Live(t)
    BY DEF IsLine
  <2>2. 0 \in 0 .. k - 1
    BY <2>1
  <2> QED
    BY <2>1, <2>2
<1>2. k <= MaxCat /\ \A n \in 0 .. k - 1 : at[n + 1] # at[n]
  BY LineShort
<1>3. MaxCat + 1 \in Nat /\ k <= MaxCat + 1
  BY <1>1, <1>2, LimitAssumption
<1>4. Climb(t, id, Root, MaxCat + 1).path = LineSlugs(at, k, t)
  BY <1>2, <1>3, ClimbOfLine
<1> QED
  BY <1>1, <1>4 DEF Names, TruePath

(* What was read, then a line of the same tree, is a line of it.           *)
LEMMA TrailIsLine ==
    ASSUME NEW t, Live(t) \subseteq Cat, NEW b, IsBuild(b), Consistent(b, t),
           NEW at, NEW k \in Nat, Len(b.ids) <= k, at[Len(b.ids)] = b.up, at[k] = Root,
           \A n \in 0 .. Len(b.ids) - 1 : at[n] = b.ids[n + 1],
           \A n \in Len(b.ids) .. k - 1 : at[n] \in Live(t) /\ at[n + 1] = t[at[n]].parent
    PROVE  IsLine(at, k, t, at[0], Root)
<1> DEFINE m == Len(b.ids)
<1>1. m \in Nat /\ Root \notin Live(t)
  BY NotRoot DEF IsBuild
<1>2. ASSUME NEW n \in 0 .. k - 1 PROVE at[n] \in Live(t) /\ at[n + 1] = t[at[n]].parent
  <2>1. CASE n < m
    <3>1. n \in 0 .. m - 1 /\ n + 1 \in 1..m /\ at[n] = b.ids[n + 1]
      BY <1>1, <2>1
    <3>2. /\ b.ids[n + 1] \in Live(t)
          /\ t[b.ids[n + 1]].parent = IF n + 1 < m THEN b.ids[(n + 1) + 1] ELSE b.up
      BY <3>1 DEF Consistent
    <3>3. CASE n + 1 < m
      <4>1. n + 1 \in 0 .. m - 1
        BY <1>1, <3>3
      <4> QED
        BY <3>1, <3>2, <3>3, <4>1
    <3>4. CASE ~(n + 1 < m)
      <4>1. n + 1 = m
        BY <1>1, <2>1, <3>4
      <4> QED
        BY <3>1, <3>2, <3>4, <4>1
    <3> QED
      BY <3>3, <3>4
  <2>2. CASE ~(n < m)
    <3>1. n \in m .. k - 1
      BY <1>1, <2>2
    <3> QED
      BY <3>1
  <2> QED
    BY <2>1, <2>2
<1> QED
  BY <1>1, <1>2 DEF IsLine

(* The slugs read are those of the last of the trail.                      *)
LEMMA SlugsRead ==
    ASSUME NEW at, NEW k, NEW id, NEW b, NEW t, NEW t1, Trail(at, k, id, b, t1), Shaped(b),
           Consistent(b, t)
    PROVE  \A j \in 1 .. Len(b.slugs) :
              j <= k /\ k - j \in 0 .. k - 1 /\ b.slugs[j] = t[at[k - j]].slug
<1> SUFFICES ASSUME NEW j \in 1 .. Len(b.slugs)
             PROVE  j <= k /\ k - j \in 0 .. k - 1 /\ b.slugs[j] = t[at[k - j]].slug
  OBVIOUS
<1>1. IsBuild(b) /\ Len(b.slugs) <= Len(b.ids) /\ Len(b.slugs) \in Nat /\ Len(b.ids) \in Nat
  BY DEF Shaped, IsBuild
<1>2. b.up = Root
  <2>1. b.slugs # <<>>
    BY <1>1
  <2> QED
    BY <2>1 DEF Shaped
<1>3. k = Len(b.ids)
  BY <1>1, <1>2, TrailEnds
<1>4. k - j \in 0 .. k - 1 /\ (k - j) + 1 = Len(b.ids) + 1 - j
  BY <1>1, <1>3
<1>5. at[k - j] = b.ids[(k - j) + 1]
  BY <1>3, <1>4 DEF Trail
<1>6. b.slugs[j] = t[b.ids[Len(b.ids) + 1 - j]].slug
  BY DEF Consistent
<1> QED
  BY <1>1, <1>3, <1>4, <1>5, <1>6

(* No way up a tree comes back to where it began.                          *)
LEMMA NoReturn ==
    ASSUME NEW t, Sound(t), NEW c, NEW p \in Nat \ {0}, c[p] = c[0],
           \A n \in 0 .. p - 1 : c[n] \in Live(t) /\ c[n + 1] = t[c[n]].parent
    PROVE  FALSE
<1>1. c[0] \in Live(t) /\ Root \notin Live(t)
  BY NotRoot DEF Sound
<1>2. PICK k, at : IsLine(at, k, t, c[0], Root)
  BY <1>1 DEF Sound
<1>3. /\ k \in Nat /\ at[0] = c[0] /\ at[k] = Root
      /\ \A n \in 0 .. k - 1 : at[n] \in Live(t) \ {Root} /\ at[n + 1] = t[at[n]].parent
  BY <1>2 DEF IsLine
<1> DEFINE round == [n \in 0 .. p + k |-> IF n <= p THEN c[n] ELSE at[n - p]]
<1>4. /\ round[0] = c[0] /\ round[p] = c[0]
      /\ \A n \in 0 .. p : n \in 0 .. p + k /\ round[n] = c[n]
  BY <1>3
<1>5. \A n \in p .. p + k : round[n] = at[n - p]
  <2> TAKE n \in p .. p + k
  <2>1. n = p \/ ~(n <= p)
    OBVIOUS
  <2>2. n = p => n - p = 0
    OBVIOUS
  <2> QED
    BY <1>3, <2>1, <2>2
<1>9. round[p + k] = Root
  <2>1. p + k \in p .. p + k /\ (p + k) - p = k
    BY <1>3
  <2> QED
    BY <1>3, <1>5, <2>1
<1>6. ASSUME NEW n \in 0 .. p + k - 1
      PROVE  round[n] \in Live(t) \ {Root} /\ round[n + 1] = t[round[n]].parent
  <2> HIDE DEF round
  <2>1. CASE n < p
    <3>1. n \in 0 .. p - 1 /\ n \in 0..p /\ n + 1 \in 0..p
      BY <1>3, <2>1
    <3> QED
      BY <1>1, <1>4, <3>1
  <2>2. CASE ~(n < p)
    <3>1. n - p \in 0 .. k - 1 /\ n \in p .. p + k /\ n + 1 \in p .. p + k /\ (n + 1) - p = (n - p) + 1
      BY <1>3, <2>2
    <3> QED
      BY <1>3, <1>5, <3>1
  <2> QED
    BY <2>1, <2>2
<1> HIDE DEF round
<1>7. IsLine(round, p + k, t, c[0], Root)
  BY <1>3, <1>4, <1>6, <1>9 DEF IsLine
<1>8. 0 \in 0 .. p + k /\ p \in 0 .. p + k
  BY <1>3
<1> QED
  BY <1>4, <1>7, <1>8, LineDistinct

(* What one write does to the tree: to a category that stays nothing, or   *)
(* one gets another slug, or one another parent, not below it.             *)
SomeStay(t, t1) == \A c \in Live(t) \cap Live(t1) : t1[c] = t[c]

Renamed(t, t1, id) == Resettled(t, t1, id) /\ t1[id].parent = t[id].parent

Moved(t, t1, id) == Resettled(t, t1, id) /\ t1[id].slug = t[id].slug

(* The names a reading begun before a write and completed after it may     *)
(* come to.  Its slugs were begun: all its records are of the tree before. *)
LEMMA SlugsTorn ==
    ASSUME NEW t, NEW t1, Sound(t), Live(t1) \subseteq Cat,
           SomeStay(t, t1) \/ \E x : Renamed(t, t1, x) \/ Moved(t, t1, x),
           NEW b, Shaped(b), Consistent(b, t), b.up = Root,
           NEW at, NEW k, NEW id, Trail(at, k, id, b, t1)
    PROVE  Names(t, Reading(at, k, b, t1), id) \/ Names(t1, Reading(at, k, b, t1), id)
<1> DEFINE q == Len(b.slugs)
<1>0. /\ Live(t) \subseteq Cat /\ IsBuild(b) /\ q \in Nat /\ q <= Len(b.ids)
      /\ k \in Nat \ {0} /\ at[0] = id
  BY DEF Sound, Shaped, IsBuild, Trail
<1>1. k = Len(b.ids)
  BY <1>0, TrailEnds
<1>2. IsLine(at, k, t, id, Root)
  BY <1>0, <1>1, TrailIsLine DEF Trail
<1>3. \A j \in 1..q : b.slugs[j] = t[at[k - j]].slug
  BY SlugsRead
<1>4. \A n \in 0 .. k - 1 : at[n] \in Live(t)
  BY <1>2 DEF IsLine
<1>5. \A n \in 0 .. k - q - 1 : at[n] \in Live(t1)
  BY DEF Trail
<1>6. ASSUME \A n \in 0 .. k - q - 1 : t1[at[n]].slug = t[at[n]].slug
      PROVE  Names(t, Reading(at, k, b, t1), id)
  <2>1. \A j \in 1..k : (IF j <= q THEN b.slugs[j] ELSE t1[at[k - j]].slug) = t[at[k - j]].slug
    <3> TAKE j \in 1..k
    <3>1. CASE j <= q
      BY <1>0, <1>3, <3>1
    <3>2. CASE ~(j <= q)
      <4>1. k - j \in 0 .. k - q - 1
        BY <1>0, <3>2
      <4> QED
        BY <1>6, <3>2, <4>1
    <3> QED
      BY <3>1, <3>2
  <2>2. Reading(at, k, b, t1) = LineSlugs(at, k, t)
    BY <2>1 DEF Reading, LineSlugs
  <2> QED
    BY <1>0, <1>2, <2>2, LineNames
<1>7. CASE SomeStay(t, t1)
  <2>1. \A n \in 0 .. k - q - 1 : t1[at[n]].slug = t[at[n]].slug
    <3> TAKE n \in 0 .. k - q - 1
    <3>1. at[n] \in Live(t) /\ at[n] \in Live(t1)
      BY <1>0, <1>4, <1>5
    <3> QED
      BY <1>7, <3>1 DEF SomeStay
  <2> QED
    BY <1>6, <2>1
<1>8. ASSUME NEW x, Moved(t, t1, x) PROVE Names(t, Reading(at, k, b, t1), id)
  <2>1. \A c \in Live(t) : t1[c].slug = t[c].slug
    BY <1>8 DEF Moved, Resettled
  <2>2. \A n \in 0 .. k - q - 1 : t1[at[n]].slug = t[at[n]].slug
    BY <1>0, <1>4, <2>1
  <2> QED
    BY <1>6, <2>2
<1>9. ASSUME NEW x, Renamed(t, t1, x)
      PROVE  Names(t, Reading(at, k, b, t1), id) \/ Names(t1, Reading(at, k, b, t1), id)
  <2>1. /\ Live(t1) = Live(t) /\ \A c \in Live(t) \ {x} : t1[c] = t[c]
        /\ \A c \in Live(t) : t1[c].parent = t[c].parent
    BY <1>9 DEF Renamed, Resettled
  <2>2. CASE \A n \in 0 .. k - q - 1 : at[n] # x
    <3>1. \A n \in 0 .. k - q - 1 : t1[at[n]].slug = t[at[n]].slug
      BY <1>0, <1>4, <2>1, <2>2
    <3> QED
      BY <1>6, <3>1
  <2>3. ASSUME NEW i \in 0 .. k - q - 1, at[i] = x PROVE Names(t1, Reading(at, k, b, t1), id)
    <3>1. IsLine(at, k, t1, id, Root)
      BY <1>2, <2>1 DEF IsLine
    <3>2. \A j \in 1..k : (IF j <= q THEN b.slugs[j] ELSE t1[at[k - j]].slug) = t1[at[k - j]].slug
      <4> TAKE j \in 1..k
      <4> SUFFICES ASSUME j <= q PROVE b.slugs[j] = t1[at[k - j]].slug
        OBVIOUS
      <4>1. k - j \in 0..k /\ i \in 0..k /\ k - j # i /\ k - j \in 0 .. k - 1 /\ j \in 1..q
        BY <1>0
      <4>2. at[k - j] # x
        BY <1>2, <2>3, <4>1, LineDistinct
      <4>3. t1[at[k - j]] = t[at[k - j]]
        BY <1>4, <2>1, <4>1, <4>2
      <4> QED
        BY <1>3, <4>1, <4>3
    <3>3. Reading(at, k, b, t1) = LineSlugs(at, k, t1)
      BY <3>2 DEF Reading, LineSlugs
    <3> QED
      BY <1>0, <3>1, <3>3, LineNames
  <2> QED
    BY <2>2, <2>3
<1> QED
  BY <1>7, <1>8, <1>9

(* It was climbing: the records to come are of the tree after.             *)
LEMMA ClimbTorn ==
    ASSUME NEW t, NEW t1, Sound(t), Live(t1) \subseteq Cat,
           SomeStay(t, t1) \/ \E x : Renamed(t, t1, x) \/ Moved(t, t1, x),
           NEW b, Shaped(b), Consistent(b, t), b.slugs = <<>>,
           NEW at, NEW k, NEW id, Trail(at, k, id, b, t1)
    PROVE  Names(t, Reading(at, k, b, t1), id) \/ Names(t1, Reading(at, k, b, t1), id)
<1> DEFINE m == Len(b.ids)
<1>0. /\ Live(t) \subseteq Cat /\ IsBuild(b) /\ m \in Nat /\ m <= k /\ Len(b.slugs) = 0
      /\ k \in Nat \ {0} /\ at[0] = id /\ at[m] = b.up /\ at[k] = Root
  BY DEF Sound, Shaped, IsBuild, Trail
<1>1. Reading(at, k, b, t1) = LineSlugs(at, k, t1)
  BY <1>0 DEF Reading, LineSlugs
<1>2. /\ \A n \in 0 .. m - 1 : at[n] = b.ids[n + 1]
      /\ \A n \in m .. k - 1 : at[n] # Root /\ at[n + 1] = t1[at[n]].parent
      /\ \A n \in 0 .. k - 1 : at[n] \in Live(t1)
  BY <1>0 DEF Trail
<1>3. ASSUME NEW n \in 0 .. m - 1 PROVE at[n] \in Live(t) /\ at[n + 1] = t[at[n]].parent
  <2>1. n + 1 \in 1..m /\ at[n] = b.ids[n + 1]
    BY <1>0, <1>2
  <2>2. /\ b.ids[n + 1] \in Live(t)
        /\ t[b.ids[n + 1]].parent = IF n + 1 < m THEN b.ids[(n + 1) + 1] ELSE b.up
    BY <2>1 DEF Consistent
  <2>3. CASE n + 1 < m
    <3>1. n + 1 \in 0 .. m - 1
      BY <1>0, <2>3
    <3> QED
      BY <1>2, <2>1, <2>2, <2>3, <3>1
  <2>4. CASE ~(n + 1 < m)
    <3>1. n + 1 = m
      BY <1>0, <2>4
    <3> QED
      BY <1>0, <2>1, <2>2, <2>4, <3>1
  <2> QED
    BY <2>3, <2>4
<1>4. ASSUME \A n \in 0 .. m - 1 : t1[at[n]].parent = t[at[n]].parent
      PROVE  Names(t1, Reading(at, k, b, t1), id)
  <2>1. ASSUME NEW n \in 0 .. k - 1
        PROVE  at[n] \in Live(t1) \ {Root} /\ at[n + 1] = t1[at[n]].parent
    <3>1. at[n] \in Live(t1) /\ Root \notin Live(t1)
      BY <1>2, NotRoot
    <3>2. CASE n < m
      <4>1. n \in 0 .. m - 1
        BY <1>0, <3>2
      <4> QED
        BY <1>3, <1>4, <3>1, <4>1
    <3>3. CASE ~(n < m)
      <4>1. n \in m .. k - 1
        BY <1>0, <3>3
      <4> QED
        BY <1>2, <3>1, <4>1
    <3> QED
      BY <3>2, <3>3
  <2>2. IsLine(at, k, t1, id, Root)
    BY <1>0, <2>1 DEF IsLine
  <2> QED
    BY <1>0, <1>1, <2>2, LineNames
<1>5. CASE SomeStay(t, t1)
  <2>1. \A n \in 0 .. m - 1 : t1[at[n]].parent = t[at[n]].parent
    <3> TAKE n \in 0 .. m - 1
    <3>1. n \in 0 .. k - 1
      BY <1>0
    <3>2. at[n] \in Live(t) \cap Live(t1)
      BY <1>2, <1>3, <3>1
    <3> QED
      BY <1>5, <3>2 DEF SomeStay
  <2> QED
    BY <1>4, <2>1
<1>6. ASSUME NEW x, Renamed(t, t1, x) PROVE Names(t1, Reading(at, k, b, t1), id)
  <2>1. \A c \in Live(t) : t1[c].parent = t[c].parent
    BY <1>6 DEF Renamed, Resettled
  <2> QED
    BY <1>3, <1>4, <2>1
<1>7. ASSUME NEW x, Moved(t, t1, x)
      PROVE  Names(t, Reading(at, k, b, t1), id) \/ Names(t1, Reading(at, k, b, t1), id)
  <2>1. /\ Live(t1) = Live(t) /\ \A c \in Live(t) \ {x} : t1[c] = t[c]
        /\ \A c \in Live(t) : t1[c].slug = t[c].slug
    BY <1>7 DEF Moved, Resettled
  <2>2. CASE \A n \in 0 .. m - 1 : at[n] # x
    <3>1. \A n \in 0 .. m - 1 : t1[at[n]].parent = t[at[n]].parent
      BY <1>3, <2>1, <2>2
    <3> QED
      BY <1>4, <3>1
  <2>3. ASSUME NEW i \in 0 .. m - 1, at[i] = x PROVE Names(t, Reading(at, k, b, t1), id)
    <3>1. ASSUME NEW j \in m .. k - 1, at[j] = x PROVE FALSE
      <4> DEFINE rest == [n \in 0 .. k - m |-> at[m + n]]
      <4>1. IsLine(rest, k - m, t1, b.up, Root)
        <5>1. k - m \in Nat /\ rest[0] = b.up /\ rest[k - m] = Root
          BY <1>0
        <5>2. ASSUME NEW n \in 0 .. (k - m) - 1
              PROVE  rest[n] \in Live(t1) \ {Root} /\ rest[n + 1] = t1[rest[n]].parent
          <6>1. m + n \in m .. k - 1 /\ m + n \in 0 .. k - 1 /\ (m + n) + 1 = m + (n + 1)
                /\ n \in 0 .. k - m /\ n + 1 \in 0 .. k - m
            <7> HIDE DEF m, rest
            <7> QED
              BY <1>0
          <6>2. rest[n] = at[m + n] /\ rest[n + 1] = at[m + (n + 1)]
            BY <6>1
          <6> HIDE DEF rest
          <6> QED
            BY <1>2, <6>1, <6>2
        <5> HIDE DEF rest
        <5> QED
          BY <5>1, <5>2 DEF IsLine
      <4>2. ASSUME NEW n \in m .. j - 1 PROVE at[n] # x
        <5>1. n - m \in 0 .. k - m /\ j - m \in 0 .. k - m /\ n - m # j - m
              /\ m + (n - m) = n /\ m + (j - m) = j
          <6> HIDE DEF m, rest
          <6> QED
            BY <1>0
        <5>2. rest[n - m] = at[n] /\ rest[j - m] = at[j]
          BY <5>1
        <5> HIDE DEF rest
        <5> QED
          BY <3>1, <4>1, <5>1, <5>2, LineDistinct
      <4> DEFINE round == [n \in 0 .. j - i |-> at[i + n]]
      <4>3. j - i \in Nat \ {0} /\ round[j - i] = round[0]
        BY <1>0, <2>3, <3>1
      <4>4. ASSUME NEW n \in 0 .. (j - i) - 1
            PROVE  round[n] \in Live(t) /\ round[n + 1] = t[round[n]].parent
        <5>1. n \in 0 .. j - i /\ n + 1 \in 0 .. j - i /\ (i + n) + 1 = i + (n + 1)
              /\ i + n \in 0 .. k - 1
          BY <1>0
        <5>2. round[n] = at[i + n] /\ round[n + 1] = at[i + (n + 1)]
          BY <5>1
        <5> HIDE DEF round
        <5>3. CASE i + n < m
          <6>1. i + n \in 0 .. m - 1
            BY <1>0, <5>3
          <6> QED
            BY <1>3, <5>1, <5>2, <6>1
        <5>4. CASE ~(i + n < m)
          <6>1. i + n \in m .. j - 1 /\ i + n \in m .. k - 1
            BY <1>0, <5>4
          <6>2. at[i + n] \in Live(t) \ {x}
            BY <1>2, <2>1, <4>2, <5>1, <6>1
          <6> QED
            BY <1>2, <2>1, <5>1, <5>2, <6>1, <6>2
        <5> QED
          BY <5>3, <5>4
      <4> HIDE DEF round
      <4> QED
        BY <4>3, <4>4, NoReturn
    <3>2. ASSUME NEW n \in m .. k - 1 PROVE at[n] \in Live(t) /\ at[n + 1] = t[at[n]].parent
      <4>1. n \in 0 .. k - 1 /\ at[n] # x
        BY <1>0, <3>1
      <4> QED
        BY <1>2, <2>1, <4>1
    <3>3. IsLine(at, k, t, id, Root)
      BY <1>0, <1>2, <3>2, TrailIsLine
    <3>4. LineSlugs(at, k, t) = LineSlugs(at, k, t1)
      <4>1. ASSUME NEW j \in 1..k PROVE t1[at[k - j]].slug = t[at[k - j]].slug
        <5>1. k - j \in 0 .. k - 1
          BY <1>0
        <5> QED
          BY <1>2, <2>1, <5>1
      <4> QED
        BY <4>1 DEF LineSlugs
    <3> QED
      BY <1>0, <1>1, <3>3, <3>4, LineNames
  <2> QED
    BY <2>2, <2>3
<1> QED
  BY <1>5, <1>6, <1>7

OneWrite(t, t1) == SomeStay(t, t1) \/ \E x : Renamed(t, t1, x) \/ Moved(t, t1, x)

LEMMA TornPromises ==
    ASSUME NEW t, NEW t1, Sound(t), Live(t1) \subseteq Cat, OneWrite(t, t1),
           NEW b, Shaped(b), Consistent(b, t),
           NEW x, Names(t, x.path, x.id) => x.current, Names(t1, x.path, x.id) => x.current
    PROVE  Promised(x, b, t1)
<1> SUFFICES ASSUME NEW at, NEW k, Trail(at, k, x.id, b, t1), Reading(at, k, b, t1) = x.path
             PROVE  x.current
  BY Zenon DEF Promised
<1>1. Names(t, x.path, x.id) \/ Names(t1, x.path, x.id)
  <2>1. CASE b.slugs = <<>>
    BY <2>1, ClimbTorn DEF OneWrite
  <2>2. CASE b.up = Root
    BY <2>2, SlugsTorn DEF OneWrite
  <2> QED
    BY <2>1, <2>2 DEF Shaped
<1> QED
  BY <1>1, Zenon

(* A lookup and its build: a reading that saw at most one write comes to   *)
(* no path the category did not have.                                      *)
Begins(x, b) == IF b.ids = <<>> THEN b.up = x.id ELSE b.ids[1] = x.id

Building(x, b, t) ==
    /\ Shaped(b) /\ Begins(x, b)
    /\ x.step = "climbing" => b.slugs = <<>>
    /\ x.step = "naming" => b.up = Root /\ Len(b.slugs) < Len(b.ids)
    /\ b.wrote = 0 => Consistent(b, t)
    /\ b.wrote < 2 => Promised(x, b, t)

Reads(x, b, t) ==
    /\ x.step \in {"climbing", "naming"} => Building(x, b, t)
    /\ x.step = "validated" /\ b.wrote < 2 => x.current

(* y is the lookup x but for its step.                                     *)
Alike(y, x) == y.path = x.path /\ y.id = x.id /\ y.current = x.current

LEMMA StartReads ==
    ASSUME NEW t, Sound(t), NEW x, x.step = "climbing", Names(t, x.path, x.id) => x.current,
           NEW b, b = [ids |-> <<>>, up |-> x.id, slugs |-> <<>>, wrote |-> 0]
    PROVE  Reads(x, b, t)
<1>1. b.ids = <<>> /\ b.up = x.id /\ b.slugs = <<>> /\ b.wrote = 0
  OBVIOUS
<1>2. <<>> \in Seq(Cat) /\ <<>> \in Seq(Slug) /\ Len(<<>>) = 0
  OBVIOUS
<1>3. Shaped(b)
  <2>1. b = [ids |-> b.ids, up |-> b.up, slugs |-> b.slugs, wrote |-> b.wrote]
    BY <1>1
  <2> QED
    BY <1>1, <1>2, <2>1 DEF Shaped, IsBuild
<1>4. Consistent(b, t)
  BY <1>1, <1>2 DEF Consistent
<1>5. OneWrite(t, t) /\ Live(t) \subseteq Cat
  BY DEF OneWrite, SomeStay, Sound
<1>6. Promised(x, b, t)
  BY <1>3, <1>4, <1>5, TornPromises
<1>7. Begins(x, b) /\ "climbing" # "naming" /\ "climbing" # "validated"
  BY <1>1 DEF Begins
<1> QED
  BY <1>1, <1>3, <1>4, <1>6, <1>7, Zenon DEF Reads, Building

LEMMA ClimbReads ==
    ASSUME NEW t, Sound(t), NEW x, NEW b, Building(x, b, t), x.step = "climbing",
           b.up \in Live(t),
           NEW y, Alike(y, x), y.step = IF t[b.up].parent = Root THEN "naming" ELSE "climbing",
           NEW c, c = [ids |-> Append(b.ids, b.up), up |-> t[b.up].parent,
                       slugs |-> b.slugs, wrote |-> b.wrote]
    PROVE  Reads(y, c, t)
<1> DEFINE m == Len(b.ids)
<1>0. /\ Shaped(b) /\ IsBuild(b) /\ b.slugs = <<>> /\ Begins(x, b) /\ m \in Nat
      /\ b.ids \in Seq(Cat) /\ b.wrote \in Nat /\ b.up \in Cat /\ b.up # Root
  BY NotRoot DEF Building, Shaped, IsBuild, Sound
<1>1. c.ids = Append(b.ids, b.up) /\ c.up = t[b.up].parent /\ c.slugs = <<>> /\ c.wrote = b.wrote
  BY <1>0
<1>2. /\ c.ids \in Seq(Cat) /\ Len(c.ids) = m + 1 /\ c.ids[m + 1] = b.up
      /\ \A n \in 1..m : c.ids[n] = b.ids[n]
  BY <1>0, <1>1
<1>3. Shaped(c)
  <2>1. <<>> \in Seq(Slug) /\ Len(<<>>) = 0
    OBVIOUS
  <2>2. c = [ids |-> c.ids, up |-> c.up, slugs |-> c.slugs, wrote |-> c.wrote]
    BY <1>1
  <2> QED
    BY <1>0, <1>1, <1>2, <2>1, <2>2 DEF Shaped, IsBuild
<1>4. Begins(y, c)
  <2>1. c.ids # <<>>
    BY <1>2
  <2>2. c.ids[1] = x.id
    <3>1. CASE b.ids = <<>>
      <4>1. m = 0
        BY <3>1
      <4> QED
        BY <1>0, <1>2, <3>1, <4>1 DEF Begins
    <3>2. CASE b.ids # <<>>
      <4>1. 1 \in 1..m
        BY <1>0, <3>2
      <4> QED
        BY <1>0, <1>2, <3>2, <4>1 DEF Begins
    <3> QED
      BY <3>1, <3>2
  <2> QED
    BY <2>1, <2>2 DEF Begins, Alike
<1>5. ASSUME b.wrote = 0 PROVE Consistent(c, t)
  <2>1. \A n \in 1..m : /\ b.ids[n] \in Live(t)
                        /\ t[b.ids[n]].parent = IF n < m THEN b.ids[n + 1] ELSE b.up
    BY <1>5 DEF Building, Consistent
  <2>2. ASSUME NEW n \in 1 .. m + 1
        PROVE  /\ c.ids[n] \in Live(t)
               /\ t[c.ids[n]].parent = IF n < m + 1 THEN c.ids[n + 1] ELSE c.up
    <3>1. CASE n = m + 1
      BY <1>0, <1>1, <1>2, <3>1
    <3>2. CASE n < m
      <4>1. n \in 1..m /\ n + 1 \in 1..m
        BY <1>0, <3>2
      <4> QED
        BY <1>2, <2>1, <3>2, <4>1
    <3>3. CASE n = m
      <4>1. n \in 1..m
        BY <1>0, <3>3
      <4> QED
        BY <1>2, <2>1, <3>3, <4>1
    <3> QED
      BY <1>0, <3>1, <3>2, <3>3
  <2>3. Len(c.slugs) = 0
    BY <1>1
  <2> QED
    BY <1>2, <2>2, <2>3 DEF Consistent
<1>6. ASSUME b.wrote < 2 PROVE Promised(y, c, t)
  <2> SUFFICES ASSUME NEW at, NEW k, Trail(at, k, y.id, c, t), Reading(at, k, c, t) = y.path
               PROVE  y.current
    BY Zenon DEF Promised
  <2>1. /\ k \in Nat \ {0} /\ m + 1 <= k /\ at[0] = x.id /\ at[m + 1] = c.up /\ at[k] = Root
        /\ \A n \in 0..m : at[n] = c.ids[n + 1]
        /\ \A n \in m + 1 .. k - 1 : at[n] # Root /\ at[n + 1] = t[at[n]].parent
        /\ \A n \in 0 .. k - Len(c.slugs) - 1 : at[n] \in Live(t)
    <3>1. (m + 1) - 1 = m
      BY <1>0
    <3> QED
      BY <1>2, <3>1 DEF Trail, Alike
  <2>2. at[m] = b.up /\ at[m + 1] = t[at[m]].parent
    BY <1>0, <1>1, <1>2, <2>1
  <2>3. \A n \in 0 .. m - 1 : at[n] = b.ids[n + 1]
    <3> TAKE n \in 0 .. m - 1
    <3>1. n \in 0..m /\ n + 1 \in 1..m
      BY <1>0
    <3> QED
      BY <1>2, <2>1, <3>1
  <2>4. \A n \in m .. k - 1 : at[n] # Root /\ at[n + 1] = t[at[n]].parent
    <3> TAKE n \in m .. k - 1
    <3>1. n = m \/ n \in m + 1 .. k - 1
      BY <1>0, <2>1
    <3> QED
      BY <1>0, <2>1, <2>2, <3>1
  <2>5. Trail(at, k, x.id, b, t)
    BY <1>0, <1>1, <2>1, <2>2, <2>3, <2>4 DEF Trail
  <2>6. Reading(at, k, b, t) = Reading(at, k, c, t)
    BY <1>0, <1>1 DEF Reading
  <2>7. Promised(x, b, t)
    BY <1>6 DEF Building
  <2> QED
    BY <2>5, <2>6, <2>7, Zenon DEF Promised, Alike
<1>7. y.step = "naming" => c.up = Root /\ Len(c.slugs) < Len(c.ids)
  <2>1. "climbing" # "naming" /\ Len(c.slugs) = 0
    BY <1>1
  <2> QED
    BY <1>0, <1>1, <1>2, <2>1
<1>8. Building(y, c, t)
  BY <1>1, <1>3, <1>4, <1>5, <1>6, <1>7, Zenon DEF Building
<1>9. y.step # "validated"
  OBVIOUS
<1> QED
  BY <1>8, <1>9 DEF Reads

(* One slug more: the trails are the same and read the same.               *)
LEMMA NameReads ==
    ASSUME NEW t, Sound(t), NEW x, NEW b, Building(x, b, t), x.step = "naming",
           NEW id, id = b.ids[Len(b.ids) - Len(b.slugs)], id \in Live(t),
           NEW c, c = [ids |-> b.ids, up |-> b.up, slugs |-> Append(b.slugs, t[id].slug),
                       wrote |-> b.wrote]
    PROVE  /\ Len(c.slugs) < Len(b.ids) => Reads(x, c, t)
           /\ Len(c.slugs) = Len(b.ids) /\ c.slugs = x.path /\ b.wrote < 2 => x.current
<1> DEFINE m == Len(b.ids)
           q == Len(b.slugs)
<1>0. /\ Shaped(b) /\ IsBuild(b) /\ b.up = Root /\ q < m /\ q \in Nat /\ m \in Nat
      /\ b.ids \in Seq(Cat) /\ b.slugs \in Seq(Slug) /\ b.wrote \in Nat /\ Begins(x, b)
      /\ t[id].slug \in Slug
  BY DEF Building, Shaped, IsBuild, Sound
<1>1. /\ c.ids = b.ids /\ c.up = Root /\ c.wrote = b.wrote
      /\ c.slugs = Append(b.slugs, t[id].slug)
  BY <1>0
<1>2. /\ c.slugs \in Seq(Slug) /\ Len(c.slugs) = q + 1 /\ c.slugs[q + 1] = t[id].slug
      /\ \A j \in 1..q : c.slugs[j] = b.slugs[j]
  BY <1>0, <1>1
<1>3. Shaped(c) /\ Begins(x, c)
  <2>1. c = [ids |-> c.ids, up |-> c.up, slugs |-> c.slugs, wrote |-> c.wrote]
    BY <1>1
  <2> QED
    BY <1>0, <1>1, <1>2, <2>1 DEF Shaped, IsBuild, Begins
<1>4. ASSUME b.wrote = 0 PROVE Consistent(c, t)
  <2>1. /\ \A n \in 1..m : /\ b.ids[n] \in Live(t)
                           /\ t[b.ids[n]].parent = IF n < m THEN b.ids[n + 1] ELSE b.up
        /\ \A j \in 1..q : b.slugs[j] = t[b.ids[m + 1 - j]].slug
    BY <1>4 DEF Building, Consistent
  <2>2. \A j \in 1 .. q + 1 : c.slugs[j] = t[b.ids[m + 1 - j]].slug
    <3> TAKE j \in 1 .. q + 1
    <3>1. CASE j = q + 1
      <4>1. m + 1 - j = m - q
        <5> HIDE DEF m, q
        <5> QED
          BY <1>0, <3>1
      <4> QED
        BY <1>2, <3>1, <4>1
    <3>2. CASE j # q + 1
      <4>1. j \in 1..q
        BY <1>0, <3>2
      <4> QED
        BY <1>2, <2>1, <4>1
    <3> QED
      BY <3>1, <3>2
  <2> QED
    BY <1>0, <1>1, <1>2, <2>1, <2>2 DEF Consistent
<1>5. ASSUME b.wrote < 2 PROVE Promised(x, c, t)
  <2> SUFFICES ASSUME NEW at, NEW k, Trail(at, k, x.id, c, t), Reading(at, k, c, t) = x.path
               PROVE  x.current
    BY Zenon DEF Promised
  <2>1. k = m
    BY <1>1, <1>3, TrailEnds DEF Shaped
  <2>2. /\ at[0] = x.id /\ at[m] = Root
        /\ \A n \in 0 .. m - 1 : at[n] = b.ids[n + 1]
        /\ \A n \in 0 .. m - (q + 1) - 1 : at[n] \in Live(t)
    BY <1>1, <1>2, <2>1 DEF Trail
  <2>3. at[m - q - 1] = id
    <3>1. m - q - 1 \in 0 .. m - 1 /\ (m - q - 1) + 1 = m - q
      <4> HIDE DEF m, q
      <4> QED
        BY <1>0
    <3> QED
      BY <2>2, <3>1
  <2>4. \A n \in 0 .. m - q - 1 : at[n] \in Live(t)
    <3> TAKE n \in 0 .. m - q - 1
    <3>1. n = m - q - 1 \/ n \in 0 .. m - (q + 1) - 1
      <4> HIDE DEF m, q
      <4> QED
        BY <1>0
    <3> QED
      BY <2>2, <2>3, <3>1
  <2>5. Trail(at, k, x.id, b, t)
    BY <1>0, <2>1, <2>2, <2>4 DEF Trail
  <2>6. ASSUME NEW j \in 1..k
        PROVE  (IF j <= q THEN b.slugs[j] ELSE t[at[k - j]].slug) =
               (IF j <= q + 1 THEN c.slugs[j] ELSE t[at[k - j]].slug)
    <3>1. CASE j <= q
      <4>1. j \in 1..q /\ j <= q + 1
        BY <1>0, <3>1
      <4> QED
        BY <1>2, <3>1, <4>1
    <3>2. CASE j = q + 1
      <4>1. ~(j <= q) /\ k - j = m - q - 1
        BY <1>0, <2>1, <3>2
      <4> QED
        BY <1>2, <2>3, <3>2, <4>1
    <3>3. CASE ~(j <= q + 1)
      <4>1. ~(j <= q)
        BY <1>0, <3>3
      <4> QED
        BY <3>3, <4>1
    <3> QED
      BY <1>0, <3>1, <3>2, <3>3
  <2>7. Reading(at, k, b, t) = Reading(at, k, c, t)
    BY <1>2, <2>6 DEF Reading
  <2>8. Promised(x, b, t)
    BY <1>5 DEF Building
  <2> QED
    BY <2>5, <2>7, <2>8, Zenon DEF Promised
<1>6. ASSUME Len(c.slugs) < m PROVE Reads(x, c, t)
  <2>1. "naming" # "climbing" /\ "naming" # "validated"
    OBVIOUS
  <2>2. Building(x, c, t)
    BY <1>1, <1>3, <1>4, <1>5, <1>6, <2>1, Zenon DEF Building
  <2> QED
    BY <2>1, <2>2 DEF Reads
<1>7. ASSUME Len(c.slugs) = m, c.slugs = x.path, b.wrote < 2 PROVE x.current
  <2> DEFINE at == [n \in 0..m |-> IF n < m THEN b.ids[n + 1] ELSE Root]
  <2>1. at[m] = Root /\ at[0] = x.id /\ \A n \in 0 .. m - 1 : at[n] = b.ids[n + 1]
    <3>1. b.ids # <<>> /\ 0 < m
      BY <1>0
    <3> QED
      BY <1>0, <3>1 DEF Begins
  <2> HIDE DEF at
  <2>2. Len(c.ids) = m /\ Len(c.ids) <= m /\ m \in Nat \ {0}
    BY <1>0, <1>1, <1>2, <1>7
  <2>3. Trail(at, m, x.id, c, t)
    <3>1. \A l \in Nat : (\A n \in 0 .. l - l - 1 : FALSE) /\ (\A n \in l .. l - 1 : FALSE)
      OBVIOUS
    <3>2. /\ \A n \in 0 .. m - Len(c.slugs) - 1 : at[n] \in Live(t)
          /\ \A n \in m .. m - 1 : at[n] # Root /\ at[n + 1] = t[at[n]].parent
      <4> HIDE DEF m
      <4> QED
        BY <1>7, <2>2, <3>1
    <3>3. /\ at[m] = c.up /\ at[Len(c.ids)] = c.up
          /\ \A n \in 0 .. Len(c.ids) - 1 : at[n] = c.ids[n + 1]
      <4> HIDE DEF m
      <4> QED
        BY <1>1, <2>1, <2>2
    <3> QED
      BY <2>1, <2>2, <3>2, <3>3 DEF Trail
  <2>4. Reading(at, m, c, t) = c.slugs
    BY <1>2, <1>7 DEF Reading
  <2> QED
    BY <1>5, <1>7, <2>3, <2>4, Zenon DEF Promised
<1> QED
  BY <1>6, <1>7, Zenon

(* Any of the four writes is one, in a tree of any depth.                  *)
LEMMA WriteIs ==
    ASSUME TreeInv, CreateCategory \/ RenameCategory \/ MoveCategory \/ DeleteCategory
    PROVE  TreeInv' /\ Witnessed(tree') /\ OneWrite(tree, tree')
<1>0. /\ Sound(tree) /\ Live(tree) \subseteq Cat /\ MaxCat \in Nat
      /\ nextCat \in Nat \ {0} /\ \A c \in Live(tree) : c < nextCat
  BY LimitAssumption DEF TreeInv, Sound
<1>1. CASE CreateCategory
  <2>1. PICK parent \in Live(tree) \cup {Root}, slug \in Slug :
          /\ nextCat <= MaxCat /\ nextCat' = nextCat + 1 /\ Witnessed(tree')
          /\ tree' = With(tree, nextCat, [parent |-> parent, slug |-> slug])
    BY <1>1 DEF CreateCategory, Written
  <2>2. PICK t1, id : t1 = With(tree, nextCat, [parent |-> parent, slug |-> slug]) /\ id = nextCat
    OBVIOUS
  <2>3. id \in Cat \ Live(tree)
    BY <1>0, <2>1, <2>2 DEF Cat
  <2>4. /\ Live(t1) = Live(tree) \cup {id} /\ \A c \in Live(tree) : t1[c] = tree[c]
        /\ t1[id] = [parent |-> parent, slug |-> slug]
    BY <2>2, <2>3 DEF With, Live
  <2>5. Grown(tree, t1, id, parent, slug)
    BY <2>3, <2>4 DEF Grown
  <2>6. Sound(t1) /\ SomeStay(tree, t1)
    BY <1>0, <2>4, <2>5, GrownIs DEF SomeStay
  <2>7. \A c \in Live(t1) : c < nextCat + 1
    BY <1>0, <2>2, <2>4 DEF Cat
  <2> QED
    BY <1>0, <2>1, <2>2, <2>6, <2>7 DEF TreeInv, OneWrite
<1>2. ASSUME NEW t1, NEW id, Resettling(t1, id), nextCat' = nextCat,
             t1[id].parent = tree[id].parent \/ t1[id].slug = tree[id].slug
      PROVE  TreeInv' /\ Witnessed(tree') /\ OneWrite(tree, tree')
  <2>1. /\ tree' = t1 /\ Resettled(tree, t1, id) /\ Witnessed(tree')
    BY <1>2, Zenon DEF Resettling, SwapPaths, Written
  <2>2. Sound(t1) /\ Live(t1) = Live(tree)
    BY <2>1, ResettledSound DEF Resettled
  <2>3. OneWrite(tree, t1)
    BY <1>2, <2>1 DEF OneWrite, Renamed, Moved
  <2> QED
    BY <1>0, <1>2, <2>1, <2>2, <2>3 DEF TreeInv
<1>3. CASE RenameCategory
  <2>1. PICK t1, id : /\ Resettling(t1, id) /\ t1[id].parent = tree[id].parent
                      /\ nextCat' = nextCat
    BY <1>0, <1>3, RenameResettles
  <2> QED
    BY <1>2, <2>1
<1>4. CASE MoveCategory
  <2>1. PICK t1, id : Resettling(t1, id) /\ t1[id].slug = tree[id].slug /\ nextCat' = nextCat
    BY <1>0, <1>4, MoveResettles
  <2> QED
    BY <1>2, <2>1
<1>5. CASE DeleteCategory
  <2>1. PICK id \in Live(tree) : /\ IsLeaf(id) /\ tree' = Without(tree, {id})
                                 /\ nextCat' = nextCat /\ Witnessed(tree')
    BY <1>5 DEF DeleteCategory, Written
  <2>2. PICK t1 : t1 = Without(tree, {id})
    OBVIOUS
  <2>3. Live(t1) = Live(tree) \ {id} /\ \A c \in Live(t1) : t1[c] = tree[c]
    BY <2>2 DEF Without, Restrict, Live
  <2>4. \A c \in Live(tree) : tree[c].parent # id
    <3>1. ListsAll(Children(tree, id), ChildSet(tree, id)) /\ Children(tree, id) = <<>>
      BY <1>0, <2>1, ChildrenAre DEF IsLeaf
    <3>2. ToSet(<<>>) = {}
      BY DEF ToSet
    <3>3. ChildSet(tree, id) = {}
      BY <3>1, <3>2 DEF ListsAll
    <3> QED
      BY <3>3 DEF ChildSet
  <2>5. Pruned(tree, t1, id)
    BY <2>3, <2>4 DEF Pruned
  <2>6. Sound(t1) /\ SomeStay(tree, t1)
    BY <1>0, <2>3, <2>5, PrunedIs DEF SomeStay
  <2> QED
    BY <1>0, <2>1, <2>2, <2>3, <2>6 DEF TreeInv, OneWrite
<1> QED
  BY <1>1, <1>3, <1>4, <1>5

ReadInv ==
    /\ TreeInv
    /\ Sees(reader, tree)
    /\ build = [r \in Reader |-> build[r]]
    /\ \A r \in Reader : Reads(reader[r], build[r], tree)

LEMMA WriteReads ==
    ASSUME ReadInv, CreateCategory \/ RenameCategory \/ MoveCategory \/ DeleteCategory
    PROVE  ReadInv'
<1>0. TreeInv /\ Sees(reader, tree) /\ Sound(tree)
  BY DEF ReadInv, TreeInv
<1>1. TreeInv' /\ Witnessed(tree') /\ OneWrite(tree, tree')
  BY <1>0, WriteIs
<1>2. Sees(reader', tree')
  BY <1>0, <1>1, WrittenSees
<1>3. reader' = LookupsOver(reader, tree')
  BY <1>1 DEF Witnessed, LookupsOver
<1>4. build' = [r \in Reader |->
          IF reader[r].step \in {"climbing", "naming"}
          THEN [build[r] EXCEPT !.wrote = IF @ = 0 THEN 1 ELSE 2] ELSE build[r]]
  BY <1>1 DEF Witnessed
<1>5. build' = [r \in Reader |-> build'[r]]
  BY <1>4
<1>6. ASSUME NEW r \in Reader PROVE Reads(reader'[r], build'[r], tree')
  <2>1. PICK t1, x, y, b, c : /\ t1 = tree' /\ x = reader[r] /\ y = reader'[r]
                              /\ b = build[r] /\ c = build'[r]
    OBVIOUS
  <2>2. IsOver(y, x, t1)
    <3>1. IsOver(LookupsOver(reader, t1)[r], reader[r], t1)
      BY <1>0, OverIs
    <3> QED
      BY <1>3, <2>1, <3>1
  <2>3. y.step = x.step /\ y.path = x.path /\ y.id = x.id /\ (x.current => y.current)
    BY <2>2, Zenon DEF IsOver
  <2>4. Reads(x, b, tree)
    BY <2>1 DEF ReadInv
  <2>5. c = IF x.step \in {"climbing", "naming"}
            THEN [b EXCEPT !.wrote = IF @ = 0 THEN 1 ELSE 2] ELSE b
    BY <1>4, <2>1
  <2>6. /\ x.step # "idle" /\ Names(tree, x.path, x.id) => x.current
        /\ y.step # "idle" /\ Names(t1, y.path, y.id) => y.current
    BY <1>0, <1>2, <2>1, Zenon DEF Sees
  <2>7. CASE x.step \in {"climbing", "naming"}
    <3>1. Building(x, b, tree) /\ Shaped(b) /\ IsBuild(b)
      BY <2>4, <2>7 DEF Reads, Building, Shaped
    <3>2. PICK w : w = IF b.wrote = 0 THEN 1 ELSE 2
      OBVIOUS
    <3>3. c = [ids |-> b.ids, up |-> b.up, slugs |-> b.slugs, wrote |-> w]
      BY <2>5, <2>7, <3>1, <3>2 DEF IsBuild
    <3>4. c.ids = b.ids /\ c.up = b.up /\ c.slugs = b.slugs /\ c.wrote = w
      BY <3>3
    <3>5. Shaped(c)
      <4>1. w \in Nat
        BY <3>2
      <4> QED
        BY <3>1, <3>3, <3>4, <4>1 DEF Shaped, IsBuild
    <3>6. ASSUME w < 2 PROVE Promised(y, c, t1)
      <4>1. Consistent(b, tree)
        BY <3>1, <3>2, <3>6 DEF Building
      <4>2. x.step # "idle" /\ y.step # "idle"
        BY <2>3, <2>7
      <4>3. /\ Names(tree, y.path, y.id) => y.current
            /\ Names(t1, y.path, y.id) => y.current
        BY <2>3, <2>6, <4>2, Zenon
      <4>4. Live(t1) \subseteq Cat /\ OneWrite(tree, t1)
        BY <1>1, <2>1 DEF TreeInv, Sound
      <4>5. Promised(y, b, t1)
        BY <1>0, <3>1, <4>1, <4>3, <4>4, TornPromises
      <4>6. \A at, k : Trail(at, k, y.id, c, t1) <=> Trail(at, k, y.id, b, t1)
        BY <3>4 DEF Trail
      <4>7. \A at, k : Reading(at, k, c, t1) = Reading(at, k, b, t1)
        BY <3>4 DEF Reading
      <4> QED
        BY <4>5, <4>6, <4>7, Zenon DEF Promised
    <3>7. Begins(y, c) /\ w # 0
      BY <2>3, <3>1, <3>2, <3>4 DEF Building, Begins
    <3>8. /\ y.step = "climbing" => c.slugs = <<>>
          /\ y.step = "naming" => c.up = Root /\ Len(c.slugs) < Len(c.ids)
      BY <2>3, <3>1, <3>4 DEF Building
    <3>9. Building(y, c, t1)
      BY <3>4, <3>5, <3>6, <3>7, <3>8, Zenon DEF Building
    <3>10. y.step # "validated"
      BY <2>3, <2>7
    <3> QED
      BY <2>1, <3>9, <3>10 DEF Reads
  <2>8. CASE x.step \notin {"climbing", "naming"}
    <3>1. c = b /\ y.step \notin {"climbing", "naming"}
      BY <2>3, <2>5, <2>8
    <3>2. y.step = "validated" /\ c.wrote < 2 => y.current
      BY <2>3, <2>4, <3>1, Zenon DEF Reads
    <3> QED
      BY <2>1, <3>1, <3>2, Zenon DEF Reads
  <2> QED
    BY <2>7, <2>8
<1> QED
  BY <1>1, <1>2, <1>5, <1>6 DEF ReadInv

(* The lookup of thread r alone goes on, to x with the build b.            *)
LEMMA OneReads ==
    ASSUME ReadInv, NEW r \in Reader, tree' = tree, nextCat' = nextCat, Sees(reader', tree),
           NEW x, NEW b, reader' = [reader EXCEPT ![r] = x], build' = [build EXCEPT ![r] = b],
           Reads(x, b, tree)
    PROVE  ReadInv'
<1>1. build = [q \in Reader |-> build[q]] /\ reader = [q \in Reader |-> reader[q]]
  BY DEF ReadInv, Sees
<1>2. build' = [q \in Reader |-> build'[q]]
  BY <1>1
<1>3. ASSUME NEW q \in Reader PROVE Reads(reader'[q], build'[q], tree)
  <2>1. CASE q = r
    <3>1. reader'[q] = x /\ build'[q] = b
      BY <1>1, <2>1
    <3> QED
      BY <3>1
  <2>2. CASE q # r
    <3>1. reader'[q] = reader[q] /\ build'[q] = build[q]
      BY <1>1, <2>2
    <3> QED
      BY <3>1 DEF ReadInv
  <2> QED
    BY <2>1, <2>2
<1> QED
  BY <1>2, <1>3 DEF ReadInv, TreeInv

LEMMA PlainReads ==
    ASSUME NEW x, x.step \in {"idle", "found", "answered"}, NEW b, NEW t
    PROVE  Reads(x, b, t)
BY DEF Reads

LEMMA BuildStepped ==
    ASSUME NEW b, IsBuild(b), NEW i, NEW u, NEW s
    PROVE  /\ [b EXCEPT !.ids = i, !.up = u] =
                 [ids |-> i, up |-> u, slugs |-> b.slugs, wrote |-> b.wrote]
           /\ [b EXCEPT !.slugs = s] =
                 [ids |-> b.ids, up |-> b.up, slugs |-> s, wrote |-> b.wrote]
<1>1. PICK i0, u0, s0, w0 : b = [ids |-> i0, up |-> u0, slugs |-> s0, wrote |-> w0]
  BY Zenon DEF IsBuild
<1>2. b.ids = i0 /\ b.up = u0 /\ b.slugs = s0 /\ b.wrote = w0
  BY <1>1
<1>3. [b EXCEPT !.slugs = s] = [ids |-> i0, up |-> u0, slugs |-> s, wrote |-> w0]
  BY <1>1
<1>4. PICK d : d = [b EXCEPT !.ids = i]
  OBVIOUS
<1>5. d = [ids |-> i, up |-> u0, slugs |-> s0, wrote |-> w0]
  BY <1>1, <1>4
<1>6. [d EXCEPT !.up = u] = [ids |-> i, up |-> u, slugs |-> s0, wrote |-> w0]
  BY <1>5
<1> QED
  BY <1>2, <1>3, <1>4, <1>6, Zenon

LEMMA LookupReads ==
    ASSUME ReadInv, NEW r \in Reader, LookupSearch(r) \/ LookupGoesOn(r)
    PROVE  ReadInv'
<1> DEFINE x == reader[r]
           b == build[r]
<1>0. /\ Sound(tree) /\ Sees(reader, tree) /\ Reads(x, b, tree) /\ IsLookup(x)
      /\ x.step # "idle" /\ Names(tree, x.path, x.id) => x.current
      /\ build = [q \in Reader |-> build[q]] /\ reader = [q \in Reader |-> reader[q]]
  BY Zenon DEF ReadInv, Sees, TreeInv
<1>1. tree' = tree /\ nextCat' = nextCat
  BY LookupMoves DEF LookupSearch, directory
<1>2. Sees(reader', tree)
  BY <1>0, SearchSees, MoveSees
<1>3. build = [build EXCEPT ![r] = b] /\ reader = [reader EXCEPT ![r] = x]
  BY <1>0
<1>4. ASSUME NEW y, NEW c, reader' = [reader EXCEPT ![r] = y],
             build' = [build EXCEPT ![r] = c], Reads(y, c, tree)
      PROVE  ReadInv'
  <2> HIDE DEF x, b
  <2> QED
    BY <1>1, <1>2, <1>4, OneReads
<1>5. CASE LookupSearch(r)
  <2>1. PICK p, id : reader' = [reader EXCEPT ![r] =
                        [step |-> "found", path |-> p, id |-> id, current |-> Names(tree, p, id)]]
    BY <1>5, Zenon DEF LookupSearch
  <2>2. PICK now, y : /\ now = Names(tree, p, id)
                      /\ y = [step |-> "found", path |-> p, id |-> id, current |-> now]
    OBVIOUS
  <2>3. reader' = [reader EXCEPT ![r] = y]
    BY <2>1, <2>2, Zenon
  <2>4. Reads(y, b, tree)
    <3>1. y.step \in {"idle", "found", "answered"}
      BY <2>2
    <3> QED
      BY <3>1, PlainReads
  <2>5. build' = [build EXCEPT ![r] = b]
    BY <1>3, <1>5 DEF LookupSearch
  <2> QED
    BY <1>4, <2>3, <2>4, <2>5
<1>6. CASE LookupEnds(r)
  <2>1. Reads(NoReader, NoBuild, tree)
    BY PlainReads DEF NoReader
  <2> QED
    BY <1>4, <1>6, <2>1 DEF LookupEnds
<1>7. CASE LookupAnswer(r)
  <2>1. ASSUME NEW s PROVE [x EXCEPT !.step = s].step = s /\ Alike([x EXCEPT !.step = s], x)
    <3> HIDE DEF x
    <3> QED
      BY <1>0, Stepped DEF Alike
  <2>2. CASE reader' = [reader EXCEPT ![r].step = "answered"] /\ build' = build
    <3>1. PICK y : y = [x EXCEPT !.step = "answered"]
      OBVIOUS
    <3>2. Reads(y, b, tree)
      <4>1. y.step \in {"idle", "found", "answered"}
        BY <2>1, <3>1
      <4> QED
        BY <4>1, PlainReads
    <3>3. reader' = [reader EXCEPT ![r] = y] /\ build' = [build EXCEPT ![r] = b]
      BY <1>3, <2>2, <3>1
    <3> QED
      BY <1>4, <3>2, <3>3
  <2>3. CASE /\ reader' = [reader EXCEPT ![r].step = "climbing"]
             /\ build' = [build EXCEPT ![r] = [NoBuild EXCEPT !.up = x.id]]
    <3>1. PICK y, c : y = [x EXCEPT !.step = "climbing"] /\ c = [NoBuild EXCEPT !.up = x.id]
      OBVIOUS
    <3>2. y.step = "climbing" /\ Alike(y, x)
      BY <2>1, <3>1
    <3>3. c = [ids |-> <<>>, up |-> y.id, slugs |-> <<>>, wrote |-> 0]
      BY <3>1, <3>2 DEF NoBuild, Alike
    <3>4. Names(tree, y.path, y.id) => y.current
      <4>1. x.step # "idle"
        BY <1>7 DEF LookupAnswer
      <4> HIDE DEF x
      <4> QED
        BY <1>0, <3>2, <4>1, Zenon DEF Alike
    <3>5. Reads(y, c, tree)
      BY <1>0, <3>2, <3>3, <3>4, StartReads
    <3>6. reader' = [reader EXCEPT ![r] = y] /\ build' = [build EXCEPT ![r] = c]
      BY <2>3, <3>1
    <3> QED
      BY <1>4, <3>5, <3>6
  <2> QED
    BY <1>7, <2>2, <2>3, Zenon DEF LookupAnswer
<1>8. CASE LookupClimb(r)
  <2>1. x.step = "climbing" /\ Building(x, b, tree)
    BY <1>0, <1>8 DEF LookupClimb, Reads
  <2>2. CASE /\ b.up \in Live(tree)
             /\ build' = [build EXCEPT ![r].ids = Append(@, b.up), ![r].up = tree[b.up].parent]
             /\ reader' = [reader EXCEPT ![r].step =
                              IF tree[b.up].parent = Root THEN "naming" ELSE "climbing"]
    <3>1. PICK s, y : /\ s = (IF tree[b.up].parent = Root THEN "naming" ELSE "climbing")
                      /\ y = [x EXCEPT !.step = s]
      OBVIOUS
    <3>2. y.step = s /\ Alike(y, x)
      <4> HIDE DEF x
      <4> QED
        BY <1>0, <3>1, Stepped DEF Alike
    <3>3. PICK c : c = [ids |-> Append(b.ids, b.up), up |-> tree[b.up].parent,
                        slugs |-> b.slugs, wrote |-> b.wrote]
      OBVIOUS
    <3>4. Reads(y, c, tree)
      <4> HIDE DEF x, b
      <4> QED
        BY <1>0, <2>1, <2>2, <3>1, <3>2, <3>3, ClimbReads
    <3>5. build' = [build EXCEPT ![r] = c]
      <4>1. IsBuild(b)
        BY <2>1 DEF Building, Shaped
      <4>2. [b EXCEPT !.ids = Append(@, b.up), !.up = tree[b.up].parent] = c
        <5> HIDE DEF b
        <5> QED
          BY <3>3, <4>1, BuildStepped, Zenon
      <4>3. build' = [build EXCEPT ![r] = [b EXCEPT !.ids = Append(@, b.up), !.up = tree[b.up].parent]]
        BY <1>0, <2>2
      <4> QED
        BY <4>2, <4>3
    <3>6. reader' = [reader EXCEPT ![r] = y]
      BY <2>2, <3>1
    <3> QED
      BY <1>4, <3>4, <3>5, <3>6
  <2> QED
    BY <1>6, <1>8, <2>2, Zenon DEF LookupClimb
<1>9. CASE LookupName(r)
  <2>1. x.step = "naming" /\ Building(x, b, tree)
    BY <1>0, <1>9 DEF LookupName, Reads
  <2>2. PICK id, slugs, c :
          /\ id = b.ids[Len(b.ids) - Len(b.slugs)] /\ slugs = Append(b.slugs, tree[id].slug)
          /\ c = [ids |-> b.ids, up |-> b.up, slugs |-> slugs, wrote |-> b.wrote]
    OBVIOUS
  <2>3. c.slugs = slugs
    BY <2>2
  <2>4. ASSUME id \in Live(tree)
        PROVE  /\ Len(slugs) < Len(b.ids) => Reads(x, c, tree)
               /\ Len(slugs) = Len(b.ids) /\ slugs = x.path /\ b.wrote < 2 => x.current
    <3>1. c = [ids |-> b.ids, up |-> b.up, slugs |-> Append(b.slugs, tree[id].slug),
               wrote |-> b.wrote]
      BY <2>2
    <3>2. id = b.ids[Len(b.ids) - Len(b.slugs)]
      BY <2>2
    <3> HIDE DEF x, b
    <3>4. Sound(tree)
      BY <1>0
    <3>5. Building(x, b, tree)
      BY <2>1
    <3>6. x.step = "naming"
      BY <2>1
    <3>3. /\ Len(c.slugs) < Len(b.ids) => Reads(x, c, tree)
          /\ Len(c.slugs) = Len(b.ids) /\ c.slugs = x.path /\ b.wrote < 2 => x.current
      BY <2>4, <3>1, <3>2, <3>4, <3>5, <3>6, NameReads, Zenon
    <3> QED
      BY <2>3, <3>3, Zenon
  <2>5. CASE /\ id \in Live(tree) /\ Len(slugs) < Len(b.ids)
             /\ build' = [build EXCEPT ![r].slugs = slugs] /\ reader' = reader
    <3>1. build' = [build EXCEPT ![r] = c]
      <4>1. IsBuild(b)
        BY <2>1 DEF Building, Shaped
      <4>2. [b EXCEPT !.slugs = slugs] = c
        <5> HIDE DEF b
        <5> QED
          BY <2>2, <4>1, BuildStepped, Zenon
      <4>3. build' = [build EXCEPT ![r] = [b EXCEPT !.slugs = slugs]]
        BY <2>5
      <4> QED
        BY <4>2, <4>3
    <3> QED
      BY <1>3, <1>4, <2>4, <2>5, <3>1
  <2>6. CASE /\ id \in Live(tree) /\ Len(slugs) = Len(b.ids) /\ slugs = x.path
             /\ reader' = [reader EXCEPT ![r].step = "validated"]
             /\ build' = [build EXCEPT ![r] = [NoBuild EXCEPT !.wrote = b.wrote]]
    <3>1. PICK y, e : y = [x EXCEPT !.step = "validated"] /\ e = [NoBuild EXCEPT !.wrote = b.wrote]
      OBVIOUS
    <3>2. y.step = "validated" /\ Alike(y, x)
      <4> HIDE DEF x
      <4> QED
        BY <1>0, <3>1, Stepped DEF Alike
    <3>3. e.wrote = b.wrote
      BY <3>1 DEF NoBuild
    <3>4. Reads(y, e, tree)
      <4>1. "validated" \notin {"climbing", "naming"}
        OBVIOUS
      <4> HIDE DEF x, b
      <4> QED
        BY <2>4, <2>6, <3>2, <3>3, <4>1, Zenon DEF Reads, Alike
    <3>5. reader' = [reader EXCEPT ![r] = y] /\ build' = [build EXCEPT ![r] = e]
      BY <2>6, <3>1
    <3> QED
      BY <1>4, <3>4, <3>5
  <2> QED
    BY <1>6, <1>9, <2>2, <2>5, <2>6, Zenon DEF LookupName
<1>10. CASE LookupReturn(r)
  BY <1>6, <1>10 DEF LookupReturn
<1> QED
  BY <1>5, <1>7, <1>8, <1>9, <1>10 DEF LookupGoesOn

LEMMA ReadStep == ReadInv /\ [Next]_vars => ReadInv'
<1> SUFFICES ASSUME ReadInv, [Next]_vars PROVE ReadInv'
  OBVIOUS
<1>1. CASE CreateCategory \/ RenameCategory \/ MoveCategory \/ DeleteCategory
  BY <1>1, WriteReads
<1>2. CASE WorkerStart \/ WorkerChunk \/ WorkerComplete \/ Rebuild \/ UNCHANGED vars
  <2>1. tree' = tree /\ nextCat' = nextCat /\ reader' = reader /\ build' = build
    BY <1>2, Zenon DEF WorkerStart, WorkerChunk, WorkerComplete, Rebuild, vars, directory, lookups
  <2> QED
    BY <2>1 DEF ReadInv, TreeInv
<1>3. CASE Restart
  <2>1. /\ tree' = tree /\ nextCat' = nextCat /\ reader' = [r \in Reader |-> NoReader]
        /\ build' = [r \in Reader |-> NoBuild]
    BY <1>3 DEF Restart
  <2>2. Sees(reader', tree)
    BY <2>1, IdleLookup, Zenon DEF Sees
  <2>3. Reads(NoReader, NoBuild, tree)
    BY PlainReads DEF NoReader
  <2>4. \A r \in Reader : Reads(reader'[r], build'[r], tree)
    BY <2>1, <2>3
  <2>5. build' = [r \in Reader |-> build'[r]]
    BY <2>1
  <2> QED
    BY <2>1, <2>2, <2>4, <2>5 DEF ReadInv, TreeInv
<1>4. ASSUME NEW r \in Reader, LookupSearch(r) \/ LookupGoesOn(r) PROVE ReadInv'
  BY <1>4, LookupReads
<1> QED
  BY <1>1, <1>2, <1>3, <1>4, Zenon DEF Next, LookupGoesOn

(* A lookup that still finds a repair pending when it has its match reads  *)
(* the ids of the chain of parents one record at a time, then the slugs    *)
(* one record at a time, with no lock; writes come between any two reads.  *)
(* It answers with a category that had the name while it looked, whatever  *)
(* stale entry it matched, as long as at most one write met the reading:   *)
(* a path put together of the tree before a write and the tree after it is *)
(* a path of one of the two.  Two writes are too many, see the README.     *)
(* For every depth of the tree, depth cap, threshold, chunk size and       *)
(* number of threads.                                                      *)
THEOREM ValidatedAnswersAreCurrent == Spec => []ValidatedLookupsAreCurrent
<1>1. Init => ReadInv
  <2> SUFFICES ASSUME Init PROVE ReadInv
    OBVIOUS
  <2>1. /\ tree = <<>> /\ nextCat = 1 /\ reader = [r \in Reader |-> NoReader]
        /\ build = [r \in Reader |-> NoBuild]
    BY DEF Init
  <2>2. Live(tree) = {}
    BY <2>1 DEF Live
  <2>3. TreeInv
    BY <2>1, <2>2 DEF TreeInv, Sound
  <2>4. Sees(reader, tree)
    BY <2>1, IdleLookup, Zenon DEF Sees
  <2>5. Reads(NoReader, NoBuild, tree)
    BY PlainReads DEF NoReader
  <2>6. \A r \in Reader : Reads(reader[r], build[r], tree)
    BY <2>1, <2>5
  <2>7. build = [r \in Reader |-> build[r]]
    BY <2>1
  <2> QED
    BY <2>3, <2>4, <2>6, <2>7 DEF ReadInv
<1>2. ReadInv => ValidatedLookupsAreCurrent
  BY DEF ReadInv, Reads, ValidatedLookupsAreCurrent
<1> QED
  BY <1>1, <1>2, ReadStep, PTL DEF Spec
=============================================================================
