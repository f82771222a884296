--------------------------- MODULE CategoryCounts ---------------------------
(***************************************************************************)
(* The counts stored in a category record: its links and children, and     *)
(* those of its whole subtree.  They are columns kept by deltas: a write   *)
(* walks up the parents, puts a delta for each ancestor into its change    *)
(* set, and apply adds the deltas to the records, never below zero         *)
(* (collect_ancestor_updates, cascade_ancestor_counts).  A boot of a store *)
(* without derived_counts_version recounts all of them from the indexes    *)
(* (recompute_category_counts).                                            *)
(*                                                                         *)
(* Every write holds write_mutex from its first read to the end of apply   *)
(* and is one step.  That the indexes follow the records is LinkIndex's    *)
(* and SlugPaths' concern, so that one function stands for both; what      *)
(* replay does to the counts is CommitRecovery's.                          *)
(***************************************************************************)
EXTENDS Integers, FiniteSetsExt

CONSTANTS
    DepthMax,     \* depth_max of operations_shared.zig
    MaxCategory,  \* bound: category ids ever issued
    MaxLink,      \* bound: link ids ever issued
    MaxDeep       \* bound: writes while the counts may drift

ASSUME CountsAssumption ==
    /\ DepthMax \in Nat \ {0}
    /\ MaxCategory \in Nat /\ MaxLink \in Nat /\ MaxDeep \in Nat

VARIABLES
    parent,    \* categories_by_id and cat_by_parent: live category -> its parent
    home,      \* links_by_id and link_by_category: live link -> its category
    counts,    \* the four count columns of each live category
    nextCat,   \* Directory.next_category_id
    nextLink,  \* Directory.next_link_id
    deep       \* history: writes since a category came below level DepthMax,
               \* that one included; 0 if none has since the last recount

vars == <<parent, home, counts, nextCat, nextLink, deep>>

Category == 1..MaxCategory
LinkId == 1..MaxLink
Root == 0    \* no category: the parent of a top one, the home of a loose link
Cats == DOMAIN parent
Links == DOMAIN home
Counts == [links : Nat, children : Nat, linksBelow : Nat, childrenBelow : Nat]
Zero == [links |-> 0, children |-> 0, linksBelow |-> 0, childrenBelow |-> 0]

(* f without key k; f with key k set to v.                                 *)
Without(f, k) == [x \in DOMAIN f \ {k} |-> f[x]]
With(f, k, v) == [x \in DOMAIN f \cup {k} |-> IF x = k THEN v ELSE f[x]]

-----------------------------------------------------------------------------
(* The walk up the parents.                                                *)

(* The categories on the chain from id upwards: id, and limit - 1 above.   *)
Chain(up, id, limit) ==
    LET at[n \in 0..limit] ==
            IF n = 0 THEN id
            ELSE IF at[n - 1] \in DOMAIN up THEN up[at[n - 1]] ELSE Root
    IN  ({id} \cup {at[n] : n \in 1 .. limit - 1}) \ {Root}

(* Level 1 is a top category; nothing is deeper than there are categories. *)
Level(up, id) == Cardinality(Chain(up, id, MaxCategory))

(* collect_ancestor_updates: depth_max levels, the starting one included.  *)
Ancestors(id) == Chain(parent, id, DepthMax)

(* apply_delta: saturating at zero.                                        *)
AddDelta(count, delta) == IF count + delta < 0 THEN 0 ELSE count + delta

(* cascade_ancestor_counts: dLinks and dChildren go to the subtree columns *)
(* of every ancestor, direct to one column of the first of them.           *)
Cascade(cs, ancestors, target, dLinks, dChildren, direct) ==
    [c \in DOMAIN cs |->
        IF c \notin ancestors THEN cs[c]
        ELSE [links |-> AddDelta(cs[c].links, IF c = target THEN direct.links ELSE 0),
              children |-> AddDelta(cs[c].children, IF c = target THEN direct.children ELSE 0),
              linksBelow |-> AddDelta(cs[c].linksBelow, dLinks),
              childrenBelow |-> AddDelta(cs[c].childrenBelow, dChildren)]]

(* What the direct parent of a link or a child is given besides.           *)
Link(by) == [links |-> by, children |-> 0]
ChildWhenAdded(by) ==    \* mutant: a child that goes is still counted
    [links |-> 0, children |-> IF by > 0 THEN by ELSE 0]

Child(by) == [links |-> 0, children |-> by]

TooDeep(up) == \E c \in DOMAIN up : Level(up, c) > DepthMax

(* A write: the counts may drift without bound once the tree is too deep.  *)
Write ==
    /\ deep <= MaxDeep
    /\ deep' = IF deep > 0 \/ TooDeep(parent') THEN deep + 1 ELSE 0

Init ==
    /\ parent = <<>> /\ home = <<>> /\ counts = <<>>
    /\ nextCat = 1 /\ nextLink = 1 /\ deep = 0

-----------------------------------------------------------------------------
(* Categories.                                                             *)

(* A path of more than DepthMax slugs cannot be built: PathTooDeep.        *)
PathBuilds(id) == Level(parent, id) <= DepthMax

(* create_category: its parent's path is built, its own is one longer.     *)
CreateCategory ==
    /\ nextCat <= MaxCategory
    /\ \E under \in Cats \cup {Root} :
        /\ PathBuilds(under)
        /\ parent' = With(parent, nextCat, under)
        /\ counts' = With(Cascade(counts, Ancestors(under), under, 0, 1, Child(1)),
                          nextCat, Zero)
    /\ nextCat' = nextCat + 1
    /\ UNCHANGED <<home, nextLink>>
    /\ Write

(* What a moved category takes from its old ancestors to its new ones.     *)
SubtreeChildrenWithoutSelf(id) == counts[id].childrenBelow    \* mutant

SubtreeChildren(id) == counts[id].childrenBelow + 1

(* move_category: not under itself, and both paths must build.  Its old    *)
(* ancestors lose what its record counts, then the new ones gain it.       *)
MoveCategory ==
    /\ \E id \in Cats, under \in Cats \cup {Root} :
        /\ under # parent[id]
        /\ id \notin Chain(parent, under, MaxCategory)
        /\ PathBuilds(under) /\ PathBuilds(id)
        /\ parent' = With(parent, id, under)
        /\ LET links == counts[id].linksBelow
               children == SubtreeChildren(id)
               left == Cascade(counts, Ancestors(parent[id]), parent[id],
                               -links, -children, Child(-1))
           IN  counts' = Cascade(left, Ancestors(under), under, links, children, Child(1))
    /\ UNCHANGED <<home, nextCat, nextLink>>
    /\ Write

(* delete_category, once its links are deleted: no children may be left.   *)
(* Its ancestors lose the links its record still counts.                   *)
DeleteCategory ==
    /\ \E id \in Cats :
        /\ \A c \in Cats : parent[c] # id
        /\ \A l \in Links : home[l] # id
        /\ PathBuilds(id)
        /\ parent' = Without(parent, id)
        /\ counts' = Cascade(Without(counts, id), Ancestors(parent[id]), parent[id],
                             -counts[id].linksBelow, -1, Child(-1))
    /\ UNCHANGED <<home, nextCat, nextLink>>
    /\ Write

-----------------------------------------------------------------------------
(* Links.                                                                  *)

CreateLink ==
    /\ nextLink <= MaxLink
    /\ \E in \in Cats \cup {Root} :
        /\ home' = With(home, nextLink, in)
        /\ counts' = Cascade(counts, Ancestors(in), in, 1, 0, Link(1))
    /\ nextLink' = nextLink + 1
    /\ UNCHANGED <<parent, nextCat>>
    /\ Write

MoveLink ==
    /\ \E link \in Links, to \in Cats :
        /\ home[link] # to
        /\ home' = With(home, link, to)
        /\ counts' = Cascade(Cascade(counts, Ancestors(home[link]), home[link], -1, 0, Link(-1)),
                             Ancestors(to), to, 1, 0, Link(1))
    /\ UNCHANGED <<parent, nextCat, nextLink>>
    /\ Write

DeleteLink ==
    /\ \E link \in Links :
        /\ home' = Without(home, link)
        /\ counts' = Cascade(counts, Ancestors(home[link]), home[link], -1, 0, Link(-1))
    /\ UNCHANGED <<parent, nextCat, nextLink>>
    /\ Write

-----------------------------------------------------------------------------
(* The recount.                                                            *)

DirectLinks(id) == Cardinality({l \in Links : home[l] = id})
ChildrenOf(id) == {c \in Cats : parent[c] = id}

(* compute_category_counts_subtree: every child is aggregated before its   *)
(* parent, and the parent adds up its children.                            *)
Aggregate ==
    LET agg[id \in Cats] ==
            [links |-> DirectLinks(id) +
                       MapThenSumSet(LAMBDA c : agg[c].links, ChildrenOf(id)),
             children |-> MapThenSumSet(LAMBDA c : 1 + agg[c].children, ChildrenOf(id))]
    IN  agg

(* recompute_category_counts of recount_derived_counts, on a boot that     *)
(* finds an older derived_counts_version.                                  *)
RecountDirect ==    \* mutant: only the links and children of its own
    /\ counts' = [id \in Cats |->
            [counts[id] EXCEPT !.links = DirectLinks(id),
                               !.children = Cardinality(ChildrenOf(id))]]
    /\ deep' = IF TooDeep(parent) THEN 1 ELSE 0
    /\ UNCHANGED <<parent, home, nextCat, nextLink>>

Recount ==
    /\ LET agg == Aggregate
       IN  counts' = [id \in Cats |->
            [links |-> DirectLinks(id), children |-> Cardinality(ChildrenOf(id)),
             linksBelow |-> agg[id].links, childrenBelow |-> agg[id].children]]
    /\ deep' = IF TooDeep(parent) THEN 1 ELSE 0
    /\ UNCHANGED <<parent, home, nextCat, nextLink>>

Next ==
    \/ CreateCategory \/ MoveCategory \/ DeleteCategory
    \/ CreateLink \/ MoveLink \/ DeleteLink \/ Recount

Spec == Init /\ [][Next]_vars

-----------------------------------------------------------------------------
(* Correctness.                                                            *)

(* Every variable has its type, ids in use were issued, and the parents    *)
(* and homes that are named exist.                                         *)
TypeOK ==
    /\ nextCat \in 1 .. MaxCategory + 1 /\ nextLink \in 1 .. MaxLink + 1
    /\ Cats \subseteq 1 .. nextCat - 1 /\ Links \subseteq 1 .. nextLink - 1
    /\ parent \in [Cats -> Cats \cup {Root}]
    /\ home \in [Links -> Cats \cup {Root}]
    /\ counts \in [Cats -> Counts]
    /\ deep \in 0 .. MaxDeep + 1

(* The categories of the subtree of id, id included.                       *)
Subtree(id) == {c \in Cats : id \in Chain(parent, c, MaxCategory)}

BelowExact(id) ==
    /\ counts[id].linksBelow = Cardinality({l \in Links : home[l] \in Subtree(id)})
    /\ counts[id].childrenBelow = Cardinality(Subtree(id)) - 1

(* link_count and child_count are exact at every depth: the direct parent  *)
(* is the first of a walk, and is reached however short the walk is cut.   *)
DirectCountsExact ==
    \A id \in Cats :
        /\ counts[id].links = DirectLinks(id)
        /\ counts[id].children = Cardinality(ChildrenOf(id))

(* link_count_subtree and child_count_subtree are what a count of the      *)
(* subtree gives, after any sequence of creates, moves and deletes, unless *)
(* a category has been deeper than the walk goes.                          *)
SubtreeCountsExact == deep > 0 \/ \A id \in Cats : BelowExact(id)

(* A recount makes all of them exact, whatever drift it finds and however  *)
(* deep the tree is.                                                       *)
RecountIsExact == [][Recount => \A id \in Cats : BelowExact(id)']_vars
=============================================================================
