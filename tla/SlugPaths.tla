----------------------------- MODULE SlugPaths -----------------------------
(***************************************************************************)
(* Slug paths: categories_by_slug_path and categories_by_slug_only, kept   *)
(* by every category write (operations_category.zig, apply_category.zig),  *)
(* the repair queue a large rename or move leaves behind, the worker that  *)
(* drains it in chunks (repair_worker.zig), the rebuild of both indexes    *)
(* (repair.zig) and the lookup that reads them without a lock.             *)
(*                                                                         *)
(* A path is the sequence of its slugs.  Every write, and every chunk of   *)
(* the worker, holds write_mutex from its first read to the end of apply   *)
(* and is one step; its durability is CommitRecovery's concern.  One page  *)
(* of children (256) holds all the children of a category.                 *)
(***************************************************************************)
EXTENDS Naturals, SequencesExt

CONSTANTS
    Slug,        \* the slugs a category may carry
    Top,         \* the slug "top"
    Threshold,   \* config.rename_inline_threshold
    ChunkSize,   \* config.repair_worker_chunk_size
    DepthMax,    \* depth_max of operations_shared.zig
    Reader,      \* request threads that look paths up
    MaxCat,      \* bound: categories ever created
    MaxWrites,   \* bound: category writes in a behaviour
    MaxRestarts  \* bound: restarts of the process and rebuilds of the indexes

ASSUME SlugAssumption == Top \in Slug
ASSUME LimitAssumption ==
    /\ Threshold \in Nat /\ ChunkSize \in Nat \ {0} /\ DepthMax \in Nat \ {0}
    /\ MaxCat \in Nat /\ MaxWrites \in Nat /\ MaxRestarts \in Nat

VARIABLES
    tree,       \* categories_by_id and cat_by_parent: id -> parent and slug
    nextCat,    \* Directory.next_category_id
    pathIndex,  \* categories_by_slug_path
    slugOnly,   \* categories_by_slug_only
    queue,      \* slug_path_repair_queue in seq order
    worker,     \* repair worker: whether in a task, and the stack of its walk
    reader,     \* each lookup between its index search and its answer
    build,      \* the path it builds: the ids it read, from the category up,
                \* the next one, and the slugs it read, from the top down;
                \* and how many writes came between (two or more as two)
    disturbed,  \* history: a write met what a queued task was about while the
                \* task was queued
    writes,     \* number of writes so far
    restarts    \* number of restarts and rebuilds so far

lookups == <<reader, build>>
directory == <<tree, nextCat, pathIndex, slugOnly, queue, worker, disturbed, writes,
               restarts>>
vars == <<directory, lookups>>

Cat == 1..MaxCat
Root == 0          \* parent_id of a top-level category; no category has it
NoCat == 0         \* a lookup's null
NoPath == <<>>

Live(t) == DOMAIN t

(* f without the keys in ks; f with key k set to v.                        *)
Without(f, ks) == Restrict(f, DOMAIN f \ ks)
With(f, k, v) == [x \in DOMAIN f \cup {k} |-> IF x = k THEN v ELSE f[x]]

(* list_children: the children of p in id order; the i-th has i - 1 before *)
(* it.                                                                     *)
InOrder(ids) ==
    [i \in 1 .. Cardinality(ids) |->
        CHOOSE c \in ids : Cardinality({d \in ids : d < c}) = i - 1]

Children(t, p) == InOrder({c \in Live(t) : t[c].parent = p})

Above(t, top, id) == IF id \in Live(t) \ {top} THEN t[id].parent ELSE id

(* The parent chain from id up to top, limit categories at most: where it  *)
(* stopped and the slugs it passed.  It reached top iff it stopped there.  *)
Climb(t, id, top, limit) ==
    LET up[n \in 0..limit] == IF n = 0 THEN id ELSE Above(t, top, up[n - 1])
        passed == Cardinality({n \in 0 .. limit - 1 : up[n + 1] # up[n]})
    IN  [at |-> up[limit], path |-> [n \in 1..passed |-> t[up[passed - n]].slug]]

(* build_slug_path: error.PathTooDeep, null when the chain is broken, or   *)
(* the path.                                                               *)
TooDeep(t, id) == Climb(t, id, Root, DepthMax).at \in Live(t)
HasPath(t, id) == id # NoCat /\ Climb(t, id, Root, DepthMax).at = Root
BuildSlugPath(t, id) == Climb(t, id, Root, DepthMax).path

(* compose_child_slug_path, for a parent that has a path.                  *)
ChildPath(t, parent, slug) ==
    Append(IF parent = Root THEN <<>> ELSE BuildSlugPath(t, parent), slug)

(* compose_old_descendant_path: the root's old path, then today's slugs.   *)
IsBelow(t, root, id) == id # root /\ Climb(t, id, root, DepthMax).at = root
OldPath(t, prefix, root, id) == prefix \o Climb(t, id, root, DepthMax).path

TruePath(t, id) == Climb(t, id, Root, MaxCat + 1).path
Descendants(t, root) ==
    {c \in Live(t) : c # root /\ Climb(t, c, root, MaxCat + 1).at = root}

(* Whether every path belongs to one category; a write that cannot see a   *)
(* sibling still under its old path may break it.                          *)
SiblingSlugsDiffer ==
    \A c, d \in Live(tree) :
        c # d => tree[c].parent # tree[d].parent \/ tree[c].slug # tree[d].slug

NoReader == [step |-> "idle", path |-> NoPath, id |-> NoCat, current |-> FALSE]
NoBuild == [ids |-> <<>>, up |-> NoCat, slugs |-> <<>>, wrote |-> 0]
IdleWorker == [busy |-> FALSE, stack |-> <<>>]

Init ==
    /\ tree = <<>> /\ nextCat = 1
    /\ pathIndex = <<>> /\ slugOnly = <<>>
    /\ queue = <<>> /\ worker = IdleWorker
    /\ reader = [r \in Reader |-> NoReader]
    /\ build = [r \in Reader |-> NoBuild]
    /\ disturbed = FALSE /\ writes = 0 /\ restarts = 0

-----------------------------------------------------------------------------
(* Lookups and what the writes share.                                      *)

(* An answer is right if it was at some moment of the lookup: the name it  *)
(* was found by still names the category.                                  *)
Names(t, path, id) ==
    id \in Live(t) /\ (TruePath(t, id) = path \/ <<t[id].slug>> = path)

(* Every step that changes the tree is a moment the lookups under way see, *)
(* and meets the paths they are building.                                  *)
Witnessed(t) ==
    /\ reader' = [r \in Reader |->
          [reader[r] EXCEPT !.current = @ \/ Names(t, reader[r].path, reader[r].id)]]
    /\ build' = [r \in Reader |->
          IF reader[r].step \in {"climbing", "naming"}
          THEN [build[r] EXCEPT !.wrote = IF @ = 0 THEN 1 ELSE 2] ELSE build[r]]

WriteStarts == writes < MaxWrites

(* Bookkeeping of a write: calm says a task queued before it is none the   *)
(* worse for it.                                                           *)
Written(calm) ==
    /\ writes' = writes + 1
    /\ disturbed' = (disturbed \/ (queue # <<>> /\ ~calm))
    /\ Witnessed(tree')
    /\ UNCHANGED <<worker, restarts>>

(* ensure_slug_path_free.                                                  *)
PathFree(parent, slug, own) ==
    LET path == ChildPath(tree, parent, slug) IN
    path \in DOMAIN pathIndex => pathIndex[path] = own

(* One delete and one insert per swap, in order.                           *)
SwappedWithoutDelete(index, swaps) ==    \* mutant
    FoldLeft(LAMBDA f, s : With(f, s.new, s.id), index, swaps)

Swapped(index, swaps) ==
    FoldLeft(LAMBDA f, s : With(Without(f, {s.old}), s.new, s.id), index, swaps)

(* The children of id that collect_descendant_swaps_child takes: one too   *)
(* far below the root has no path for it and is left out.                  *)
Collected(t, root, id) ==
    InOrder({c \in Live(t) : t[c].parent = id /\ IsBelow(t, root, c)})

(* The order of collect_descendant_swaps: children as listed, then the     *)
(* subtree of the last of them.  At most MaxCat categories are expanded.   *)
Expand(t, root, walk) ==
    IF walk.stack = <<>> THEN walk
    ELSE LET kids == Collected(t, root, Last(walk.stack))
         IN  [stack |-> Front(walk.stack) \o kids, found |-> walk.found \o kids]

WalkBelow(t, root) ==
    LET start == [stack |-> <<root>>, found |-> <<>>]
        walk[n \in 0..MaxCat] == IF n = 0 THEN start ELSE Expand(t, root, walk[n - 1])
    IN  walk[MaxCat].found

DescendantSwaps(t, root, old, new) ==
    LET swap(id) == [id |-> id, old |-> OldPath(t, old, root, id),
                     new |-> OldPath(t, new, root, id)]
        order == WalkBelow(t, root)
    IN  [i \in DOMAIN order |-> swap(order[i])]

(* The descendants counted: the children of what was collected.            *)
Counted(t, root) ==
    {c \in Descendants(t, root) : t[c].parent = root \/ IsBelow(t, root, t[c].parent)}

AboveThreshold(t, root) == Cardinality(Counted(t, root)) > Threshold

(* What a task is about.  The category was or comes to lie below the root  *)
(* of a queued task.                                                       *)
BelowQueuedTask(id) ==
    \E i \in DOMAIN queue :
        id \in Descendants(tree, queue[i].root) \cup Descendants(tree', queue[i].root)

(* So it does, or its path lies at, above or below one a queued task has   *)
(* yet to free.                                                            *)
MeetsQueuedTask(id, path) ==
    \/ BelowQueuedTask(id)
    \/ \E i \in DOMAIN queue :
          IsPrefix(path, queue[i].prefix) \/ IsPrefix(queue[i].prefix, path)

(* A category below it is below the root of a queued task.                 *)
SharesWithQueuedTask(id) ==
    \E i \in DOMAIN queue :
        Descendants(tree, id) \cap Descendants(tree, queue[i].root) # {}

(* The end of apply_category_renamed and apply_category_moved: the paths   *)
(* of the category and, inline or queued, of its descendants.              *)
SwapPaths(root, old, new) ==
    LET own == Swapped(pathIndex, <<[id |-> root, old |-> old, new |-> new]>>)
        large == AboveThreshold(tree, root)
    IN  /\ pathIndex' = IF large THEN own
                        ELSE Swapped(own, DescendantSwaps(tree, root, old, new))
        /\ queue' = IF large THEN Append(queue, [root |-> root, prefix |-> old])
                    ELSE queue
        /\ Written(/\ ~MeetsQueuedTask(root, new)
                   /\ large \/ ~SharesWithQueuedTask(root))

-----------------------------------------------------------------------------
(* Category writes.                                                        *)

(* The slug-only entry of a new category: it is taken unless the category  *)
(* it names has a path that is no deeper.                                  *)
IsShallowest(id, slug, depth) ==
    slug \in DOMAIN slugOnly =>
        LET other == slugOnly[slug] IN
        HasPath(tree, other) => depth < Len(BuildSlugPath(tree, other))

CreateCategory ==
    /\ WriteStarts
    /\ nextCat <= MaxCat
    /\ \E parent \in Live(tree) \cup {Root}, slug \in Slug :
        LET path == ChildPath(tree, parent, slug) IN
        /\ parent # Root => ~TooDeep(tree, parent)
        /\ PathFree(parent, slug, NoCat)
        /\ slug \in DOMAIN slugOnly => ~TooDeep(tree, slugOnly[slug])
        /\ tree' = With(tree, nextCat, [parent |-> parent, slug |-> slug])
        /\ pathIndex' = With(pathIndex, path, nextCat)
        /\ slugOnly' = IF IsShallowest(nextCat, slug, Len(path))
                       THEN With(slugOnly, slug, nextCat) ELSE slugOnly
        /\ nextCat' = nextCat + 1
        /\ Written(~MeetsQueuedTask(nextCat, path))
    /\ UNCHANGED queue

(* The slug-only index once a category gave up its slug: the entry goes    *)
(* only if it names this category.                                         *)
Released(id) ==
    LET slug == tree[id].slug IN
    IF slug \in DOMAIN slugOnly /\ slugOnly[slug] = id
    THEN Without(slugOnly, {slug}) ELSE slugOnly

(* update_category with a new slug.                                        *)
RenameCategory ==
    /\ WriteStarts
    /\ \E id \in Live(tree), slug \in Slug :
        /\ slug # tree[id].slug
        /\ ~TooDeep(tree, id)
        /\ PathFree(tree[id].parent, slug, id)
        /\ tree' = [tree EXCEPT ![id].slug = slug]
        /\ slugOnly' = IF slug \in DOMAIN Released(id) THEN Released(id)
                       ELSE With(Released(id), slug, id)
        /\ SwapPaths(id, BuildSlugPath(tree, id), ChildPath(tree, tree[id].parent, slug))
    /\ UNCHANGED nextCat

(* The walk from the new parent to the top: it must end within the depth   *)
(* cap and not pass the category itself.                                   *)
MayMoveUnder(id, parent) ==
    /\ parent # id /\ parent \notin Descendants(tree, id)
    /\ parent # Root => ~TooDeep(tree, parent)

(* move_category, to another parent than the present one.                  *)
MoveCategory ==
    /\ WriteStarts
    /\ \E id \in Live(tree), parent \in Live(tree) \cup {Root} :
        /\ parent # tree[id].parent
        /\ MayMoveUnder(id, parent)
        /\ ~TooDeep(tree, id)
        /\ PathFree(parent, tree[id].slug, id)
        /\ tree' = [tree EXCEPT ![id].parent = parent]
        /\ SwapPaths(id, BuildSlugPath(tree, id), ChildPath(tree, parent, tree[id].slug))
    /\ UNCHANGED <<nextCat, slugOnly>>

IsLeaf(id) == Children(tree, id) = <<>>

(* delete_category: a category without children, its canonical path and    *)
(* the slug-only entry it owns.                                            *)
DeleteCategory ==
    /\ WriteStarts
    /\ \E id \in Live(tree) :
        /\ IsLeaf(id)
        /\ ~TooDeep(tree, id)
        /\ tree' = Without(tree, {id})
        /\ pathIndex' = Without(pathIndex, {BuildSlugPath(tree, id)})
        /\ slugOnly' = Released(id)
        /\ Written(~BelowQueuedTask(id))
    /\ UNCHANGED <<nextCat, queue>>

-----------------------------------------------------------------------------
(* The repair worker.                                                      *)

Frame(id) == [id |-> id, offset |-> 0]
Task == Head(queue)

(* process_task: peek, and look at the root, before write_mutex is taken.  *)
WorkerStart ==
    /\ ~worker.busy
    /\ queue # <<>>
    /\ \/ /\ Task.root \in Live(tree)
          /\ worker' = [busy |-> TRUE, stack |-> <<Frame(Task.root)>>]
          /\ UNCHANGED queue
       \/ /\ Task.root \notin Live(tree)
          /\ queue' = Tail(queue)
          /\ UNCHANGED worker
    /\ UNCHANGED <<tree, nextCat, pathIndex, slugOnly, lookups, disturbed,
                   writes, restarts>>

PlanSwapToRoot(id) ==    \* mutant: the new path without the descendant's part
    LET old == OldPath(tree, Task.prefix, Task.root, id)
        new == BuildSlugPath(tree, Task.root)
    IN  IF old # new /\ old \in DOMAIN pathIndex
        THEN <<[id |-> id, old |-> old, new |-> new]>>
        ELSE <<>>

(* plan_swap: no swap for a path that did not change or is not indexed.    *)
PlanSwap(id) ==
    LET old == OldPath(tree, Task.prefix, Task.root, id)
        new == BuildSlugPath(tree, id)
    IN  IF /\ IsBelow(tree, Task.root, id) /\ HasPath(tree, id)
           /\ old # new /\ old \in DOMAIN pathIndex
        THEN <<[id |-> id, old |-> old, new |-> new]>>
        ELSE <<>>

(* build_slug_path of a child the task reaches may fail in plan_swap.      *)
PlanFails(id) == IsBelow(tree, Task.root, id) /\ TooDeep(tree, id)

(* process_chunk: the children of the top frame from its offset on, each   *)
(* pushed and planned, until the chunk is full, a plan fails or the walk   *)
(* has ended.                                                              *)
Full(scan) == scan.failed \/ Len(scan.swaps) >= ChunkSize

Visit(scan, id) ==
    IF Full(scan) THEN scan
    ELSE [stack |-> Append(scan.stack, Frame(id)), swaps |-> scan.swaps \o PlanSwap(id),
          failed |-> PlanFails(id)]

VisitAll(scan, page) ==
    LET visit[n \in 0..Len(page)] ==
            IF n = 0 THEN scan ELSE Visit(visit[n - 1], page[n])
    IN  visit[Len(page)]

Page(frame) ==
    LET kids == Children(tree, frame.id) IN SubSeq(kids, frame.offset + 1, Len(kids))

AdvancedTooFar(from, scan) ==    \* mutant: the resume offset is one too high
    [scan EXCEPT !.stack[Len(from.stack)].offset =
        @ + Len(scan.stack) - Len(from.stack) + 1]

(* The frame a page was read from resumes after the children visited.      *)
Advanced(from, scan) ==
    [scan EXCEPT !.stack[Len(from.stack)].offset =
        @ + Len(scan.stack) - Len(from.stack)]

(* The scan after the top frame's page, and the scan a chunk ends with, in *)
(* a set of one: TLC evaluates an element once, an argument at every use.  *)
ScanPage(scan) ==
    LET page == Page(Last(scan.stack)) IN
    IF scan.stack = <<>> \/ Full(scan) THEN {scan}
    ELSE IF page = <<>> THEN {[scan EXCEPT !.stack = Front(@)]}
    ELSE {Advanced(scan, visited) : visited \in {VisitAll(scan, page)}}

(* Every category below a frame of the walk is read and left at most once. *)
ScanChunk(walk) ==
    LET start == [stack |-> walk, swaps |-> <<>>, failed |-> FALSE]
        steps == Len(walk) * (2 * MaxCat + 1)
        scans[n \in 0..steps] ==
            IF n = 0 THEN {start} ELSE UNION {ScanPage(scan) : scan \in scans[n - 1]}
    IN  scans[steps]

(* A chunk of the walk, committed; an error ends the tick with nothing of  *)
(* the chunk committed, and the next tick starts the task over.            *)
WorkerChunk ==
    /\ worker.busy
    /\ worker.stack # <<>>
    /\ UNCHANGED <<tree, nextCat, slugOnly, queue, lookups, disturbed,
                   writes, restarts>>
    /\ \E scan \in ScanChunk(worker.stack) :
         IF scan.failed
         THEN worker' = IdleWorker /\ UNCHANGED pathIndex
         ELSE /\ worker' = [worker EXCEPT !.stack = scan.stack]
              /\ pathIndex' = Swapped(pathIndex, scan.swaps)

WorkerCompleteKeepsTask ==    \* mutant
    /\ worker.busy
    /\ worker.stack = <<>>
    /\ worker' = IdleWorker
    /\ UNCHANGED <<tree, nextCat, pathIndex, slugOnly, queue, lookups, disturbed, writes, restarts>>

(* slug_path_repair_complete: the task leaves the queue.                   *)
WorkerComplete ==
    /\ worker.busy
    /\ worker.stack = <<>>
    /\ worker' = IdleWorker
    /\ queue' = Tail(queue)
    /\ UNCHANGED <<tree, nextCat, pathIndex, slugOnly, lookups, disturbed,
                   writes, restarts>>

(* A crash: what is committed stays, the walk of the worker and the        *)
(* lookups are gone.                                                       *)
Restart ==
    /\ restarts < MaxRestarts
    /\ worker.busy
    /\ worker' = IdleWorker
    /\ reader' = [r \in Reader |-> NoReader] /\ build' = [r \in Reader |-> NoBuild]
    /\ restarts' = restarts + 1
    /\ UNCHANGED <<tree, nextCat, pathIndex, slugOnly, queue, disturbed, writes>>

(* rebuild_category_indices: both indexes truncated and written from the   *)
(* records in id order; a category without a composable path ends it with  *)
(* an error, before the slug-only index is written.                        *)
Rebuild ==
    /\ restarts < MaxRestarts
    /\ LET bad == {c \in Live(tree) : TooDeep(tree, c)}
           sound == bad = {} /\ SiblingSlugsDiffer
           path(c) == BuildSlugPath(tree, c)
           written == {c \in Live(tree) : \A b \in bad : c < b}
           sharing(slug) == {c \in Live(tree) : tree[c].slug = slug}
           first(c, d) == Len(path(c)) < Len(path(d)) \/ (Len(path(c)) = Len(path(d)) /\ c <= d)
       IN  /\ pathIndex' = [p \in {path(c) : c \in written} |->
                               Max({c \in written : path(c) = p})]
           /\ slugOnly' = IF bad # {} THEN <<>>
                          ELSE [slug \in {tree[c].slug : c \in Live(tree)} |->
                                  CHOOSE c \in sharing(slug) :
                                    \A d \in sharing(slug) : first(c, d)]
           /\ disturbed' = (disturbed /\ (queue # <<>> \/ ~sound))
    /\ restarts' = restarts + 1
    /\ UNCHANGED <<tree, nextCat, queue, worker, lookups, writes>>

-----------------------------------------------------------------------------
(* resolve_slug_path, without a lock: the index search, then the answer.   *)

InTop(path) == <<Top>> \o path

(* The full path, else below top/, else a lone slug; what it matched.      *)
LookupSearch(r) ==
    /\ reader[r].step = "idle"
    /\ \E path \in {<<s>> : s \in Slug} \cup DOMAIN pathIndex \cup
            {Tail(p) : p \in {q \in DOMAIN pathIndex : Len(q) > 1 /\ q[1] = Top}} :
        LET hit(p, id) == [step |-> "found", path |-> p, id |-> id,
                           current |-> Names(tree, p, id)]
        IN  \/ /\ path \in DOMAIN pathIndex
               /\ reader' = [reader EXCEPT ![r] = hit(path, pathIndex[path])]
            \/ /\ path \notin DOMAIN pathIndex
               /\ Head(path) # Top \/ Len(path) = 1
               /\ InTop(path) \in DOMAIN pathIndex
               /\ reader' = [reader EXCEPT ![r] = hit(InTop(path), pathIndex[InTop(path)])]
            \/ /\ path \notin DOMAIN pathIndex
               /\ InTop(path) \notin DOMAIN pathIndex
               /\ Len(path) = 1 /\ Head(path) \in DOMAIN slugOnly
               /\ reader' = [reader EXCEPT ![r] = hit(path, slugOnly[Head(path)])]
    /\ UNCHANGED <<directory, build>>

LookupEnds(r) ==
    /\ reader' = [reader EXCEPT ![r] = NoReader]
    /\ build' = [build EXCEPT ![r] = NoBuild]

(* With no repair pending the match is the answer; else its canonical path *)
(* is read.                                                                *)
LookupAnswer(r) ==
    /\ reader[r].step = "found"
    /\ \/ /\ queue = <<>>
          /\ reader' = [reader EXCEPT ![r].step = "answered"]
          /\ UNCHANGED build
       \/ /\ queue # <<>>
          /\ reader' = [reader EXCEPT ![r].step = "climbing"]
          /\ build' = [build EXCEPT ![r] = [NoBuild EXCEPT !.up = reader[r].id]]
    /\ UNCHANGED directory

(* get_category_path, one record at a time: too long a chain is an error,  *)
(* and one that is broken names nothing, since no id is used again.        *)
LookupClimb(r) ==
    LET up == build[r].up IN
    /\ reader[r].step = "climbing"
    /\ \/ /\ up \in Live(tree) /\ Len(build[r].ids) < DepthMax
          /\ build' = [build EXCEPT ![r].ids = Append(@, up), ![r].up = tree[up].parent]
          /\ reader' = [reader EXCEPT ![r].step =
                           IF tree[up].parent = Root THEN "naming" ELSE "climbing"]
       \/ /\ up \in Live(tree) => Len(build[r].ids) >= DepthMax
          /\ LookupEnds(r)
    /\ UNCHANGED directory

LookupNameUnchecked(r) ==    \* mutant: whatever was read is taken for the path
    LET ids == build[r].ids
        id == ids[Len(ids) - Len(build[r].slugs)]
        slugs == Append(build[r].slugs, tree[id].slug)
    IN
    /\ reader[r].step = "naming"
    /\ \/ /\ id \in Live(tree) /\ Len(slugs) < Len(ids)
          /\ build' = [build EXCEPT ![r].slugs = slugs]
          /\ UNCHANGED reader
       \/ /\ id \in Live(tree) /\ Len(slugs) = Len(ids)
          /\ reader' = [reader EXCEPT ![r].step = "validated"]
          /\ build' = [build EXCEPT ![r] = [NoBuild EXCEPT !.wrote = build[r].wrote]]
       \/ /\ id \notin Live(tree)
          /\ LookupEnds(r)
    /\ UNCHANGED directory

(* build_slug_path, one slug at a time, then the comparison: the match is  *)
(* the answer if it reads like the path that was looked up.                *)
LookupName(r) ==
    LET ids == build[r].ids
        id == ids[Len(ids) - Len(build[r].slugs)]
        slugs == Append(build[r].slugs, tree[id].slug)
    IN
    /\ reader[r].step = "naming"
    /\ \/ /\ id \in Live(tree) /\ Len(slugs) < Len(ids)
          /\ build' = [build EXCEPT ![r].slugs = slugs]
          /\ UNCHANGED reader
       \/ /\ id \in Live(tree) /\ Len(slugs) = Len(ids) /\ slugs = reader[r].path
          /\ reader' = [reader EXCEPT ![r].step = "validated"]
          /\ build' = [build EXCEPT ![r] = [NoBuild EXCEPT !.wrote = build[r].wrote]]
       \/ /\ id \in Live(tree) => Len(slugs) = Len(ids) /\ slugs # reader[r].path
          /\ LookupEnds(r)
    /\ UNCHANGED directory

LookupReturn(r) ==
    /\ reader[r].step \in {"answered", "validated"}
    /\ LookupEnds(r)
    /\ UNCHANGED directory

Next ==
    \/ CreateCategory \/ RenameCategory \/ MoveCategory \/ DeleteCategory
    \/ WorkerStart \/ WorkerChunk \/ WorkerComplete
    \/ Restart \/ Rebuild
    \/ \E r \in Reader :
          \/ LookupSearch(r) \/ LookupAnswer(r)
          \/ LookupClimb(r) \/ LookupName(r) \/ LookupReturn(r)

Spec == Init /\ [][Next]_vars

(* The worker is a timer of its own, and one task is finished or failed    *)
(* before the next is looked at.                                           *)
FairSpec ==
    /\ Spec
    /\ WF_vars(WorkerStart \/ WorkerChunk \/ WorkerComplete)

-----------------------------------------------------------------------------
(* Correctness.                                                            *)

Path == UNION {[1..n -> Slug] : n \in 1..MaxCat}

TypeOK ==
    /\ Live(tree) \subseteq Cat
    /\ \A c \in Live(tree) : tree[c] \in [parent : Live(tree) \cup {Root}, slug : Slug]
    /\ nextCat \in 1 .. MaxCat + 1
    /\ DOMAIN pathIndex \subseteq Path /\ Range(pathIndex) \subseteq Cat
    /\ DOMAIN slugOnly \subseteq Slug /\ Range(slugOnly) \subseteq Cat
    /\ \A i \in DOMAIN queue : queue[i] \in [root : Cat, prefix : Path]
    /\ worker.busy \in BOOLEAN /\ \A i \in DOMAIN worker.stack : worker.stack[i].id \in Cat
    /\ disturbed \in BOOLEAN /\ writes \in 0..MaxWrites /\ restarts \in 0..MaxRestarts

(* The path index is what the records say: each live category under its    *)
(* canonical path and nothing else.                                        *)
PathIndexExact ==
    pathIndex = [p \in {TruePath(tree, c) : c \in Live(tree)} |->
                     CHOOSE c \in Live(tree) : TruePath(tree, c) = p]

(* Small renames are inline; a large one is repaired by the worker, in     *)
(* chunks, over restarts, with further large renames queued behind it and  *)
(* small writes between.  When the queue has drained the index is exact,   *)
(* unless a write met what a task is about.                                *)
RepairConverges == queue = <<>> /\ ~disturbed => PathIndexExact

(* While the repair of large renames is under way no category drops out of *)
(* the index: it is under its canonical path or under an old one.  Again   *)
(* unless a write met what a task is about.                                *)
RepairLosesNoCategory == ~disturbed => Live(tree) = Range(pathIndex)

(* "Stale paths are hidden from clients during the window, never returning *)
(* a wrong cat_id" (README.md, read-side validation): with the queue empty *)
(* every indexed path is the path of a live category.  Refuted by the code,*)
(* see the README.                                                         *)
StalePathsAreHidden ==
    queue = <<>> =>
        \A p \in DOMAIN pathIndex :
            pathIndex[p] \in Live(tree) /\ TruePath(tree, pathIndex[p]) = p

(* "the task leaves the queue only after every descendant is done":        *)
(* refuted by the code, see the README.                                    *)
TaskLeavesNoDescendant ==
    [][WorkerComplete =>
        \A c \in Descendants(tree, Task.root) :
            LET old == OldPath(tree, Task.prefix, Task.root, c) IN
            old # TruePath(tree, c) /\ old \in DOMAIN pathIndex => pathIndex[old] # c]_vars

(* A lookup answers with a category that had the name during the lookup.   *)
LookupsAreCurrent ==
    \A r \in Reader : reader[r].step = "answered" => reader[r].current

(* A lookup that still finds the repair pending when it has its match does *)
(* so whatever stale entry it matched, and whatever write met the ids and  *)
(* the slugs it was reading.  Two writes can: see the README.              *)
ValidatedLookupsAreCurrent ==
    \A r \in Reader :
      reader[r].step = "validated" /\ build[r].wrote < 2 => reader[r].current

(* A "brief window": the queue is drained once the writes stop.            *)
RepairQueueDrains == <>[](queue = <<>>)
=============================================================================
