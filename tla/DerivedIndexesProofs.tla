------------------------ MODULE DerivedIndexesProofs ------------------------
(***************************************************************************)
(* DerivedIndexes for any number of links, writes, crashes and loaders: an *)
(* index that is ready is complete.  An index is right at an id, or apply  *)
(* has still to tell it of a write to that id, or its loader has the id    *)
(* before it (FactsKept, BloomKept, VectorsKept).  A snapshot is right at  *)
(* the ids that the log had not touched when it was cut (FileKept), and    *)
(* the replay of the log makes it right at the others (RestoredKept).      *)
(***************************************************************************)
EXTENDS DerivedIndexes, TLAPS, WellFoundedInduction

Op == {"create", "update", "delete", "vector"}
Change == [op : Op, id : Id, url : Url, text : BOOLEAN]

Typed(t) ==
    /\ DOMAIN t.links \subseteq Id /\ t.vectors \subseteq Id
    /\ \A id \in DOMAIN t.links : t.links[id] \in Url

(* The index s depends on what the change writes.                          *)
Touches(s, c) == IF s = "vectors" THEN c.op = "vector" \/ DropsVector(c) ELSE c.op # "vector"
TouchedIn(log, s, id, a, b) == \E k \in a..b : log[k].id = id /\ Touches(s, log[k])

SameLink(f, g, id) ==
    /\ id \in DOMAIN f <=> id \in DOMAIN g
    /\ id \in DOMAIN f => f[id] = g[id]

(* Two trees hold the same at id, as far as index s depends on it.         *)
Agree(s, t, u, id) ==
    IF s = "vectors" THEN id \in t.vectors <=> id \in u.vectors ELSE SameLink(t.links, u.links, id)

(* The content x of index s is what the trees say of id.                   *)
Right(s, t, x, id) ==
    CASE s = "facts" -> SameLink(t.links, x, id)
      [] s = "bloom" -> id \in DOMAIN t.links => t.links[id] \in x
      [] s = "vectors" -> id \in t.vectors <=> id \in x

(* The trees have what the change wrote.                                   *)
Reflects(t, c) ==
    /\ c.op \in {"create", "update"} => c.id \in DOMAIN t.links /\ t.links[c.id] = c.url
    /\ c.op = "delete" => c.id \notin DOMAIN t.links
    /\ c.op = "vector" => c.id \in t.vectors
    /\ DropsVector(c) => c.id \notin t.vectors

(* The content of index s after a change.                                  *)
Changed(s, x, c) ==
    CASE s = "facts" -> (CASE c.op \in {"create", "update"} -> With(x, c.id, c.url)
                           [] c.op = "delete" -> Without(x, c.id)
                           [] OTHER -> x)
      [] s = "bloom" -> IF c.op \in {"create", "update"} THEN x \cup {c.url} ELSE x
      [] s = "vectors" -> (CASE c.op = "vector" -> x \cup {c.id}
                             [] DropsVector(c) -> x \ {c.id}
                             [] OTHER -> x)

Content(s) ==
    CASE s = "facts" -> facts.links [] s = "bloom" -> bloom.urls [] s = "vectors" -> vectors.ids
Ready(s) ==
    CASE s = "facts" -> facts.ready [] s = "bloom" -> bloom.ready [] s = "vectors" -> vectors.ready
Loader(s) ==
    CASE s = "facts" -> facts.loader [] s = "bloom" -> bloom.loader
      [] s = "vectors" -> vectors.loader
Cut(f, s) ==
    CASE s = "facts" -> f.facts [] s = "bloom" -> f.bloom [] s = "vectors" -> f.vectors

-----------------------------------------------------------------------------
(* The invariant.                                                          *)

ShapesKept ==
    /\ {"links", "touched", "loading", "ready", "loader", "after", "page", "more"}
         \subseteq DOMAIN facts
    /\ {"urls", "ready", "loader", "next"} \subseteq DOMAIN bloom
    /\ {"ids", "ready", "loader", "next"} \subseteq DOMAIN vectors
    /\ {"seq", "has", "facts", "bloom", "vectors", "cut", "ahead"} \subseteq DOMAIN snap
    /\ {"step", "left", "file"} \subseteq DOMAIN writing
    /\ {"seq", "has", "facts", "bloom", "vectors", "cut", "ahead"} \subseteq DOMAIN writing.file

LoadSteps == {"begin", "drain", "scan", "load", "finish"}

TypesKept ==
    /\ seq \in Nat \ {0} /\ tail \in Seq(Change) /\ replayed \in Nat
    /\ Typed(image) /\ Typed(trees) /\ DOMAIN drained \subseteq Id
    /\ facts.after \in Nat /\ bloom.next \in Nat /\ vectors.next \in Nat
    /\ snap.seq \in Nat /\ snap.has \subseteq Section

(* What there is in each phase, and in each step of the facts' loader.     *)
PhaseKept ==
    /\ phase \in {"down", "replay", "up"}
    /\ phase # "up" =>
         /\ applying = NotApplying /\ writing = NotWriting /\ replayed <= Len(tail)
         /\ \A s \in Section : ~Ready(s) /\ Loader(s) \in {"off", "restored"}
         /\ ~facts.loading /\ facts.touched = {} /\ facts.after = 0
         /\ bloom.next = 0 /\ vectors.next = 0
    /\ phase = "down" => trees = image /\ replayed = 0
    /\ phase = "up" => \A s \in Section : Loader(s) # "restored"
    /\ \A s \in Section : Ready(s) => Loader(s) \notin LoadSteps
    /\ facts.loader \in {"drain", "scan", "load", "finish"} => facts.loading
    /\ facts.loader = "load" => \E p \in Id : DOMAIN facts.page = {p}

(* What of a change apply may have left to do.                             *)
StepsLeft(c) ==
    CASE c.op = "create" \/ (c.op = "update" /\ ~c.text) ->
           {<<"trees", "bloom", "facts">>, <<"bloom", "facts">>, <<"facts">>}
      [] c.op = "update" /\ c.text ->
           {<<"trees", "vectors", "bloom", "facts">>, <<"vectors", "bloom", "facts">>,
            <<"bloom", "facts">>, <<"facts">>}
      [] c.op = "delete" -> {<<"trees", "vectors", "facts">>, <<"vectors", "facts">>, <<"facts">>}
      [] c.op = "vector" -> {<<"trees", "vectors">>, <<"vectors">>}

Left == {applying.steps[k] : k \in DOMAIN applying.steps}
Pending(s, id) == applying.change.id = id /\ s \in Left

ApplyingKept ==
    applying # NotApplying =>
        /\ phase = "up" /\ tail # <<>>
        /\ applying.change = tail[Len(tail)]
        /\ applying = [change |-> applying.change, steps |-> applying.steps]
        /\ applying.steps \in StepsLeft(applying.change)
        /\ "trees" \in Left \/ Reflects(trees, applying.change)

(* The loader of the facts will come to id.                                *)
FactsToLoad(id) ==
    \/ facts.loader \in {"begin", "drain", "scan"} /\ id > facts.after
    \/ facts.loader = "load" /\ \E p \in DOMAIN facts.page : id = p \/ (id > p /\ facts.more)

FactsKept ==
    phase = "up" /\ (facts.loader \in LoadSteps \/ (facts.ready /\ ~ahead)) =>
        \A id \in Id : \/ Right("facts", trees, facts.links, id)
                       \/ Pending("facts", id)
                       \/ id \in DOMAIN trees.links /\ id \notin facts.touched /\ FactsToLoad(id)

BloomKept ==
    phase = "up" /\ (bloom.loader = "begin" \/ (bloom.ready /\ ~ahead)) =>
        \A id \in Id : \/ Right("bloom", trees, bloom.urls, id)
                       \/ Pending("bloom", id)
                       \/ /\ bloom.loader = "begin" /\ id > bloom.next
                          /\ SameLink(trees.links, drained, id)

VectorsKept ==
    phase = "up" /\ (vectors.loader = "begin" \/ (vectors.ready /\ ~ahead)) =>
        \A id \in Id : \/ Right("vectors", trees, vectors.ids, id)
                       \/ Pending("vectors", id)
                       \/ vectors.loader = "begin" /\ id > vectors.next /\ id \in trees.vectors

(* What the loader of the facts reads, and has read, is what the trees     *)
(* have, but where a write has been since.                                 *)
ScanKept ==
    facts.loader = "scan" =>
        \A id \in Id : \/ SameLink(trees.links, drained, id)
                       \/ id \in facts.touched \/ Pending("facts", id)

PageKept ==
    facts.loader = "load" =>
        \A id \in DOMAIN facts.page : \/ id \in DOMAIN trees.links /\ trees.links[id] = facts.page[id]
                                      \/ id \in facts.touched \/ Pending("facts", id)

(* The entries of the log that are in the trees.                           *)
Applied == IF phase = "up" THEN Len(tail) ELSE replayed

TreesKept ==
    \A s \in Section, id \in Id : TouchedIn(tail, s, id, 1, Applied) \/ Agree(s, image, trees, id)

(* While the log is replayed, a restored index is right where the log will *)
(* not come again; one that will be loaded has nothing else but the log's. *)
RestoredKept ==
    phase = "replay" =>
        /\ ~ahead => \A s \in Section, id \in Id :
              Loader(s) = "restored" =>
                  \/ Right(s, trees, Content(s), id)
                  \/ TouchedIn(tail, s, id, replayed + 1, Len(tail))
        /\ facts.loader = "off" =>
              \A id \in Id : Right("facts", trees, facts.links, id) \/ id \notin DOMAIN facts.links
        /\ vectors.loader = "off" =>
              \A id \in Id : Right("vectors", trees, vectors.ids, id) \/ id \notin vectors.ids

FileKept(f, sections) ==
    f.seq = seq /\ ~f.ahead =>
        /\ f.cut \in 0..Len(tail)
        /\ \A s \in sections, id \in Id :
              TouchedIn(tail, s, id, 1, f.cut) \/ Right(s, image, Cut(f, s), id)

SnapKept == snap.seq <= seq /\ FileKept(snap, snap.has)

WritingKept ==
    /\ writing.step # "sections" => writing.left = {}
    /\ writing.step = "sections" =>
         /\ writing.file.seq = seq /\ writing.file.ahead = ahead
         /\ writing.file.has \subseteq Section
         /\ \A s \in writing.file.has : Ready(s)
         /\ FileKept(writing.file, writing.file.has \ writing.left)

StoreInv == ShapesKept /\ TypesKept /\ PhaseKept /\ TreesKept /\ SnapKept /\ WritingKept
IndexInv == FactsKept /\ BloomKept /\ VectorsKept /\ ScanKept /\ PageKept
IInv == StoreInv /\ ApplyingKept /\ IndexInv /\ RestoredKept

-----------------------------------------------------------------------------
(* Scans.                                                                  *)

(* A set of numbers has a least one.                                       *)
LEMMA Least ==
    ASSUME NEW S \in SUBSET Nat, S # {}
    PROVE  \E x \in S : \A y \in S : x <= y
<1>1. PICK R : /\ IsWellFoundedOn(R, Nat)
               /\ \A x \in Nat, y \in Nat : y < x => <<y, x>> \in R
  <2>1. \A x \in Nat, y \in Nat : y < x => <<y, x>> \in OpToRel(<, Nat)
    BY DEF OpToRel
  <2> QED
    BY <2>1, NatLessThanWellFounded, Zenon
<1>2. PICK x \in S : \A y \in S : ~ (<<y, x>> \in R)
  BY <1>1, WFMin
<1>3. ASSUME NEW y \in S PROVE x <= y
  <2>1. x \in Nat /\ y \in Nat /\ ~(y < x)
    BY <1>1, <1>2, Zenon
  <2> QED
    BY <2>1
<1> QED
  BY <1>2, <1>3

(* A scan that finds no next key has passed them all.                      *)
LEMMA FromFinds ==
    ASSUME NEW keys \in SUBSET Nat, NEW k \in Nat, From(keys, k) = {}
    PROVE  \A id \in keys : id <= k
<1> SUFFICES ASSUME NEW id \in keys, id > k PROVE FALSE
  OBVIOUS
<1>1. PICK x \in {y \in keys : y > k} : \A y \in {z \in keys : z > k} : x <= y
  BY Least
<1> QED
  BY <1>1 DEF From

(* A scan that finds one finds the next.                                   *)
LEMMA FromIsNext ==
    ASSUME NEW keys \in SUBSET Nat, NEW k \in Nat, From(keys, k) # {}
    PROVE  \E p \in keys : /\ From(keys, k) = {p} /\ p > k /\ (CHOOSE x \in From(keys, k) : TRUE) = p
                           /\ \A id \in keys : id > k => id >= p
<1>1. PICK p \in From(keys, k) : TRUE
  OBVIOUS
<1>2. p \in keys /\ p \in Nat /\ p > k /\ \A id \in keys : id > k => p <= id
  BY <1>1 DEF From
<1>3. ASSUME NEW x \in From(keys, k) PROVE x = p
  <2>1. x \in Nat /\ x <= p /\ p <= x
    BY <1>2 DEF From
  <2> QED
    BY <2>1, <1>2
<1>4. From(keys, k) = {p}
  BY <1>1, <1>3
<1>5. (CHOOSE x \in From(keys, k) : TRUE) = p
  BY <1>4
<1> QED
  BY <1>2, <1>4, <1>5

-----------------------------------------------------------------------------
(* Changes.                                                                *)

(* A change that is applied is in the trees.                               *)
LEMMA ChangeReflected ==
    ASSUME NEW c \in Change, NEW t
    PROVE  Reflects(ChangedTrees(t, c), c)
BY DEF Reflects, ChangedTrees, With, Without, DropsVector, Change, Op

(* A change leaves the trees typed.                                        *)
LEMMA ChangeTyped ==
    ASSUME NEW c \in Change, NEW t, Typed(t)
    PROVE  Typed(ChangedTrees(t, c))
<1> DEFINE u == ChangedTrees(t, c)
<1>1. c.id \in Id /\ c.url \in Url
  BY DEF Change
<1>2. DOMAIN u.links \subseteq Id /\ \A id \in DOMAIN u.links : u.links[id] \in Url
  BY <1>1 DEF Typed, ChangedTrees, With, Without
<1>3. u.vectors \subseteq Id
  BY <1>1 DEF Typed, ChangedTrees
<1> QED
  BY <1>2, <1>3 DEF Typed

(* It leaves them as they are at every other id, and at its own for an     *)
(* index it does not touch.                                                *)
LEMMA ChangeLeaves ==
    ASSUME NEW c \in Change, NEW t, NEW s, NEW id, id # c.id \/ ~Touches(s, c)
    PROVE  Agree(s, t, ChangedTrees(t, c), id)
BY DEF Agree, SameLink, ChangedTrees, With, Without, DropsVector, Change, Op, Touches

(* What is right of trees is right of trees that agree with them.          *)
LEMMA AgreeRight ==
    ASSUME NEW s \in Section, NEW t, NEW u, NEW x, NEW id, Agree(s, t, u, id), Right(s, t, x, id)
    PROVE  Right(s, u, x, id)
BY DEF Agree, Right, SameLink, Section

(* Agreement goes from one to the next.                                    *)
LEMMA AgreeTrans ==
    ASSUME NEW s, NEW t, NEW u, NEW v, NEW id, Agree(s, t, u, id), Agree(s, u, v, id)
    PROVE  Agree(s, t, v, id) /\ Agree(s, u, t, id)
BY DEF Agree, SameLink

(* An index that is told of a change is right where it was, and where the  *)
(* change is.                                                              *)
LEMMA ChangedRight ==
    ASSUME NEW c \in Change, NEW s \in Section, NEW t, NEW u, NEW x, NEW id,
           Reflects(u, c),
           \/ id = c.id /\ Touches(s, c)
           \/ Right(s, t, x, id) /\ Agree(s, t, u, id)
    PROVE  Right(s, u, Changed(s, x, c), id)
<1>1. CASE s = "facts"
  BY <1>1 DEF Right, SameLink, Agree, Changed, Reflects, Touches, With, Without, DropsVector, Change, Op
<1>2. CASE s = "bloom"
  BY <1>2 DEF Right, SameLink, Agree, Changed, Reflects, Touches, DropsVector, Change, Op
<1>3. CASE s = "vectors"
  BY <1>3 DEF Right, Agree, Changed, Reflects, Touches, DropsVector, Change, Op
<1> QED
  BY <1>1, <1>2, <1>3 DEF Section

-----------------------------------------------------------------------------
(* What a step that leaves a variable alone leaves of the invariant.       *)

(* What an earlier log had touched, a log that goes on from it has.        *)
LEMMA SameLog ==
    ASSUME NEW log, NEW longer, NEW s, NEW id, NEW a \in Nat, NEW b \in Nat, NEW d \in Nat, b <= d,
           \A k \in a..b : longer[k] = log[k], TouchedIn(log, s, id, a, b)
    PROVE  TouchedIn(longer, s, id, a, d)
<1>1. PICK k \in a..b : log[k].id = id /\ Touches(s, log[k])
  BY DEF TouchedIn
<1>2. k \in a..d /\ longer[k] = log[k]
  BY <1>1
<1> QED
  BY <1>1, <1>2 DEF TouchedIn

(* A file stays what it is while the log grows.                            *)
LEMMA FileStays ==
    ASSUME NEW f, NEW sections, tail \in Seq(Change), tail' \in Seq(Change),
           Len(tail) <= Len(tail'), \A k \in 1..Len(tail) : tail'[k] = tail[k],
           UNCHANGED <<image, seq>>, FileKept(f, sections)
    PROVE  f.seq = seq /\ ~f.ahead =>
             /\ f.cut \in 0..Len(tail')
             /\ \A s \in sections, id \in Id :
                   TouchedIn(tail', s, id, 1, f.cut) \/ Right(s, image', Cut(f, s), id)
<1> SUFFICES ASSUME f.seq = seq, ~f.ahead
             PROVE  /\ f.cut \in 0..Len(tail')
                    /\ \A s \in sections, id \in Id :
                         TouchedIn(tail', s, id, 1, f.cut) \/ Right(s, image', Cut(f, s), id)
  OBVIOUS
<1>1. /\ f.cut \in 0..Len(tail)
      /\ \A s \in sections, id \in Id :
           TouchedIn(tail, s, id, 1, f.cut) \/ Right(s, image, Cut(f, s), id)
  BY DEF FileKept
<1>2. Len(tail) \in Nat /\ Len(tail') \in Nat
  OBVIOUS
<1>3. f.cut \in Nat /\ f.cut \in 0..Len(tail') /\ \A k \in 1..f.cut : tail'[k] = tail[k]
  BY <1>1, <1>2
<1>4. ASSUME NEW s \in sections, NEW id \in Id, TouchedIn(tail, s, id, 1, f.cut)
      PROVE  TouchedIn(tail', s, id, 1, f.cut)
  BY <1>3, <1>4, SameLog
<1> QED
  BY <1>1, <1>3, <1>4

(* Nothing of the store moves.                                             *)
LEMMA StoreFrame ==
    ASSUME TreesKept, SnapKept, UNCHANGED store, UNCHANGED <<phase, replayed, trees>>
    PROVE  TreesKept' /\ SnapKept'
BY DEF TreesKept, SnapKept, FileKept, Applied, TouchedIn, store, Cut

(* No snapshot is written meanwhile, and no index stops being ready.       *)
LEMMA WritingFrame ==
    ASSUME WritingKept, UNCHANGED <<image, seq, tail>>, UNCHANGED <<writing, ahead>>,
           \A s \in Section : Ready(s) => Ready(s)'
    PROVE  WritingKept'
BY DEF WritingKept, FileKept, TouchedIn, Cut

(* The change that is applied and the trees stay.                          *)
LEMMA ApplyingFrame ==
    ASSUME ApplyingKept, UNCHANGED <<applying, phase, tail, trees>>
    PROVE  ApplyingKept'
BY DEF ApplyingKept, Left

(* No index is restored while requests are served.                         *)
LEMMA RestoredFrame ==
    ASSUME phase' # "replay"
    PROVE  RestoredKept'
BY DEF RestoredKept

(* The facts and their loader stay.                                        *)
LEMMA FactsFrame ==
    ASSUME FactsKept, PageKept, UNCHANGED <<phase, facts, trees, applying, ahead>>
    PROVE  FactsKept' /\ PageKept'
BY DEF FactsKept, PageKept, FactsToLoad, Pending, Left

(* So does what they scan.                                                 *)
LEMMA ScanFrame ==
    ASSUME ScanKept, UNCHANGED <<facts, trees, applying>>,
           UNCHANGED drained \/ drained' = trees.links
    PROVE  ScanKept'
BY DEF ScanKept, Pending, Left, SameLink

(* The filter and its seeder stay.                                         *)
LEMMA BloomFrame ==
    ASSUME BloomKept, UNCHANGED <<phase, bloom, trees, applying, ahead>>,
           UNCHANGED drained \/ drained' = trees.links
    PROVE  BloomKept'
BY DEF BloomKept, Pending, Left, SameLink

(* The vectors and their loader stay.                                      *)
LEMMA VectorsFrame ==
    ASSUME VectorsKept, UNCHANGED <<phase, vectors, trees, applying, ahead>>
    PROVE  VectorsKept'
BY DEF VectorsKept, Pending, Left

(* No index moves.                                                         *)
LEMMA IndexFrame ==
    ASSUME IndexInv, UNCHANGED <<phase, facts, bloom, vectors, trees, applying, ahead>>,
           UNCHANGED drained \/ drained' = trees.links
    PROVE  IndexInv'
BY FactsFrame, ScanFrame, BloomFrame, VectorsFrame DEF IndexInv

(* Nobody waits for a change when none is applied.                         *)
LEMMA NonePending ==
    ASSUME applying = NotApplying
    PROVE  \A s, id : ~Pending(s, id)
BY DEF NotApplying, Pending, Left

-----------------------------------------------------------------------------
(* Writes.                                                                 *)

(* Every change begins with the trees.                                     *)
LEMMA StepsBegin ==
    ASSUME NEW c \in Change
    PROVE  Steps(c) \in StepsLeft(c) /\ \E k \in DOMAIN Steps(c) : Steps(c)[k] = "trees"
BY DEF Steps, StepsLeft, Change, Op

(* A change appended to the log, with the whole of apply before it.        *)
LEMMA CommitKeeps ==
    ASSUME IInv, NEW c \in Change, Commit(c)
    PROVE  IInv'
<1> USE DEF IInv, StoreInv, IndexInv
<1>1. /\ phase = "up" /\ applying = NotApplying /\ tail \in Seq(Change) /\ tail' = Append(tail, c)
      /\ applying' = [change |-> c, steps |-> Steps(c)]
      /\ UNCHANGED <<image, seq, snap, phase, replayed, trees, drained, facts, bloom, vectors,
                     writing, ahead>>
  BY DEF Commit, Idle, TypesKept
<1>2. /\ tail' \in Seq(Change) /\ Len(tail) \in Nat /\ Len(tail') = Len(tail) + 1
      /\ tail'[Len(tail')] = c /\ \A k \in 1..Len(tail) : tail'[k] = tail[k]
  BY <1>1
<1>3. \A s, id : ~Pending(s, id)
  BY <1>1, NonePending
<1>4. ShapesKept' /\ TypesKept' /\ PhaseKept'
  BY <1>1, <1>2 DEF ShapesKept, TypesKept, PhaseKept, Ready, Loader
<1>5. TreesKept'
  <2>1. ASSUME NEW s \in Section, NEW id \in Id
        PROVE  TouchedIn(tail, s, id, 1, Len(tail))' \/ Agree(s, image, trees, id)
    <3>1. TouchedIn(tail, s, id, 1, Len(tail)) \/ Agree(s, image, trees, id)
      BY <1>1 DEF TreesKept, Applied
    <3>2. TouchedIn(tail, s, id, 1, Len(tail)) => TouchedIn(tail', s, id, 1, Len(tail'))
      BY <1>2, SameLog
    <3> QED
      BY <3>1, <3>2
  <2> QED
    BY <2>1, <1>1 DEF TreesKept, Applied
<1>6. SnapKept'
  <2>1. FileKept(snap, snap.has)
    BY DEF SnapKept
  <2>2. snap.seq = seq /\ ~snap.ahead =>
          /\ snap.cut \in 0..Len(tail')
          /\ \A s \in snap.has, id \in Id :
               TouchedIn(tail', s, id, 1, snap.cut) \/ Right(s, image', Cut(snap, s), id)
    BY <2>1, <1>1, <1>2, FileStays
  <2> QED
    BY <2>2, <1>1 DEF SnapKept, FileKept, Cut
<1>7. WritingKept'
  <2>1. CASE writing.step # "sections"
    BY <2>1, <1>1 DEF WritingKept
  <2>2. CASE writing.step = "sections"
    <3>1. FileKept(writing.file, writing.file.has \ writing.left)
      BY <2>2 DEF WritingKept
    <3>2. writing.file.seq = seq /\ ~writing.file.ahead =>
            /\ writing.file.cut \in 0..Len(tail')
            /\ \A s \in writing.file.has \ writing.left, id \in Id :
                 \/ TouchedIn(tail', s, id, 1, writing.file.cut)
                 \/ Right(s, image', Cut(writing.file, s), id)
      BY <3>1, <1>1, <1>2, FileStays
    <3>3. FileKept(writing.file, writing.file.has \ writing.left)'
      BY <3>2, <1>1 DEF FileKept, Cut
    <3> QED
      BY <2>2, <3>3, <1>1 DEF WritingKept, Ready
  <2> QED
    BY <2>1, <2>2
<1>8. ApplyingKept'
  <2>1. applying'.steps = Steps(c) /\ applying'.change = c
    BY <1>1
  <2>2. "trees" \in Left'
    BY <2>1, StepsBegin DEF Left
  <2>3. tail' # <<>>
    BY <1>2
  <2> QED
    BY <1>1, <1>2, <2>1, <2>2, <2>3, StepsBegin DEF ApplyingKept
<1>9. FactsKept' /\ BloomKept' /\ VectorsKept' /\ ScanKept' /\ PageKept'
  BY <1>1, <1>3 DEF FactsKept, BloomKept, VectorsKept, ScanKept, PageKept, FactsToLoad
<1>10. RestoredKept'
  BY <1>1, RestoredFrame
<1> QED
  BY <1>4, <1>5, <1>6, <1>7, <1>8, <1>9, <1>10

(* The operations on a link append a change each.                          *)
LEMMA WritesKeep ==
    ASSUME IInv, CreateLink \/ UpdateLink \/ DeleteLink \/ PutLinkVector
    PROVE  IInv'
<1>1. Typed(trees)
  BY DEF IInv, StoreInv, TypesKept
<1>2. CASE CreateLink
  <2>1. PICK url \in Url :
          Commit([op |-> "create", id |-> trees.next, url |-> url, text |-> TRUE])
    BY <1>2 DEF CreateLink
  <2>2. [op |-> "create", id |-> trees.next, url |-> url, text |-> TRUE] \in Change
    BY <1>2 DEF CreateLink, Change, Op
  <2> QED
    BY <2>1, <2>2, CommitKeeps
<1>3. CASE UpdateLink
  <2>1. PICK id \in DOMAIN trees.links, url \in Url, text \in BOOLEAN :
          Commit([op |-> "update", id |-> id, url |-> url, text |-> text])
    BY <1>3 DEF UpdateLink
  <2>2. [op |-> "update", id |-> id, url |-> url, text |-> text] \in Change
    BY <1>1 DEF Typed, Change, Op
  <2> QED
    BY <2>1, <2>2, CommitKeeps
<1>4. CASE DeleteLink \/ PutLinkVector
  <2>1. PICK op \in {"delete", "vector"}, id \in DOMAIN trees.links :
          Commit([op |-> op, id |-> id, url |-> trees.links[id], text |-> FALSE])
    BY <1>4 DEF DeleteLink, PutLinkVector
  <2>2. [op |-> op, id |-> id, url |-> trees.links[id], text |-> FALSE] \in Change
    BY <1>1 DEF Typed, Change, Op
  <2> QED
    BY <2>1, <2>2, CommitKeeps
<1> QED
  BY <1>2, <1>3, <1>4

-----------------------------------------------------------------------------
(* The steps of apply.                                                     *)

(* Sequences of a few steps.                                               *)
LEMMA FewSteps ==
    ASSUME NEW a, NEW b, NEW c, NEW d
    PROVE  /\ {<<a>>[k] : k \in DOMAIN <<a>>} = {a}
           /\ {<<a, b>>[k] : k \in DOMAIN <<a, b>>} = {a, b}
           /\ {<<a, b, c>>[k] : k \in DOMAIN <<a, b, c>>} = {a, b, c}
           /\ {<<a, b, c, d>>[k] : k \in DOMAIN <<a, b, c, d>>} = {a, b, c, d}
           /\ Tail(<<a, b>>) = <<b>> /\ Tail(<<a, b, c>>) = <<b, c>>
           /\ Tail(<<a, b, c, d>>) = <<b, c, d>>
OBVIOUS

(* What apply has left of a change: the step that is taken, and then       *)
(* everything but that.                                                    *)
LEMMA StepTaken ==
    ASSUME TypesKept, ApplyingKept, NEW step, ApplyStep(step)
    PROVE  /\ applying # NotApplying
           /\ applying.change \in Change /\ phase = "up" /\ tail # <<>>
           /\ applying.change = tail[Len(tail)]
           /\ step \in Left /\ Left' = Left \ {step}
           /\ applying' # NotApplying =>
                /\ applying' = [change |-> applying.change, steps |-> applying'.steps]
                /\ applying'.steps \in StepsLeft(applying.change)
           /\ step = "trees" \/ Reflects(trees, applying.change)
           /\ \A s \in Left \cap Section : Touches(s, applying.change)
           /\ step = "trees" =>
                \A s \in Section :
                   Touches(s, applying.change) =>
                     s \in Left \/ (s = "bloom" /\ applying.change.op = "delete")
<1> DEFINE c == applying.change
           q == applying.steps
<1>1. q # <<>> /\ Head(q) = step
      /\ applying' = (IF Len(q) = 1 THEN NotApplying ELSE [applying EXCEPT !.steps = Tail(q)])
  BY DEF ApplyStep
<1>2. applying # NotApplying
  BY <1>1 DEF NotApplying
<1>3. /\ phase = "up" /\ tail # <<>> /\ c = tail[Len(tail)] /\ tail \in Seq(Change)
      /\ applying = [change |-> c, steps |-> q] /\ q \in StepsLeft(c)
      /\ "trees" \in Left \/ Reflects(trees, c)
  BY <1>2 DEF ApplyingKept, TypesKept
<1>4. c \in Change
  BY <1>3
<1>5. Left = {q[k] : k \in DOMAIN q} /\ Left' = {applying'.steps[k] : k \in DOMAIN applying'.steps}
  BY DEF Left
<1>6. /\ Len(q) = 1 => applying' = NotApplying /\ Left' = {}
      /\ Len(q) # 1 => applying' = [change |-> c, steps |-> Tail(q)] /\ applying'.steps = Tail(q)
  <2>1. Len(q) = 1 => applying' = NotApplying
    BY <1>1
  <2>2. NotApplying.steps = <<>>
    BY DEF NotApplying
  <2>3. Len(q) = 1 => Left' = {}
    BY <2>1, <2>2, <1>5
  <2>4. Len(q) # 1 => applying' = [change |-> c, steps |-> Tail(q)]
    BY <1>1, <1>3
  <2>5. [change |-> c, steps |-> Tail(q)].steps = Tail(q)
    OBVIOUS
  <2>6. Len(q) # 1 => applying'.steps = Tail(q)
    BY <2>4, <2>5, Zenon
  <2> QED
    BY <2>1, <2>3, <2>4, <2>6, Zenon
<1> HIDE DEF q, c
<1>7. CASE c.op = "create" \/ (c.op = "update" /\ ~c.text)
  <2>1. q \in {<<"trees", "bloom", "facts">>, <<"bloom", "facts">>, <<"facts">>}
        /\ StepsLeft(c) = {<<"trees", "bloom", "facts">>, <<"bloom", "facts">>, <<"facts">>}
    BY <1>3, <1>7 DEF StepsLeft
  <2>2. /\ step \in Left /\ Left' = Left \ {step}
        /\ Len(q) # 1 => Tail(q) \in StepsLeft(c)
        /\ step # "trees" => "trees" \notin Left
        /\ Left \subseteq {"trees", "bloom", "facts"}
        /\ step = "trees" => Left = {"trees", "bloom", "facts"}
    <3>1. CASE q = <<"trees", "bloom", "facts">>
      <4>1. step = "trees" /\ Len(q) = 3 /\ Left = {"trees", "bloom", "facts"}
        BY <3>1, <1>1, <1>5, FewSteps
      <4>2. Tail(q) = <<"bloom", "facts">> /\ Left' = {"bloom", "facts"}
        BY <3>1, <4>1, <1>5, <1>6, FewSteps
      <4> QED
        BY <4>1, <4>2, <2>1
    <3>2. CASE q = <<"bloom", "facts">>
      <4>1. step = "bloom" /\ Len(q) = 2 /\ Left = {"bloom", "facts"}
        BY <3>2, <1>1, <1>5, FewSteps
      <4>2. Tail(q) = <<"facts">> /\ Left' = {"facts"}
        BY <3>2, <4>1, <1>5, <1>6, FewSteps
      <4> QED
        BY <4>1, <4>2, <2>1
    <3>3. CASE q = <<"facts">>
      <4>1. step = "facts" /\ Len(q) = 1 /\ Left = {"facts"}
        BY <3>3, <1>1, <1>5, FewSteps
      <4>2. Left' = {}
        BY <3>3, <4>1, <1>5, <1>6, FewSteps
      <4> QED
        BY <4>1, <4>2, <2>1
    <3> QED
      BY <2>1, <3>1, <3>2, <3>3
  <2>3. ~Touches("vectors", c) /\ Touches("bloom", c) /\ Touches("facts", c)
    BY <1>7 DEF Touches, DropsVector
  <2> QED
    BY <1>2, <1>3, <1>4, <1>6, <2>2, <2>3 DEF c, Section
<1>8. CASE c.op = "update" /\ c.text
  <2>1. q \in {<<"trees", "vectors", "bloom", "facts">>, <<"vectors", "bloom", "facts">>,
               <<"bloom", "facts">>, <<"facts">>}
        /\ StepsLeft(c) = {<<"trees", "vectors", "bloom", "facts">>, <<"vectors", "bloom", "facts">>,
               <<"bloom", "facts">>, <<"facts">>}
    BY <1>3, <1>8 DEF StepsLeft
  <2>2. /\ step \in Left /\ Left' = Left \ {step}
        /\ Len(q) # 1 => Tail(q) \in StepsLeft(c)
        /\ step # "trees" => "trees" \notin Left
        /\ Left \subseteq {"trees", "vectors", "bloom", "facts"}
        /\ step = "trees" => Left = {"trees", "vectors", "bloom", "facts"}
    <3>1. CASE q = <<"trees", "vectors", "bloom", "facts">>
      <4>1. step = "trees" /\ Len(q) = 4 /\ Left = {"trees", "vectors", "bloom", "facts"}
        BY <3>1, <1>1, <1>5, FewSteps
      <4>2. Tail(q) = <<"vectors", "bloom", "facts">> /\ Left' = {"vectors", "bloom", "facts"}
        BY <3>1, <4>1, <1>5, <1>6, FewSteps
      <4> QED
        BY <4>1, <4>2, <2>1
    <3>2. CASE q = <<"vectors", "bloom", "facts">>
      <4>1. step = "vectors" /\ Len(q) = 3 /\ Left = {"vectors", "bloom", "facts"}
        BY <3>2, <1>1, <1>5, FewSteps
      <4>2. Tail(q) = <<"bloom", "facts">> /\ Left' = {"bloom", "facts"}
        BY <3>2, <4>1, <1>5, <1>6, FewSteps
      <4> QED
        BY <4>1, <4>2, <2>1
    <3>3. CASE q = <<"bloom", "facts">>
      <4>1. step = "bloom" /\ Len(q) = 2 /\ Left = {"bloom", "facts"}
        BY <3>3, <1>1, <1>5, FewSteps
      <4>2. Tail(q) = <<"facts">> /\ Left' = {"facts"}
        BY <3>3, <4>1, <1>5, <1>6, FewSteps
      <4> QED
        BY <4>1, <4>2, <2>1
    <3>4. CASE q = <<"facts">>
      <4>1. step = "facts" /\ Len(q) = 1 /\ Left = {"facts"}
        BY <3>4, <1>1, <1>5, FewSteps
      <4>2. Left' = {}
        BY <3>4, <4>1, <1>5, <1>6, FewSteps
      <4> QED
        BY <4>1, <4>2, <2>1
    <3> QED
      BY <2>1, <3>1, <3>2, <3>3, <3>4
  <2>3. Touches("vectors", c) /\ Touches("bloom", c) /\ Touches("facts", c)
    BY <1>8 DEF Touches, DropsVector
  <2> QED
    BY <1>2, <1>3, <1>4, <1>6, <2>2, <2>3 DEF c, Section
<1>9. CASE c.op = "delete"
  <2>1. q \in {<<"trees", "vectors", "facts">>, <<"vectors", "facts">>, <<"facts">>}
        /\ StepsLeft(c) = {<<"trees", "vectors", "facts">>, <<"vectors", "facts">>, <<"facts">>}
    BY <1>3, <1>9 DEF StepsLeft
  <2>2. /\ step \in Left /\ Left' = Left \ {step}
        /\ Len(q) # 1 => Tail(q) \in StepsLeft(c)
        /\ step # "trees" => "trees" \notin Left
        /\ Left \subseteq {"trees", "vectors", "facts"}
        /\ step = "trees" => Left = {"trees", "vectors", "facts"}
    <3>1. CASE q = <<"trees", "vectors", "facts">>
      <4>1. step = "trees" /\ Len(q) = 3 /\ Left = {"trees", "vectors", "facts"}
        BY <3>1, <1>1, <1>5, FewSteps
      <4>2. Tail(q) = <<"vectors", "facts">> /\ Left' = {"vectors", "facts"}
        BY <3>1, <4>1, <1>5, <1>6, FewSteps
      <4> QED
        BY <4>1, <4>2, <2>1
    <3>2. CASE q = <<"vectors", "facts">>
      <4>1. step = "vectors" /\ Len(q) = 2 /\ Left = {"vectors", "facts"}
        BY <3>2, <1>1, <1>5, FewSteps
      <4>2. Tail(q) = <<"facts">> /\ Left' = {"facts"}
        BY <3>2, <4>1, <1>5, <1>6, FewSteps
      <4> QED
        BY <4>1, <4>2, <2>1
    <3>3. CASE q = <<"facts">>
      <4>1. step = "facts" /\ Len(q) = 1 /\ Left = {"facts"}
        BY <3>3, <1>1, <1>5, FewSteps
      <4>2. Left' = {}
        BY <3>3, <4>1, <1>5, <1>6, FewSteps
      <4> QED
        BY <4>1, <4>2, <2>1
    <3> QED
      BY <2>1, <3>1, <3>2, <3>3
  <2>3. Touches("vectors", c) /\ Touches("facts", c)
    BY <1>9 DEF Touches, DropsVector
  <2> QED
    BY <1>2, <1>3, <1>4, <1>6, <1>9, <2>2, <2>3 DEF c, Section
<1>10. CASE c.op = "vector"
  <2>1. q \in {<<"trees", "vectors">>, <<"vectors">>}
        /\ StepsLeft(c) = {<<"trees", "vectors">>, <<"vectors">>}
    BY <1>3, <1>10 DEF StepsLeft
  <2>2. /\ step \in Left /\ Left' = Left \ {step}
        /\ Len(q) # 1 => Tail(q) \in StepsLeft(c)
        /\ step # "trees" => "trees" \notin Left
        /\ Left \subseteq {"trees", "vectors"}
        /\ step = "trees" => Left = {"trees", "vectors"}
    <3>1. CASE q = <<"trees", "vectors">>
      <4>1. step = "trees" /\ Len(q) = 2 /\ Left = {"trees", "vectors"}
        BY <3>1, <1>1, <1>5, FewSteps
      <4>2. Tail(q) = <<"vectors">> /\ Left' = {"vectors"}
        BY <3>1, <4>1, <1>5, <1>6, FewSteps
      <4> QED
        BY <4>1, <4>2, <2>1
    <3>2. CASE q = <<"vectors">>
      <4>1. step = "vectors" /\ Len(q) = 1 /\ Left = {"vectors"}
        BY <3>2, <1>1, <1>5, FewSteps
      <4>2. Left' = {}
        BY <3>2, <4>1, <1>5, <1>6, FewSteps
      <4> QED
        BY <4>1, <4>2, <2>1
    <3> QED
      BY <2>1, <3>1, <3>2
  <2>3. Touches("vectors", c) /\ ~Touches("bloom", c) /\ ~Touches("facts", c)
    BY <1>10 DEF Touches, DropsVector
  <2> QED
    BY <1>2, <1>3, <1>4, <1>6, <2>2, <2>3 DEF c, Section
<1> QED
  BY <1>4, <1>7, <1>8, <1>9, <1>10 DEF Change, Op

(* What a step of apply leaves: the store, the snapshot, the phase and,    *)
(* for every index it does not write, what is pending.                     *)
LEMMA StepFrame ==
    ASSUME IInv, NEW step, ApplyStep(step)
    PROVE  /\ UNCHANGED <<image, seq, tail, snap, phase, replayed, drained, writing, ahead>>
           /\ \A s, id : Pending(s, id) /\ s # step => Pending(s, id)'
           /\ \A s, id : Pending(s, id)' => Pending(s, id)
           /\ phase = "up" /\ RestoredKept' /\ writes' = writes
<1>1. /\ Left' = Left \ {step} /\ phase = "up"
      /\ applying' # NotApplying => applying'.change = applying.change
  BY StepTaken DEF IInv, StoreInv
<1>2. UNCHANGED <<image, seq, tail, snap, phase, replayed, drained, writing, ahead, writes>>
  BY DEF ApplyStep, store, history
<1>3. ASSUME applying' = NotApplying PROVE Left' = {}
  BY <1>3 DEF Left, NotApplying
<1>4. \A s, id : Pending(s, id) /\ s # step => Pending(s, id)'
  BY <1>1, <1>3 DEF Pending
<1>5. \A s, id : Pending(s, id)' => Pending(s, id)
  BY <1>1, <1>3 DEF Pending
<1> QED
  BY <1>1, <1>2, <1>4, <1>5, RestoredFrame

(* apply has less to do, and the trees go on having the change.            *)
LEMMA StepApplies ==
    ASSUME IInv, NEW step, ApplyStep(step), Reflects(trees', applying.change)
    PROVE  ApplyingKept'
<1>1. ASSUME applying' # NotApplying
      PROVE  /\ applying' = [change |-> applying.change, steps |-> applying'.steps]
             /\ applying'.steps \in StepsLeft(applying.change)
             /\ tail # <<>> /\ applying.change = tail[Len(tail)]
  BY <1>1, StepTaken DEF IInv, StoreInv
<1>2. ASSUME applying' # NotApplying PROVE applying'.change = applying.change
  BY <1>1, <1>2
<1>3. phase' = "up" /\ tail' = tail
  BY StepFrame
<1> QED
  BY <1>1, <1>2, <1>3 DEF ApplyingKept

(* The trees are written: what depends on them is right, or pending.       *)
LEMMA ApplyTreesKeeps ==
    ASSUME IInv, ApplyTrees
    PROVE  IInv'
<1> DEFINE c == applying.change
<1>1. ApplyStep("trees") /\ trees' = ChangedTrees(trees, c) /\ UNCHANGED <<facts, bloom, vectors>>
  BY DEF ApplyTrees
<1>2. /\ UNCHANGED <<image, seq, tail, snap, phase, replayed, drained, writing, ahead>>
      /\ \A s \in Section : \A id : Pending(s, id) => Pending(s, id)'
      /\ phase = "up" /\ RestoredKept'
  BY <1>1, StepFrame DEF Section
<1>3. /\ c \in Change /\ tail # <<>> /\ c = tail[Len(tail)]
      /\ \A s \in Section : Touches(s, c) => s \in Left \/ (s = "bloom" /\ c.op = "delete")
  BY <1>1, StepTaken DEF IInv, StoreInv
<1>4. Reflects(trees', c) /\ Typed(trees')
  BY <1>1, <1>3, ChangeReflected, ChangeTyped DEF IInv, StoreInv, TypesKept
<1>5. \A s, id : id # c.id \/ ~Touches(s, c) => Agree(s, trees, trees', id)
  BY <1>1, <1>3, ChangeLeaves
<1> HIDE DEF c
<1>6. ASSUME NEW s \in Section, NEW id, id = c.id, Touches(s, c)
      PROVE  Pending(s, id)' \/ (s = "bloom" /\ id \notin DOMAIN trees'.links)
  <2>1. Pending(s, id) \/ (s = "bloom" /\ c.op = "delete")
    BY <1>3, <1>6 DEF Pending, c
  <2> QED
    BY <2>1, <1>2, <1>4, <1>6 DEF Reflects
<1>7. ASSUME NEW s \in Section, NEW x, NEW id \in Id, Right(s, trees, x, id)
      PROVE  Right(s, trees', x, id) \/ Pending(s, id)'
  <2>1. CASE id # c.id \/ ~Touches(s, c)
    BY <2>1, <1>5, <1>7, AgreeRight
  <2>2. CASE id = c.id /\ Touches(s, c)
    BY <2>2, <1>6 DEF Right
  <2> QED
    BY <2>1, <2>2
<1>8. ASSUME NEW id \in Id
      PROVE  SameLink(trees.links, trees'.links, id) \/ Pending("facts", id)'
  <2>1. CASE id # c.id \/ ~Touches("facts", c)
    <3>1. Agree("facts", trees, trees', id)
      BY <2>1, <1>5
    <3> QED
      BY <3>1 DEF Agree, SameLink
  <2> QED
    BY <2>1, <1>6 DEF Section
<1>9. ASSUME NEW id \in Id
      PROVE  (id \in trees.vectors <=> id \in trees'.vectors) \/ Pending("vectors", id)'
  <2>1. CASE id # c.id \/ ~Touches("vectors", c)
    <3>1. Agree("vectors", trees, trees', id)
      BY <2>1, <1>5
    <3> QED
      BY <3>1 DEF Agree
  <2> QED
    BY <2>1, <1>6 DEF Section
<1>10. ASSUME NEW id \in Id
       PROVE  \/ SameLink(trees.links, trees'.links, id) \/ Pending("bloom", id)'
              \/ Right("bloom", trees', bloom.urls, id)
  <2>1. CASE id # c.id \/ ~Touches("bloom", c)
    <3>1. Agree("bloom", trees, trees', id)
      BY <2>1, <1>5
    <3> QED
      BY <3>1 DEF Agree, SameLink
  <2>2. CASE id = c.id /\ Touches("bloom", c)
    BY <2>2, <1>6 DEF Right, Section
  <2> QED
    BY <2>1, <2>2
<1>11. FactsKept'
  <2> SUFFICES ASSUME facts.loader \in LoadSteps \/ (facts.ready /\ ~ahead), NEW id \in Id
               PROVE  \/ Right("facts", trees', facts.links, id) \/ Pending("facts", id)'
                      \/ id \in DOMAIN trees'.links /\ id \notin facts.touched /\ FactsToLoad(id)
    BY <1>1, <1>2 DEF FactsKept, FactsToLoad
  <2>1. \/ Right("facts", trees, facts.links, id) \/ Pending("facts", id)
        \/ id \in DOMAIN trees.links /\ id \notin facts.touched /\ FactsToLoad(id)
    BY <1>2 DEF IInv, IndexInv, FactsKept
  <2> QED
    BY <2>1, <1>2, <1>7, <1>8 DEF SameLink, Section
<1>12. BloomKept'
  <2> SUFFICES ASSUME bloom.loader = "begin" \/ (bloom.ready /\ ~ahead), NEW id \in Id
               PROVE  \/ Right("bloom", trees', bloom.urls, id) \/ Pending("bloom", id)'
                      \/ /\ bloom.loader = "begin" /\ id > bloom.next
                         /\ SameLink(trees'.links, drained, id)
    BY <1>1, <1>2 DEF BloomKept
  <2>1. \/ Right("bloom", trees, bloom.urls, id) \/ Pending("bloom", id)
        \/ /\ bloom.loader = "begin" /\ id > bloom.next
           /\ SameLink(trees.links, drained, id)
    BY <1>2 DEF IInv, IndexInv, BloomKept
  <2> QED
    BY <2>1, <1>2, <1>7, <1>10 DEF SameLink, Section
<1>13. VectorsKept'
  <2> SUFFICES ASSUME vectors.loader = "begin" \/ (vectors.ready /\ ~ahead), NEW id \in Id
               PROVE  \/ Right("vectors", trees', vectors.ids, id) \/ Pending("vectors", id)'
                      \/ vectors.loader = "begin" /\ id > vectors.next /\ id \in trees'.vectors
    BY <1>1, <1>2 DEF VectorsKept
  <2>1. \/ Right("vectors", trees, vectors.ids, id) \/ Pending("vectors", id)
        \/ vectors.loader = "begin" /\ id > vectors.next /\ id \in trees.vectors
    BY <1>2 DEF IInv, IndexInv, VectorsKept
  <2> QED
    BY <2>1, <1>2, <1>7, <1>9 DEF Section
<1>14. ScanKept'
  BY <1>1, <1>2, <1>8 DEF IInv, IndexInv, ScanKept, SameLink, Section
<1>15. PageKept'
  <2>1. facts.loader = "load" => DOMAIN facts.page \subseteq Id
    BY DEF IInv, StoreInv, PhaseKept
  <2> QED
    BY <2>1, <1>1, <1>2, <1>8 DEF IInv, IndexInv, PageKept, SameLink, Section
<1>16. TreesKept'
  <2> SUFFICES ASSUME NEW s \in Section, NEW id \in Id
               PROVE  TouchedIn(tail, s, id, 1, Len(tail)) \/ Agree(s, image, trees', id)
    BY <1>2 DEF TreesKept, Applied
  <2>1. TouchedIn(tail, s, id, 1, Len(tail)) \/ Agree(s, image, trees, id)
    BY <1>2 DEF IInv, StoreInv, TreesKept, Applied
  <2>2. Len(tail) \in 1..Len(tail)
    BY <1>3 DEF IInv, StoreInv, TypesKept
  <2>3. id = c.id /\ Touches(s, c) => TouchedIn(tail, s, id, 1, Len(tail))
    BY <2>2, <1>3 DEF TouchedIn
  <2> QED
    BY <2>1, <2>3, <1>5, AgreeTrans
<1>17. SnapKept' /\ WritingKept' /\ ShapesKept' /\ PhaseKept' /\ TypesKept'
  <2>1. SnapKept'
    BY <1>2 DEF IInv, StoreInv, SnapKept, FileKept, TouchedIn, Cut
  <2>2. WritingKept'
    BY <1>1, <1>2, WritingFrame DEF IInv, StoreInv, Ready
  <2>3. ShapesKept' /\ PhaseKept'
    BY <1>1, <1>2 DEF IInv, StoreInv, ShapesKept, PhaseKept, Ready, Loader
  <2>4. TypesKept'
    BY <1>1, <1>2, <1>4 DEF IInv, StoreInv, TypesKept
  <2> QED
    BY <2>1, <2>2, <2>3, <2>4
<1>18. ApplyingKept'
  BY <1>1, <1>4, StepApplies DEF c
<1> QED
  BY <1>2, <1>11, <1>12, <1>13, <1>14, <1>15, <1>16, <1>17, <1>18 DEF IInv, StoreInv, IndexInv

(* The change reaches an index: it is right where it was, and where the    *)
(* change was pending.                                                     *)
LEMMA ChangeReaches ==
    ASSUME IInv, NEW s \in Section, ApplyStep(s), NEW x, NEW id,
           Right(s, trees, x, id) \/ Pending(s, id)
    PROVE  Right(s, trees, Changed(s, x, applying.change), id)
<1> DEFINE c == applying.change
<1>1. c \in Change /\ s # "trees" /\ s \in Left /\ Touches(s, c)
  BY StepTaken DEF IInv, StoreInv, Section
<1>2. Reflects(trees, c)
  BY <1>1, StepTaken DEF IInv, StoreInv
<1>3. Agree(s, trees, trees, id)
  BY DEF Agree, SameLink
<1>4. Pending(s, id) => id = c.id
  BY DEF Pending
<1> QED
  BY <1>1, <1>2, <1>3, <1>4, ChangedRight

(* Steps of apply after the first leave the trees and what is said of      *)
(* them.                                                                   *)
LEMMA IndexStepFrame ==
    ASSUME IInv, NEW s \in Section, ApplyStep(s), UNCHANGED trees,
           \A r \in Section : Ready(r)' = Ready(r)
    PROVE  TreesKept' /\ SnapKept' /\ WritingKept' /\ ApplyingKept' /\ RestoredKept'
<1>1. UNCHANGED <<image, seq, tail, snap, phase, replayed, drained, writing, ahead>> /\ RestoredKept'
  BY StepFrame
<1>2. TreesKept' /\ SnapKept'
  BY <1>1, StoreFrame DEF IInv, StoreInv, store
<1>3. WritingKept'
  BY <1>1, WritingFrame DEF IInv, StoreInv
<1>4. Reflects(trees, applying.change)
  BY StepTaken DEF IInv, StoreInv, Section
<1>5. ApplyingKept'
  BY <1>4, StepApplies
<1> QED
  BY <1>1, <1>2, <1>3, <1>5

(* The vectors get the change.                                             *)
LEMMA ApplyVectorsKeeps ==
    ASSUME IInv, ApplyVectors
    PROVE  IInv'
<1> DEFINE c == applying.change
<1>1. ApplyStep("vectors") /\ vectors' = ChangedVectors(vectors, c) /\ UNCHANGED <<trees, facts, bloom>>
  BY DEF ApplyVectors
<1>2. /\ UNCHANGED <<image, seq, tail, snap, phase, replayed, drained, writing, ahead>>
      /\ \A s, id : Pending(s, id) /\ s # "vectors" => Pending(s, id)'
      /\ phase = "up"
  BY <1>1, StepFrame
<1>3. /\ vectors'.ids = Changed("vectors", vectors.ids, c)
      /\ vectors'.ready = vectors.ready /\ vectors'.loader = vectors.loader
      /\ vectors'.next = vectors.next /\ DOMAIN vectors' = DOMAIN vectors
  BY <1>1 DEF ChangedVectors, Changed, IInv, StoreInv, ShapesKept
<1>4. \A r \in Section : Ready(r)' = Ready(r) /\ Loader(r)' = Loader(r)
  BY <1>1, <1>3 DEF Ready, Loader
<1>5. TreesKept' /\ SnapKept' /\ WritingKept' /\ ApplyingKept' /\ RestoredKept'
  BY <1>1, <1>4, IndexStepFrame DEF Section
<1>6. ShapesKept' /\ TypesKept' /\ PhaseKept'
  BY <1>1, <1>2, <1>3, <1>4 DEF IInv, StoreInv, ShapesKept, TypesKept, PhaseKept
<1>7. FactsKept' /\ BloomKept' /\ ScanKept' /\ PageKept'
  BY <1>1, <1>2 DEF IInv, IndexInv, FactsKept, BloomKept, ScanKept, PageKept, FactsToLoad
<1>8. VectorsKept'
  <2> SUFFICES ASSUME vectors.loader = "begin" \/ (vectors.ready /\ ~ahead), NEW id \in Id
               PROVE  \/ Right("vectors", trees, vectors'.ids, id)
                      \/ vectors.loader = "begin" /\ id > vectors.next /\ id \in trees.vectors
    BY <1>1, <1>2, <1>3 DEF VectorsKept
  <2>1. \/ Right("vectors", trees, vectors.ids, id) \/ Pending("vectors", id)
        \/ vectors.loader = "begin" /\ id > vectors.next /\ id \in trees.vectors
    BY <1>2 DEF IInv, IndexInv, VectorsKept
  <2> QED
    BY <2>1, <1>1, <1>3, ChangeReaches DEF Section
<1> QED
  BY <1>5, <1>6, <1>7, <1>8 DEF IInv, StoreInv, IndexInv

(* The filter gets the change.                                             *)
LEMMA ApplyBloomKeeps ==
    ASSUME IInv, ApplyBloom
    PROVE  IInv'
<1> DEFINE c == applying.change
<1>1. ApplyStep("bloom") /\ bloom' = ChangedBloom(bloom, c) /\ UNCHANGED <<trees, facts, vectors>>
  BY DEF ApplyBloom
<1>2. /\ UNCHANGED <<image, seq, tail, snap, phase, replayed, drained, writing, ahead>>
      /\ \A s, id : Pending(s, id) /\ s # "bloom" => Pending(s, id)'
      /\ phase = "up"
  BY <1>1, StepFrame
<1>3. /\ bloom'.urls = Changed("bloom", bloom.urls, c)
      /\ bloom'.ready = bloom.ready /\ bloom'.loader = bloom.loader
      /\ bloom'.next = bloom.next /\ DOMAIN bloom' = DOMAIN bloom
  BY <1>1 DEF ChangedBloom, Changed, IInv, StoreInv, ShapesKept
<1>4. \A r \in Section : Ready(r)' = Ready(r) /\ Loader(r)' = Loader(r)
  BY <1>1, <1>3 DEF Ready, Loader
<1>5. TreesKept' /\ SnapKept' /\ WritingKept' /\ ApplyingKept' /\ RestoredKept'
  BY <1>1, <1>4, IndexStepFrame DEF Section
<1>6. ShapesKept' /\ TypesKept' /\ PhaseKept'
  BY <1>1, <1>2, <1>3, <1>4 DEF IInv, StoreInv, ShapesKept, TypesKept, PhaseKept
<1>7. FactsKept' /\ VectorsKept' /\ ScanKept' /\ PageKept'
  BY <1>1, <1>2 DEF IInv, IndexInv, FactsKept, VectorsKept, ScanKept, PageKept, FactsToLoad
<1>8. BloomKept'
  <2> SUFFICES ASSUME bloom.loader = "begin" \/ (bloom.ready /\ ~ahead), NEW id \in Id
               PROVE  \/ Right("bloom", trees, bloom'.urls, id)
                      \/ /\ bloom.loader = "begin" /\ id > bloom.next
                         /\ SameLink(trees.links, drained, id)
    BY <1>1, <1>2, <1>3 DEF BloomKept
  <2>1. \/ Right("bloom", trees, bloom.urls, id) \/ Pending("bloom", id)
        \/ /\ bloom.loader = "begin" /\ id > bloom.next
           /\ SameLink(trees.links, drained, id)
    BY <1>2 DEF IInv, IndexInv, BloomKept
  <2> QED
    BY <2>1, <1>1, <1>3, ChangeReaches DEF Section
<1> QED
  BY <1>5, <1>6, <1>7, <1>8 DEF IInv, StoreInv, IndexInv

(* The facts get the change; a load that runs is told of it.               *)
LEMMA ObserveKeeps ==
    ASSUME IInv, Observe
    PROVE  IInv'
<1> DEFINE c == applying.change
<1>1. ApplyStep("facts") /\ facts' = Observed(facts, c) /\ UNCHANGED <<trees, bloom, vectors>>
  BY DEF Observe
<1>2. /\ UNCHANGED <<image, seq, tail, snap, phase, replayed, drained, writing, ahead>>
      /\ \A s, id : Pending(s, id) /\ s # "facts" => Pending(s, id)'
      /\ phase = "up"
  BY <1>1, StepFrame
<1>3. c \in Change /\ "facts" \in Left /\ Touches("facts", c)
  BY <1>1, StepTaken DEF IInv, StoreInv, Section
<1>4. /\ facts'.links = Changed("facts", facts.links, c)
      /\ facts'.touched = IF facts.loading THEN facts.touched \cup {c.id} ELSE facts.touched
      /\ facts'.ready = facts.ready /\ facts'.loader = facts.loader /\ facts'.loading = facts.loading
      /\ facts'.after = facts.after /\ facts'.page = facts.page /\ facts'.more = facts.more
      /\ DOMAIN facts' = DOMAIN facts
  BY <1>1, <1>3 DEF Observed, Changed, IInv, StoreInv, ShapesKept, Touches, Change, Op
<1>5. \A r \in Section : Ready(r)' = Ready(r) /\ Loader(r)' = Loader(r)
  BY <1>1, <1>4 DEF Ready, Loader
<1>6. TreesKept' /\ SnapKept' /\ WritingKept' /\ ApplyingKept' /\ RestoredKept'
  BY <1>1, <1>5, IndexStepFrame DEF Section
<1>7. ShapesKept' /\ TypesKept' /\ PhaseKept'
  BY <1>1, <1>2, <1>4, <1>5 DEF IInv, StoreInv, ShapesKept, TypesKept, PhaseKept
<1>8. BloomKept' /\ VectorsKept'
  BY <1>1, <1>2 DEF IInv, IndexInv, BloomKept, VectorsKept
<1>9. \A id : Pending("facts", id) <=> id = c.id
  BY <1>3 DEF Pending
<1>10. ASSUME facts.loader \in {"drain", "scan", "load", "finish"}
       PROVE  facts'.touched = facts.touched \cup {c.id}
  BY <1>4, <1>10 DEF IInv, StoreInv, PhaseKept
<1>11. FactsKept'
  <2> SUFFICES ASSUME facts.loader \in LoadSteps \/ (facts.ready /\ ~ahead), NEW id \in Id
               PROVE  \/ Right("facts", trees, facts'.links, id)
                      \/ id \in DOMAIN trees.links /\ id \notin facts'.touched /\ FactsToLoad(id)
    BY <1>1, <1>2, <1>4 DEF FactsKept, FactsToLoad
  <2>1. \/ Right("facts", trees, facts.links, id) \/ id = c.id
        \/ id \in DOMAIN trees.links /\ id \notin facts.touched /\ FactsToLoad(id)
    BY <1>2, <1>9 DEF IInv, IndexInv, FactsKept
  <2>2. CASE Right("facts", trees, facts.links, id) \/ id = c.id
    BY <2>2, <1>1, <1>4, <1>9, ChangeReaches DEF Section
  <2>3. CASE id # c.id /\ id \in DOMAIN trees.links /\ id \notin facts.touched /\ FactsToLoad(id)
    BY <2>3, <1>4
  <2> QED
    BY <2>1, <2>2, <2>3
<1>12. ScanKept'
  <2> SUFFICES ASSUME facts.loader = "scan", NEW id \in Id
               PROVE  SameLink(trees.links, drained, id) \/ id \in facts'.touched
    BY <1>1, <1>2, <1>4 DEF ScanKept
  <2> QED
    BY <1>9, <1>10 DEF IInv, IndexInv, ScanKept
<1>13. PageKept'
  <2> SUFFICES ASSUME facts.loader = "load", NEW id \in DOMAIN facts.page
               PROVE  \/ id \in DOMAIN trees.links /\ trees.links[id] = facts.page[id]
                      \/ id \in facts'.touched
    BY <1>1, <1>4 DEF PageKept
  <2> QED
    BY <1>9, <1>10 DEF IInv, IndexInv, PageKept
<1> QED
  BY <1>6, <1>7, <1>8, <1>11, <1>12, <1>13 DEF IInv, StoreInv, IndexInv

-----------------------------------------------------------------------------
(* The memtable flusher and the loaders.                                   *)

(* A step beside the writes that changes neither trees nor store.          *)
LEMMA BesideFrame ==
    ASSUME IInv, phase = "up", UNCHANGED store, UNCHANGED history,
           UNCHANGED <<phase, replayed, trees, applying, writing>>,
           \A s \in Section : Ready(s) => Ready(s)'
    PROVE  TreesKept' /\ SnapKept' /\ WritingKept' /\ ApplyingKept' /\ RestoredKept'
<1>1. UNCHANGED <<image, seq, tail, snap, ahead>> /\ phase' # "replay"
  BY DEF store, history
<1>2. TreesKept' /\ SnapKept'
  BY StoreFrame DEF IInv, StoreInv
<1>3. WritingKept'
  BY <1>1, WritingFrame DEF IInv, StoreInv
<1>4. ApplyingKept'
  BY <1>1, ApplyingFrame DEF IInv
<1>5. RestoredKept'
  BY <1>1, RestoredFrame
<1> QED
  BY <1>2, <1>3, <1>4, <1>5

(* Draining a memtable changes nothing that is read.                       *)
LEMMA DrainKeeps ==
    ASSUME IInv, Drain
    PROVE  IInv'
<1>1. /\ phase = "up" /\ drained' = trees.links /\ UNCHANGED store /\ UNCHANGED history
      /\ UNCHANGED <<phase, replayed, trees, applying, facts, bloom, vectors, writing>>
  BY DEF Drain
<1>2. UNCHANGED <<image, seq, tail, snap, ahead>>
  BY <1>1 DEF store, history
<1>3. TreesKept' /\ SnapKept' /\ WritingKept' /\ ApplyingKept' /\ RestoredKept'
  BY <1>1, BesideFrame DEF Ready
<1>4. ShapesKept' /\ TypesKept' /\ PhaseKept'
  BY <1>1, <1>2 DEF IInv, StoreInv, ShapesKept, TypesKept, PhaseKept, Ready, Loader, Typed
<1>5. IndexInv'
  BY <1>1, <1>2, IndexFrame DEF IInv
<1> QED
  BY <1>3, <1>4, <1>5 DEF IInv, StoreInv

(* The seeder takes the next link, or has passed them all.                 *)
LEMMA SeedKeeps ==
    ASSUME IInv, SeedBloom
    PROVE  IInv'
<1> DEFINE from == From(DOMAIN drained, bloom.next)
<1>1. /\ phase = "up" /\ bloom.loader = "begin" /\ UNCHANGED store /\ UNCHANGED history
      /\ UNCHANGED <<phase, replayed, trees, drained, applying, facts, vectors, writing>>
      /\ bloom' = IF from = {} THEN [bloom EXCEPT !.ready = TRUE, !.loader = "off"]
                  ELSE Seeded(bloom, from, CHOOSE id \in from : TRUE)
  BY DEF SeedBloom
<1>2. UNCHANGED <<image, seq, tail, snap, ahead>>
  BY <1>1 DEF store, history
<1>3. DOMAIN drained \in SUBSET Nat /\ bloom.next \in Nat /\ ShapesKept /\ PhaseKept
  BY DEF IInv, StoreInv, TypesKept, Id
<1>4. ASSUME NEW id \in Id
      PROVE  \/ Right("bloom", trees, bloom.urls, id) \/ Pending("bloom", id)
             \/ id > bloom.next /\ SameLink(trees.links, drained, id)
  BY <1>1 DEF IInv, IndexInv, BloomKept
<1>5. FactsKept' /\ VectorsKept' /\ ScanKept' /\ PageKept'
  BY <1>1, <1>2, FactsFrame, VectorsFrame, ScanFrame DEF IInv, IndexInv
<1>6. CASE from = {}
  <2>1. /\ bloom'.ready = TRUE /\ bloom'.loader = "off" /\ bloom'.urls = bloom.urls
        /\ bloom'.next = bloom.next /\ DOMAIN bloom' = DOMAIN bloom
    BY <1>1, <1>3, <1>6 DEF ShapesKept
  <2>2. \A id \in DOMAIN drained : id <= bloom.next
    BY <1>3, <1>6, FromFinds
  <2>3. ASSUME NEW id \in Id
        PROVE  Right("bloom", trees, bloom.urls, id) \/ Pending("bloom", id)
    <3>1. id > bloom.next => id \notin DOMAIN drained
      BY <2>2, <1>3 DEF Id
    <3> QED
      BY <3>1, <1>4 DEF Right, SameLink
  <2>4. BloomKept'
    BY <2>1, <2>3, <1>1 DEF BloomKept, Pending, Left
  <2>5. ShapesKept' /\ TypesKept' /\ PhaseKept'
    BY <1>1, <1>2, <1>3, <2>1 DEF IInv, StoreInv, ShapesKept, TypesKept, PhaseKept, Ready, Loader,
       LoadSteps, Section, Typed
  <2>6. TreesKept' /\ SnapKept' /\ WritingKept' /\ ApplyingKept' /\ RestoredKept'
    <3>1. \A s \in Section : Ready(s) => Ready(s)'
      BY <1>1, <2>1 DEF Ready, Section
    <3> QED
      BY <1>1, <3>1, BesideFrame
  <2> QED
    BY <1>5, <2>4, <2>5, <2>6 DEF IInv, StoreInv, IndexInv
<1>7. CASE from # {}
  <2>1. PICK p \in DOMAIN drained :
          /\ from = {p} /\ p > bloom.next /\ (CHOOSE x \in from : TRUE) = p
          /\ \A id \in DOMAIN drained : id > bloom.next => id >= p
    BY <1>3, <1>7, FromIsNext
  <2> HIDE DEF from
  <2>2. bloom' = [bloom EXCEPT !.urls = @ \cup {drained[id] : id \in from}, !.next = p]
    BY <1>1, <1>7, <2>1 DEF Seeded
  <2>3. /\ bloom'.ready = bloom.ready /\ bloom'.loader = bloom.loader
        /\ bloom'.urls = bloom.urls \cup {drained[p]}
        /\ bloom'.next = p /\ DOMAIN bloom' = DOMAIN bloom
    BY <2>1, <2>2, <1>3 DEF ShapesKept
  <2>4. p \in Nat
    BY <1>3
  <2>5. ASSUME NEW id \in Id
        PROVE  \/ Right("bloom", trees, bloom'.urls, id) \/ Pending("bloom", id)
               \/ id > p /\ SameLink(trees.links, drained, id)
    <3>1. CASE Right("bloom", trees, bloom.urls, id) \/ Pending("bloom", id)
      BY <3>1, <2>3 DEF Right
    <3>2. CASE id > bloom.next /\ SameLink(trees.links, drained, id)
      <4>1. id \in DOMAIN drained => id = p \/ id > p
        BY <3>2, <2>1, <2>4 DEF Id
      <4> QED
        BY <4>1, <3>2, <2>3 DEF Right, SameLink
    <3> QED
      BY <3>1, <3>2, <1>4
  <2>6. BloomKept'
    BY <2>3, <2>5, <1>1 DEF BloomKept, Pending, Left
  <2>7. ShapesKept' /\ TypesKept' /\ PhaseKept'
    BY <1>1, <1>2, <1>3, <2>3, <2>4 DEF IInv, StoreInv, ShapesKept, TypesKept, PhaseKept, Ready,
       Loader, Typed
  <2>8. TreesKept' /\ SnapKept' /\ WritingKept' /\ ApplyingKept' /\ RestoredKept'
    BY <1>1, <2>3, BesideFrame DEF Ready
  <2> QED
    BY <1>5, <2>6, <2>7, <2>8 DEF IInv, StoreInv, IndexInv
<1> QED
  BY <1>6, <1>7

(* So does the loader of the vectors, which reads the trees as they are.   *)
LEMMA LoadVectorsKeeps ==
    ASSUME IInv, LoadVectorChunk
    PROVE  IInv'
<1> DEFINE from == From(trees.vectors, vectors.next)
<1>1. /\ phase = "up" /\ vectors.loader = "begin" /\ UNCHANGED store /\ UNCHANGED history
      /\ UNCHANGED <<phase, replayed, trees, drained, applying, facts, bloom, writing>>
      /\ vectors' = IF from = {} THEN [vectors EXCEPT !.ready = TRUE, !.loader = "off"]
                    ELSE ChunkLoaded(vectors, from)
  BY DEF LoadVectorChunk
<1>2. UNCHANGED <<image, seq, tail, snap, ahead>>
  BY <1>1 DEF store, history
<1>3. trees.vectors \in SUBSET Nat /\ vectors.next \in Nat /\ ShapesKept /\ PhaseKept
  BY DEF IInv, StoreInv, TypesKept, Typed, Id
<1>4. ASSUME NEW id \in Id
      PROVE  \/ Right("vectors", trees, vectors.ids, id) \/ Pending("vectors", id)
             \/ id > vectors.next /\ id \in trees.vectors
  BY <1>1 DEF IInv, IndexInv, VectorsKept
<1>5. FactsKept' /\ BloomKept' /\ ScanKept' /\ PageKept'
  BY <1>1, <1>2, FactsFrame, BloomFrame, ScanFrame DEF IInv, IndexInv
<1>6. CASE from = {}
  <2>1. /\ vectors'.ready = TRUE /\ vectors'.loader = "off" /\ vectors'.ids = vectors.ids
        /\ vectors'.next = vectors.next /\ DOMAIN vectors' = DOMAIN vectors
    BY <1>1, <1>3, <1>6 DEF ShapesKept
  <2>2. \A id \in trees.vectors : id <= vectors.next
    BY <1>3, <1>6, FromFinds
  <2>3. ASSUME NEW id \in Id
        PROVE  Right("vectors", trees, vectors.ids, id) \/ Pending("vectors", id)
    <3>1. id > vectors.next => id \notin trees.vectors
      BY <2>2, <1>3 DEF Id
    <3> QED
      BY <3>1, <1>4
  <2>4. VectorsKept'
    BY <2>1, <2>3, <1>1 DEF VectorsKept, Pending, Left
  <2>5. ShapesKept' /\ TypesKept' /\ PhaseKept'
    BY <1>1, <1>2, <1>3, <2>1 DEF IInv, StoreInv, ShapesKept, TypesKept, PhaseKept, Ready, Loader,
       LoadSteps, Section, Typed
  <2>6. TreesKept' /\ SnapKept' /\ WritingKept' /\ ApplyingKept' /\ RestoredKept'
    <3>1. \A s \in Section : Ready(s) => Ready(s)'
      BY <1>1, <2>1 DEF Ready, Section
    <3> QED
      BY <1>1, <3>1, BesideFrame
  <2> QED
    BY <1>5, <2>4, <2>5, <2>6 DEF IInv, StoreInv, IndexInv
<1>7. CASE from # {}
  <2>1. PICK p \in trees.vectors :
          /\ from = {p} /\ p > vectors.next /\ (CHOOSE x \in from : TRUE) = p
          /\ \A id \in trees.vectors : id > vectors.next => id >= p
    BY <1>3, <1>7, FromIsNext
  <2> HIDE DEF from
  <2>2. vectors' = [vectors EXCEPT !.ids = @ \cup {p}, !.next = p]
    BY <1>1, <1>7, <2>1 DEF ChunkLoaded
  <2>3. /\ vectors'.ready = vectors.ready /\ vectors'.loader = vectors.loader
        /\ vectors'.ids = vectors.ids \cup {p}
        /\ vectors'.next = p /\ DOMAIN vectors' = DOMAIN vectors
    BY <2>2, <1>3 DEF ShapesKept
  <2>4. p \in Nat
    BY <1>3
  <2>5. ASSUME NEW id \in Id
        PROVE  \/ Right("vectors", trees, vectors'.ids, id) \/ Pending("vectors", id)
               \/ id > p /\ id \in trees.vectors
    <3>1. CASE id = p
      BY <3>1, <2>1, <2>3 DEF Right
    <3>2. CASE id # p /\ (Right("vectors", trees, vectors.ids, id) \/ Pending("vectors", id))
      BY <3>2, <2>3 DEF Right
    <3>3. CASE id # p /\ id > vectors.next /\ id \in trees.vectors
      BY <3>3, <2>1, <2>4 DEF Id
    <3> QED
      BY <3>1, <3>2, <3>3, <1>4
  <2>6. VectorsKept'
    BY <2>3, <2>5, <1>1 DEF VectorsKept, Pending, Left
  <2>7. ShapesKept' /\ TypesKept' /\ PhaseKept'
    BY <1>1, <1>2, <1>3, <2>3, <2>4 DEF IInv, StoreInv, ShapesKept, TypesKept, PhaseKept, Ready,
       Loader, Typed
  <2>8. TreesKept' /\ SnapKept' /\ WritingKept' /\ ApplyingKept' /\ RestoredKept'
    BY <1>1, <2>3, BesideFrame DEF Ready
  <2> QED
    BY <1>5, <2>6, <2>7, <2>8 DEF IInv, StoreInv, IndexInv
<1> QED
  BY <1>6, <1>7

(* What is left to show of a step of the facts' loader.                    *)
LEMMA FactsStepFrame ==
    ASSUME IInv, NEW step, FactsStep(step), UNCHANGED drained \/ drained' = trees.links,
           facts.ready => facts'.ready
    PROVE  /\ phase = "up" /\ facts.loader = step
           /\ UNCHANGED <<image, seq, tail, snap, ahead, phase, replayed, trees, applying>>
           /\ UNCHANGED <<bloom, vectors, writing>>
           /\ TreesKept' /\ SnapKept' /\ WritingKept' /\ ApplyingKept' /\ RestoredKept'
           /\ BloomKept' /\ VectorsKept'
           /\ \A s, id : Pending(s, id)' <=> Pending(s, id)
<1>1. /\ phase = "up" /\ facts.loader = step /\ UNCHANGED store /\ UNCHANGED history
      /\ UNCHANGED <<phase, replayed, trees, applying, bloom, vectors, writing>>
  BY DEF FactsStep
<1>2. UNCHANGED <<image, seq, tail, snap, ahead>>
  BY <1>1 DEF store, history
<1>3. \A s \in Section : Ready(s) => Ready(s)'
  BY <1>1 DEF Ready, Section
<1>4. TreesKept' /\ SnapKept' /\ WritingKept' /\ ApplyingKept' /\ RestoredKept'
  BY <1>1, <1>3, BesideFrame
<1>5. BloomKept' /\ VectorsKept'
  BY <1>1, <1>2, BloomFrame, VectorsFrame DEF IInv, IndexInv
<1>6. \A s, id : Pending(s, id)' <=> Pending(s, id)
  BY <1>1 DEF Pending, Left
<1> QED
  BY <1>1, <1>2, <1>4, <1>5, <1>6

(* The loader starts, then brings the memtable down: what it will scan is  *)
(* what there is.                                                          *)
LEMMA BeginKeeps ==
    ASSUME IInv, BeginLoad \/ LoaderDrains
    PROVE  IInv'
<1>1. PICK step \in {"begin", "drain"} :
        /\ FactsStep(step)
        /\ step = "begin" => /\ facts' = [facts EXCEPT !.loading = TRUE, !.loader = "drain"]
                             /\ UNCHANGED drained
        /\ step = "drain" => /\ facts' = [facts EXCEPT !.loader = "scan"]
                             /\ drained' = trees.links
  BY DEF BeginLoad, LoaderDrains
<1>2. /\ facts'.links = facts.links /\ facts'.touched = facts.touched
      /\ facts'.ready = facts.ready /\ facts'.after = facts.after /\ facts'.page = facts.page
      /\ facts'.more = facts.more /\ DOMAIN facts' = DOMAIN facts
      /\ facts'.loader = (IF step = "begin" THEN "drain" ELSE "scan")
      /\ facts.loader = step
      /\ facts'.loading = TRUE \/ (step = "drain" /\ facts'.loading = facts.loading)
  BY <1>1 DEF FactsStep, IInv, StoreInv, ShapesKept
<1>3. /\ phase = "up" /\ facts.loader = step
      /\ UNCHANGED <<image, seq, tail, snap, ahead, phase, replayed, trees, applying>>
      /\ UNCHANGED <<bloom, vectors, writing>>
      /\ TreesKept' /\ SnapKept' /\ WritingKept' /\ ApplyingKept' /\ RestoredKept'
      /\ BloomKept' /\ VectorsKept'
      /\ \A s, id : Pending(s, id)' <=> Pending(s, id)
  BY <1>1, <1>2, FactsStepFrame
<1>4. FactsKept'
  BY <1>2, <1>3 DEF IInv, IndexInv, FactsKept, FactsToLoad, LoadSteps
<1>5. ScanKept' /\ PageKept'
  BY <1>1, <1>2, <1>3 DEF ScanKept, PageKept, SameLink
<1>6. ShapesKept' /\ TypesKept' /\ PhaseKept'
  BY <1>1, <1>2, <1>3 DEF IInv, StoreInv, ShapesKept, TypesKept, PhaseKept, Ready, Loader,
     LoadSteps, Section, Typed
<1> QED
  BY <1>3, <1>4, <1>5, <1>6 DEF IInv, StoreInv, IndexInv

(* It reads the next link, or finds none that it has not loaded.           *)
LEMMA ScanKeeps ==
    ASSUME IInv, LoaderScans
    PROVE  IInv'
<1> DEFINE from == From(DOMAIN drained, facts.after)
<1>1. /\ FactsStep("scan") /\ UNCHANGED drained
      /\ facts' = IF from = {} THEN [facts EXCEPT !.loader = "finish"]
                  ELSE [facts EXCEPT !.loader = "load", !.page = [id \in from |-> drained[id]],
                        !.more = \E id \in from : From(DOMAIN drained, id) # {}]
  BY DEF LoaderScans
<1>2. /\ DOMAIN drained \in SUBSET Nat /\ DOMAIN drained \subseteq Id /\ facts.after \in Nat
      /\ ShapesKept /\ PhaseKept
  BY DEF IInv, StoreInv, TypesKept, Id
<1>3. /\ facts'.links = facts.links /\ facts'.touched = facts.touched
      /\ facts'.ready = facts.ready /\ facts'.after = facts.after
      /\ facts'.loading = facts.loading /\ DOMAIN facts' = DOMAIN facts
  BY <1>1, <1>2 DEF ShapesKept
<1>4. /\ phase = "up" /\ facts.loader = "scan"
      /\ UNCHANGED <<image, seq, tail, snap, ahead, phase, replayed, trees, applying>>
      /\ UNCHANGED <<bloom, vectors, writing>>
      /\ TreesKept' /\ SnapKept' /\ WritingKept' /\ ApplyingKept' /\ RestoredKept'
      /\ BloomKept' /\ VectorsKept'
      /\ \A s, id : Pending(s, id)' <=> Pending(s, id)
  BY <1>1, <1>3, FactsStepFrame
<1>5. ASSUME NEW id \in Id
      PROVE  \/ Right("facts", trees, facts.links, id) \/ Pending("facts", id)
             \/ /\ id \in DOMAIN trees.links /\ id \notin facts.touched /\ id > facts.after
                /\ SameLink(trees.links, drained, id)
  <2>1. \/ Right("facts", trees, facts.links, id) \/ Pending("facts", id)
        \/ id \in DOMAIN trees.links /\ id \notin facts.touched /\ FactsToLoad(id)
    BY <1>4 DEF IInv, IndexInv, FactsKept, LoadSteps
  <2>2. SameLink(trees.links, drained, id) \/ id \in facts.touched \/ Pending("facts", id)
    BY <1>4 DEF IInv, IndexInv, ScanKept
  <2> QED
    BY <2>1, <2>2, <1>4 DEF FactsToLoad
<1>6. CASE from = {}
  <2>1. facts'.loader = "finish" /\ facts'.page = facts.page /\ facts'.more = facts.more
    BY <1>1, <1>2, <1>6 DEF ShapesKept
  <2>2. \A id \in DOMAIN drained : id <= facts.after
    BY <1>2, <1>6, FromFinds
  <2>3. ASSUME NEW id \in Id
        PROVE  Right("facts", trees, facts.links, id) \/ Pending("facts", id)
    <3>1. id > facts.after => id \notin DOMAIN drained
      BY <2>2, <1>2 DEF Id
    <3> QED
      BY <3>1, <1>5 DEF SameLink
  <2>4. FactsKept' /\ ScanKept' /\ PageKept'
    BY <2>1, <2>3, <1>3, <1>4 DEF FactsKept, ScanKept, PageKept
  <2>5. ShapesKept' /\ TypesKept' /\ PhaseKept'
    BY <1>1, <1>2, <1>3, <1>4, <2>1 DEF IInv, StoreInv, ShapesKept, TypesKept, PhaseKept, Ready,
       Loader, LoadSteps, Section, Typed
  <2> QED
    BY <1>4, <2>4, <2>5 DEF IInv, StoreInv, IndexInv
<1>7. CASE from # {}
  <2>1. PICK p \in DOMAIN drained :
          /\ from = {p} /\ p > facts.after /\ (CHOOSE x \in from : TRUE) = p
          /\ \A id \in DOMAIN drained : id > facts.after => id >= p
    BY <1>2, <1>7, FromIsNext
  <2> HIDE DEF from
  <2>2. facts' = [facts EXCEPT !.loader = "load", !.page = [id \in {p} |-> drained[id]],
                               !.more = \E id \in {p} : From(DOMAIN drained, id) # {}]
    BY <1>1, <1>7, <2>1
  <2>3. /\ facts'.loader = "load" /\ facts'.page = [id \in {p} |-> drained[id]]
        /\ facts'.more = (From(DOMAIN drained, p) # {})
    BY <2>2, <1>2 DEF ShapesKept
  <2>4. p \in Nat /\ p \in Id /\ DOMAIN facts'.page = {p} /\ facts'.page[p] = drained[p]
    BY <2>1, <2>3, <1>2
  <2>5. ~facts'.more => \A id \in DOMAIN drained : id <= p
    BY <2>3, <2>4, <1>2, FromFinds
  <2>6. ASSUME NEW id \in Id
        PROVE  \/ Right("facts", trees, facts.links, id) \/ Pending("facts", id)
               \/ /\ id \in DOMAIN trees.links /\ id \notin facts.touched
                  /\ id = p \/ (id > p /\ facts'.more)
    <3>1. CASE id > facts.after /\ id \in DOMAIN drained
      <4>1. id = p \/ id > p
        BY <3>1, <2>1, <2>4, <1>2
      <4>2. id > p => facts'.more
        BY <3>1, <2>4, <2>5, <1>2
      <4> QED
        BY <4>1, <4>2, <1>5
    <3>2. CASE ~(id > facts.after /\ id \in DOMAIN drained)
      BY <3>2, <1>5 DEF SameLink
    <3> QED
      BY <3>1, <3>2
  <2>7. FactsKept'
    <3>1. \A id \in Id : (id = p \/ (id > p /\ facts'.more)) => FactsToLoad(id)'
      BY <2>3, <2>4 DEF FactsToLoad
    <3> QED
      BY <2>3, <2>6, <3>1, <1>3, <1>4 DEF FactsKept
  <2>8. PageKept'
    <3>1. SameLink(trees.links, drained, p) \/ p \in facts.touched \/ Pending("facts", p)
      BY <2>4, <1>4 DEF IInv, IndexInv, ScanKept
    <3> QED
      BY <2>1, <2>4, <3>1, <1>3, <1>4 DEF PageKept, SameLink
  <2>9. ScanKept'
    BY <2>3 DEF ScanKept
  <2>10. ShapesKept' /\ TypesKept' /\ PhaseKept'
    BY <1>1, <1>2, <1>3, <1>4, <2>3, <2>4 DEF IInv, StoreInv, ShapesKept, TypesKept, PhaseKept,
       Ready, Loader, LoadSteps, Section, Typed
  <2> QED
    BY <1>4, <2>7, <2>8, <2>9, <2>10 DEF IInv, StoreInv, IndexInv
<1> QED
  BY <1>6, <1>7

(* It loads the link it read, unless a write was faster.                   *)
LEMMA LoadKeeps ==
    ASSUME IInv, LoadLink
    PROVE  IInv'
<1>1. PICK p \in DOMAIN facts.page :
        /\ FactsStep("load") /\ UNCHANGED drained
        /\ facts' = [facts EXCEPT !.links = Loaded(facts, p), !.after = p, !.page = <<>>,
                                  !.loader = IF facts.more THEN "drain" ELSE "finish",
                                  !.more = FALSE]
  BY DEF LoadLink
<1>2. /\ ShapesKept /\ PhaseKept /\ facts.loader = "load" /\ DOMAIN facts.page = {p} /\ p \in Id
      /\ p \in Nat
  BY <1>1 DEF IInv, StoreInv, PhaseKept, FactsStep, Id
<1>3. /\ facts'.links = Loaded(facts, p) /\ facts'.touched = facts.touched
      /\ facts'.ready = facts.ready /\ facts'.after = p /\ facts'.loading = facts.loading
      /\ facts'.loader = (IF facts.more THEN "drain" ELSE "finish") /\ DOMAIN facts' = DOMAIN facts
  BY <1>1, <1>2 DEF ShapesKept
<1>4. /\ phase = "up"
      /\ UNCHANGED <<image, seq, tail, snap, ahead, phase, replayed, trees, applying>>
      /\ UNCHANGED <<bloom, vectors, writing>>
      /\ TreesKept' /\ SnapKept' /\ WritingKept' /\ ApplyingKept' /\ RestoredKept'
      /\ BloomKept' /\ VectorsKept'
      /\ \A s, id : Pending(s, id)' <=> Pending(s, id)
  BY <1>1, <1>3, FactsStepFrame
<1>5. ASSUME NEW id \in Id
      PROVE  \/ Right("facts", trees, facts'.links, id) \/ Pending("facts", id)
             \/ id \in DOMAIN trees.links /\ id \notin facts.touched /\ id > p /\ facts.more
  <2>1. \/ Right("facts", trees, facts.links, id) \/ Pending("facts", id)
        \/ /\ id \in DOMAIN trees.links /\ id \notin facts.touched
           /\ id = p \/ (id > p /\ facts.more)
    BY <1>2, <1>4 DEF IInv, IndexInv, FactsKept, FactsToLoad, LoadSteps
  <2>2. CASE id # p \/ p \in facts.touched
    BY <2>1, <2>2, <1>3 DEF Loaded, With, Right, SameLink
  <2>3. CASE id = p /\ p \notin facts.touched
    <3>1. (p \in DOMAIN trees.links /\ trees.links[p] = facts.page[p]) \/ Pending("facts", p)
      BY <2>3, <1>2 DEF IInv, IndexInv, PageKept
    <3> QED
      BY <2>3, <3>1, <1>3 DEF Loaded, With, Right, SameLink
  <2> QED
    BY <2>2, <2>3
<1>6. FactsKept'
  <2>1. \A id \in Id : id > p /\ facts.more => FactsToLoad(id)'
    BY <1>3 DEF FactsToLoad
  <2> QED
    BY <2>1, <1>3, <1>4, <1>5 DEF FactsKept
<1>7. ScanKept' /\ PageKept'
  BY <1>3 DEF ScanKept, PageKept
<1>8. ShapesKept' /\ TypesKept' /\ PhaseKept'
  BY <1>1, <1>2, <1>3, <1>4 DEF IInv, StoreInv, ShapesKept, TypesKept, PhaseKept, Ready, Loader,
     LoadSteps, Section, Typed
<1> QED
  BY <1>4, <1>6, <1>7, <1>8 DEF IInv, StoreInv, IndexInv

(* The load is over: the index is ready.                                   *)
LEMMA FinishKeeps ==
    ASSUME IInv, FinishLoad
    PROVE  IInv'
<1>1. /\ FactsStep("finish") /\ UNCHANGED drained
      /\ facts' = [EmptyFacts EXCEPT !.links = facts.links, !.ready = TRUE]
  BY DEF FinishLoad
<1>2. /\ facts'.links = facts.links /\ facts'.touched = {} /\ facts'.ready = TRUE
      /\ facts'.after = 0 /\ facts'.loading = FALSE /\ facts'.loader = "off"
      /\ DOMAIN facts' = {"links", "touched", "loading", "ready", "loader", "after", "page", "more"}
  BY <1>1 DEF EmptyFacts
<1>3. /\ phase = "up" /\ facts.loader = "finish"
      /\ UNCHANGED <<image, seq, tail, snap, ahead, phase, replayed, trees, applying>>
      /\ UNCHANGED <<bloom, vectors, writing>>
      /\ TreesKept' /\ SnapKept' /\ WritingKept' /\ ApplyingKept' /\ RestoredKept'
      /\ BloomKept' /\ VectorsKept'
      /\ \A s, id : Pending(s, id)' <=> Pending(s, id)
  BY <1>1, <1>2, FactsStepFrame
<1>4. \A id \in Id : Right("facts", trees, facts.links, id) \/ Pending("facts", id)
  BY <1>3 DEF IInv, IndexInv, FactsKept, FactsToLoad, LoadSteps
<1>5. FactsKept' /\ ScanKept' /\ PageKept'
  BY <1>2, <1>3, <1>4 DEF FactsKept, ScanKept, PageKept
<1>6. ShapesKept' /\ TypesKept' /\ PhaseKept'
  BY <1>1, <1>2, <1>3 DEF IInv, StoreInv, ShapesKept, TypesKept, PhaseKept, Ready, Loader,
     LoadSteps, Section, Typed
<1> QED
  BY <1>3, <1>5, <1>6 DEF IInv, StoreInv, IndexInv

-----------------------------------------------------------------------------
(* Checkpoints and snapshots.                                              *)

(* An index that a change has still to reach is one the change touches.    *)
LEMMA LeftTouches ==
    ASSUME NEW c \in Change, NEW q \in StepsLeft(c), NEW k \in DOMAIN q, q[k] \in Section
    PROVE  Touches(q[k], c)
<1>1. CASE c.op = "create" \/ (c.op = "update" /\ ~c.text)
  BY <1>1 DEF StepsLeft, Touches, DropsVector, Section
<1>2. CASE c.op = "update" /\ c.text
  BY <1>2 DEF StepsLeft, Touches, DropsVector, Section
<1>3. CASE c.op = "delete"
  BY <1>3 DEF StepsLeft, Touches, DropsVector, Section
<1>4. CASE c.op = "vector"
  BY <1>4 DEF StepsLeft, Touches, DropsVector, Section
<1> QED
  BY <1>1, <1>2, <1>3, <1>4 DEF Change, Op

(* What is pending is at the end of the log.                               *)
LEMMA PendingTouched ==
    ASSUME IInv, NEW s \in Section, NEW id, Pending(s, id)
    PROVE  TouchedIn(tail, s, id, 1, Len(tail))
<1>1. applying # NotApplying
  BY NonePending
<1>2. /\ tail # <<>> /\ tail \in Seq(Change) /\ applying.change = tail[Len(tail)]
      /\ applying.steps \in StepsLeft(applying.change)
  BY <1>1 DEF IInv, StoreInv, ApplyingKept, TypesKept
<1>3. Len(tail) \in 1..Len(tail) /\ tail[Len(tail)] \in Change
  BY <1>2
<1>4. PICK k \in DOMAIN applying.steps : applying.steps[k] = s
  BY DEF Pending, Left
<1>5. Touches(s, tail[Len(tail)])
  BY <1>2, <1>3, <1>4, LeftTouches
<1>6. tail[Len(tail)].id = id
  BY <1>2 DEF Pending
<1> QED
  BY <1>3, <1>5, <1>6 DEF TouchedIn

(* An index that is ready is right, or a change is on its way to it.       *)
LEMMA ReadyRight ==
    ASSUME IInv, phase = "up", ~ahead, NEW s \in Section, NEW id \in Id, Ready(s)
    PROVE  Right(s, trees, Content(s), id) \/ Pending(s, id)
<1>1. Loader(s) \notin LoadSteps
  BY DEF IInv, StoreInv, PhaseKept
<1>2. CASE s = "facts"
  BY <1>1, <1>2 DEF IInv, IndexInv, FactsKept, FactsToLoad, Ready, Loader, Content, LoadSteps
<1>3. CASE s = "bloom"
  BY <1>1, <1>3 DEF IInv, IndexInv, BloomKept, Ready, Loader, Content, LoadSteps
<1>4. CASE s = "vectors"
  BY <1>1, <1>4 DEF IInv, IndexInv, VectorsKept, Ready, Loader, Content, LoadSteps
<1> QED
  BY <1>2, <1>3, <1>4 DEF Section

(* The tree as it is becomes the image: an older snapshot is of it only if *)
(* the log was empty.                                                      *)
LEMMA ImageWritten ==
    ASSUME TypesKept, SnapKept, \A s \in Section, id \in Id :
             TouchedIn(tail, s, id, 1, Len(tail)) \/ Agree(s, image, trees, id),
           image' = trees, seq' = seq + Len(tail), tail' = <<>>, UNCHANGED <<trees, snap>>,
           phase' = "up"
    PROVE  TreesKept' /\ SnapKept'
<1>1. TreesKept'
  BY DEF TreesKept, Agree, SameLink
<1>2. /\ tail \in Seq(Change) /\ Len(tail) \in Nat /\ seq \in Nat /\ snap.seq \in Nat
      /\ snap.seq <= seq /\ snap.has \subseteq Section
  BY DEF TypesKept, SnapKept
<1>3. CASE Len(tail) = 0
  <2>1. seq' = seq /\ Len(tail') = 0
    BY <1>2, <1>3
  <2> SUFFICES ASSUME snap.seq = seq, ~snap.ahead
               PROVE  /\ snap.cut \in 0..Len(tail')
                      /\ \A s \in snap.has, id \in Id :
                           TouchedIn(tail', s, id, 1, snap.cut) \/ Right(s, trees, Cut(snap, s), id)
    BY <1>1, <1>2, <2>1 DEF SnapKept, FileKept
  <2>2. /\ snap.cut \in 0..Len(tail)
        /\ \A s \in snap.has, id \in Id :
             TouchedIn(tail, s, id, 1, snap.cut) \/ Right(s, image, Cut(snap, s), id)
    BY DEF SnapKept, FileKept
  <2>3. snap.cut = 0
    BY <1>3, <2>2
  <2>4. \A s, id : ~TouchedIn(tail, s, id, 1, 0)
    BY DEF TouchedIn
  <2>5. ASSUME NEW s \in snap.has, NEW id \in Id
        PROVE  Right(s, trees, Cut(snap, s), id)
    <3>1. Right(s, image, Cut(snap, s), id) /\ Agree(s, image, trees, id) /\ s \in Section
      BY <1>2, <1>3, <2>2, <2>3, <2>4
    <3> QED
      BY <3>1, AgreeRight
  <2> QED
    BY <2>1, <2>3, <2>5
<1>4. CASE Len(tail) > 0
  <2>1. seq' \in Nat /\ snap.seq < seq'
    BY <1>2, <1>4
  <2>2. snap'.seq # seq' /\ snap'.seq <= seq'
    BY <2>1, <1>2
  <2> QED
    BY <1>1, <2>2 DEF SnapKept, FileKept
<1> QED
  BY <1>1, <1>2, <1>3, <1>4

(* A checkpoint.                                                           *)
LEMMA CheckpointKeeps ==
    ASSUME IInv, Checkpoint
    PROVE  IInv'
<1>1. /\ phase = "up" /\ applying = NotApplying /\ writing = NotWriting
      /\ image' = trees /\ seq' = seq + Len(tail) /\ tail' = <<>> /\ drained' = trees.links
      /\ writing' = [NotWriting EXCEPT !.step = "ready"]
      /\ UNCHANGED <<snap, phase, replayed, trees, applying, facts, bloom, vectors, ahead>>
  BY DEF Checkpoint, Idle, history
<1>2. TreesKept' /\ SnapKept'
  BY <1>1, ImageWritten DEF IInv, StoreInv, TreesKept, Applied
<1>3. IndexInv'
  BY <1>1, IndexFrame DEF IInv
<1>4. writing'.step = "ready" /\ writing'.left = {} /\ writing'.file = NoSnap
      /\ DOMAIN writing' = {"step", "left", "file"}
  BY <1>1 DEF NotWriting
<1>5. WritingKept'
  BY <1>4 DEF WritingKept
<1>6. ShapesKept'
  BY <1>1, <1>4 DEF IInv, StoreInv, ShapesKept, NoSnap
<1>7. TypesKept'
  BY <1>1 DEF IInv, StoreInv, TypesKept, Typed
<1>8. PhaseKept' /\ ApplyingKept' /\ RestoredKept'
  BY <1>1 DEF IInv, StoreInv, PhaseKept, ApplyingKept, RestoredKept, Ready, Loader
<1> QED
  BY <1>2, <1>3, <1>5, <1>6, <1>7, <1>8 DEF IInv, StoreInv

(* What the writing of a snapshot leaves.                                  *)
LEMMA SnapshotFrame ==
    ASSUME IInv, writing.step # "idle",
           UNCHANGED <<image, seq, tail, phase, replayed, trees, drained, applying, facts, bloom,
                       vectors, ahead>>
    PROVE  /\ phase = "up" /\ TreesKept' /\ IndexInv' /\ ApplyingKept' /\ RestoredKept'
           /\ \A s : Ready(s)' <=> Ready(s)
           /\ snap.has' \subseteq Section /\ snap'.seq \in Nat => TypesKept'
           /\ PhaseKept'
<1>1. phase = "up"
  BY DEF IInv, StoreInv, PhaseKept, NotWriting
<1>2. TreesKept'
  BY DEF IInv, StoreInv, TreesKept, Applied, TouchedIn
<1>3. IndexInv'
  BY IndexFrame DEF IInv
<1>4. ApplyingKept' /\ RestoredKept'
  BY <1>1, ApplyingFrame, RestoredFrame DEF IInv
<1>5. \A s : Ready(s)' <=> Ready(s)
  BY DEF Ready
<1>6. snap.has' \subseteq Section /\ snap'.seq \in Nat => TypesKept'
  BY DEF IInv, StoreInv, TypesKept, Typed
<1>7. PhaseKept'
  BY <1>1 DEF IInv, StoreInv, PhaseKept, Ready, Loader
<1> QED
  BY <1>1, <1>2, <1>3, <1>4, <1>5, <1>6, <1>7

(* The snapshot is begun: no section is cut yet.                           *)
LEMMA StartKeeps ==
    ASSUME IInv, SnapshotStart
    PROVE  IInv'
<1>1. /\ writing.step = "ready" /\ UNCHANGED snap
      /\ writing' = [step |-> "sections", left |-> ReadySections,
                     file |-> [NoSnap EXCEPT !.seq = seq, !.has = ReadySections, !.ahead = ahead]]
      /\ UNCHANGED <<image, seq, tail, phase, replayed, trees, drained, applying, facts, bloom,
                     vectors, ahead>>
  BY DEF SnapshotStart, store, history
<1>2. /\ phase = "up" /\ TreesKept' /\ IndexInv' /\ ApplyingKept' /\ RestoredKept' /\ PhaseKept'
      /\ \A s : Ready(s)' <=> Ready(s)
      /\ TypesKept'
  BY <1>1, SnapshotFrame DEF IInv, StoreInv, TypesKept
<1>3. SnapKept'
  BY <1>1 DEF IInv, StoreInv, SnapKept, FileKept, TouchedIn, Cut
<1>4. /\ writing'.step = "sections" /\ writing'.left = ReadySections
      /\ writing'.file.seq = seq /\ writing'.file.has = ReadySections
      /\ writing'.file.ahead = ahead /\ writing'.file.cut = 0
      /\ DOMAIN writing' = {"step", "left", "file"}
      /\ DOMAIN writing'.file = {"seq", "has", "facts", "bloom", "vectors", "cut", "ahead"}
  BY <1>1 DEF NoSnap
<1>5. ReadySections \subseteq Section /\ \A s \in ReadySections : Ready(s)
  BY DEF ReadySections, Ready, Section
<1>6. Len(tail) \in Nat
  BY DEF IInv, StoreInv, TypesKept
<1>7. WritingKept'
  BY <1>1, <1>2, <1>4, <1>5, <1>6 DEF WritingKept, FileKept
<1>8. ShapesKept'
  BY <1>1, <1>4 DEF IInv, StoreInv, ShapesKept
<1> QED
  BY <1>2, <1>3, <1>7, <1>8 DEF IInv, StoreInv

(* A section is cut from an index that is ready: it is right of the image  *)
(* wherever the log has not been since the checkpoint.                     *)
LEMMA SectionKeeps ==
    ASSUME IInv, NEW s \in Section, WriteSection(s, Content(s)),
           Cut(writing'.file, s) = Content(s),
           \A r \in Section \ {s} : Cut(writing'.file, r) = Cut(writing.file, r),
           writing'.step = writing.step, writing'.left = writing.left \ {s},
           writing'.file.cut = Len(tail), writing'.file.seq = writing.file.seq,
           writing'.file.has = writing.file.has, writing'.file.ahead = writing.file.ahead,
           DOMAIN writing' = DOMAIN writing, DOMAIN writing'.file = DOMAIN writing.file
    PROVE  IInv'
<1>1. /\ s \in writing.left /\ UNCHANGED snap
      /\ UNCHANGED <<image, seq, tail, phase, replayed, trees, drained, applying, facts, bloom,
                     vectors, ahead>>
  BY DEF WriteSection, store, history
<1>2. writing.step = "sections"
  BY <1>1 DEF IInv, StoreInv, WritingKept
<1>3. /\ phase = "up" /\ TreesKept' /\ IndexInv' /\ ApplyingKept' /\ RestoredKept' /\ PhaseKept'
      /\ \A r : Ready(r)' <=> Ready(r)
      /\ TypesKept'
  BY <1>1, <1>2, SnapshotFrame DEF IInv, StoreInv, TypesKept
<1>4. SnapKept'
  BY <1>1 DEF IInv, StoreInv, SnapKept, FileKept, TouchedIn, Cut
<1>5. /\ writing.file.seq = seq /\ writing.file.ahead = ahead
      /\ writing.file.has \subseteq Section
      /\ \A r \in writing.file.has : Ready(r)
      /\ FileKept(writing.file, writing.file.has \ writing.left)
  BY <1>2 DEF IInv, StoreInv, WritingKept
<1>6. Len(tail) \in Nat
  BY DEF IInv, StoreInv, TypesKept
<1>7. ASSUME ~ahead, s \in writing.file.has, NEW id \in Id
      PROVE  TouchedIn(tail, s, id, 1, Len(tail)) \/ Right(s, image, Content(s), id)
  <2>1. Right(s, trees, Content(s), id) \/ TouchedIn(tail, s, id, 1, Len(tail))
    BY <1>3, <1>5, <1>7, ReadyRight, PendingTouched
  <2>2. Agree(s, image, trees, id) \/ TouchedIn(tail, s, id, 1, Len(tail))
    BY <1>3 DEF IInv, StoreInv, TreesKept, Applied
  <2>3. Agree(s, image, trees, id) => Agree(s, trees, image, id)
    BY DEF Agree, SameLink
  <2> QED
    BY <2>1, <2>2, <2>3, AgreeRight
<1>8. ASSUME ~ahead, NEW r \in writing.file.has \ writing.left, NEW id \in Id
      PROVE  \/ TouchedIn(tail, r, id, 1, Len(tail))
             \/ Right(r, image, Cut(writing.file, r), id)
  <2>1. /\ writing.file.cut \in 0..Len(tail)
        /\ \/ TouchedIn(tail, r, id, 1, writing.file.cut)
           \/ Right(r, image, Cut(writing.file, r), id)
    BY <1>5, <1>8 DEF FileKept
  <2>2. TouchedIn(tail, r, id, 1, writing.file.cut) => TouchedIn(tail, r, id, 1, Len(tail))
    BY <2>1, <1>6, SameLog
  <2> QED
    BY <2>1, <2>2
<1>9. FileKept(writing.file, writing.file.has \ writing.left)'
  <2> DEFINE f == writing'.file
  <2>1. ASSUME ~ahead, NEW r \in writing.file.has \ (writing.left \ {s}), NEW id \in Id
        PROVE  TouchedIn(tail, r, id, 1, Len(tail)) \/ Right(r, image, Cut(f, r), id)
    <3>1. CASE r = s
      BY <2>1, <3>1, <1>7
    <3>2. CASE r # s
      <4>1. r \in writing.file.has \ writing.left /\ r \in Section
        BY <3>2, <1>5
      <4>2. Cut(f, r) = Cut(writing.file, r)
        BY <3>2, <4>1
      <4> QED
        BY <2>1, <4>1, <4>2, <1>8
    <3> QED
      BY <3>1, <3>2
  <2>2. f.ahead = ahead /\ f.has = writing.file.has /\ f.cut = Len(tail)
    BY <1>5
  <2>3. ~f.ahead =>
          /\ f.cut \in 0..Len(tail)
          /\ \A r \in f.has \ writing'.left, id \in Id :
               TouchedIn(tail, r, id, 1, f.cut) \/ Right(r, image, Cut(f, r), id)
    BY <2>1, <2>2, <1>6
  <2> QED
    BY <2>3, <1>1 DEF FileKept
<1>10. WritingKept'
  BY <1>1, <1>2, <1>3, <1>5, <1>9 DEF WritingKept
<1>11. ShapesKept'
  BY <1>1 DEF IInv, StoreInv, ShapesKept
<1> QED
  BY <1>3, <1>4, <1>10, <1>11 DEF IInv, StoreInv

(* Facts, filter and vectors are cut in this order.                        *)
LEMMA WriteSectionsKeep ==
    ASSUME IInv, WriteFacts \/ WriteBloom \/ WriteVectors
    PROVE  IInv'
<1>1. PICK s \in Section : WriteSection(s, Content(s))
  BY DEF WriteFacts, WriteBloom, WriteVectors, Section, Content
<1>2. /\ {"step", "left", "file"} \subseteq DOMAIN writing
      /\ {"seq", "has", "facts", "bloom", "vectors", "cut", "ahead"} \subseteq DOMAIN writing.file
  BY DEF IInv, StoreInv, ShapesKept
<1>3. writing' = [writing EXCEPT !.left = @ \ {s}, !.file[s] = Content(s), !.file.cut = Len(tail)]
  BY <1>1 DEF WriteSection
<1>4. /\ writing'.step = writing.step /\ writing'.left = writing.left \ {s}
      /\ DOMAIN writing' = DOMAIN writing
      /\ writing'.file = [writing.file EXCEPT ![s] = Content(s), !.cut = Len(tail)]
  BY <1>2, <1>3
<1>5. /\ writing'.file[s] = Content(s) /\ writing'.file.cut = Len(tail)
      /\ DOMAIN writing'.file = DOMAIN writing.file
      /\ \A field \in DOMAIN writing.file \ {s, "cut"} : writing'.file[field] = writing.file[field]
  BY <1>2, <1>4 DEF Section
<1>6. /\ writing'.file.seq = writing.file.seq /\ writing'.file.has = writing.file.has
      /\ writing'.file.ahead = writing.file.ahead
  BY <1>2, <1>5 DEF Section
<1>7. \A f, r : r \in Section => Cut(f, r) = f[r]
  BY DEF Section, Cut
<1>8. Cut(writing'.file, s) = Content(s)
  BY <1>5, <1>7
<1>9. \A r \in Section \ {s} : Cut(writing'.file, r) = Cut(writing.file, r)
  <2>1. \A r \in Section \ {s} : r \in DOMAIN writing.file \ {s, "cut"}
    BY <1>2 DEF Section
  <2> QED
    BY <2>1, <1>5, <1>7
<1> QED
  BY <1>1, <1>4, <1>5, <1>6, <1>8, <1>9, SectionKeeps

(* The snapshot takes the place of the one before it, or is given up.      *)
LEMMA SnapshotEnds ==
    ASSUME IInv, SnapshotRename \/ SnapshotFails
    PROVE  IInv'
<1>1. /\ writing.step = "sections" /\ writing' = NotWriting
      /\ UNCHANGED <<image, seq, tail, phase, replayed, trees, drained, applying, facts, bloom,
                     vectors, ahead>>
      /\ snap' = snap \/ (snap' = writing.file /\ writing.left = {})
  BY DEF SnapshotRename, SnapshotFails, store, history
<1>2. /\ writing.file.seq = seq /\ writing.file.has \subseteq Section
      /\ FileKept(writing.file, writing.file.has \ writing.left)
      /\ seq \in Nat /\ snap.seq \in Nat /\ snap.has \subseteq Section /\ SnapKept
  BY <1>1 DEF IInv, StoreInv, WritingKept, TypesKept
<1>3. snap'.has \subseteq Section /\ snap'.seq \in Nat
  BY <1>1, <1>2
<1>4. /\ phase = "up" /\ TreesKept' /\ IndexInv' /\ ApplyingKept' /\ RestoredKept' /\ PhaseKept'
      /\ TypesKept'
  BY <1>1, <1>3, SnapshotFrame
<1>5. snap'.seq <= seq /\ FileKept(snap', snap'.has)
  BY <1>1, <1>2 DEF SnapKept
<1>6. SnapKept'
  BY <1>1, <1>5 DEF SnapKept, FileKept, TouchedIn
<1>7. writing'.step = "idle" /\ writing'.left = {} /\ writing'.file = NoSnap
      /\ DOMAIN writing' = {"step", "left", "file"}
  BY <1>1 DEF NotWriting
<1>8. WritingKept'
  BY <1>7 DEF WritingKept
<1>9. ShapesKept'
  BY <1>1, <1>7 DEF IInv, StoreInv, ShapesKept, NoSnap
<1> QED
  BY <1>4, <1>6, <1>8, <1>9 DEF IInv, StoreInv

-----------------------------------------------------------------------------
(* Crash and boot.                                                         *)

(* With no process there is nothing to keep of the indexes.                *)
LEMMA NothingUp ==
    ASSUME phase' # "up", writing' = NotWriting, applying' = NotApplying,
           \A s \in Section : Loader(s)' \in {"off", "restored"}
    PROVE  IndexInv' /\ WritingKept' /\ ApplyingKept'
<1>1. facts'.loader \in {"off", "restored"}
  BY DEF Section, Loader
<1>2. IndexInv'
  BY <1>1 DEF IndexInv, FactsKept, BloomKept, VectorsKept, ScanKept, PageKept
<1>3. WritingKept' /\ ApplyingKept'
  BY DEF WritingKept, ApplyingKept, NotWriting
<1> QED
  BY <1>2, <1>3

(* The log loses its end: a snapshot cut before is right of the rest, one  *)
(* cut after has what the log has lost.                                    *)
LEMMA CrashKeeps ==
    ASSUME IInv, Crash
    PROVE  IInv'
<1>1. PICK kept \in 0..Len(tail) :
        /\ tail' = SubSeq(tail, 1, kept)
        /\ snap' = [snap EXCEPT !.ahead = @ \/ (snap.seq = seq /\ snap.cut > kept)]
  BY DEF Crash
<1>2. /\ phase' = "down" /\ replayed' = 0 /\ trees' = image /\ drained' = image.links
      /\ applying' = NotApplying
      /\ facts' = EmptyFacts /\ bloom' = EmptyBloom /\ vectors' = EmptyVectors
      /\ writing' = NotWriting /\ UNCHANGED <<image, seq>>
  BY DEF Crash
<1>3. tail \in Seq(Change) /\ Len(tail) \in Nat /\ kept \in Nat /\ kept <= Len(tail)
  BY DEF IInv, StoreInv, TypesKept
<1>4. tail' \in Seq(Change) /\ Len(tail') = kept /\ \A k \in 1..kept : tail'[k] = tail[k]
  BY <1>1, <1>3
<1>5. /\ snap'.seq = snap.seq /\ snap'.has = snap.has /\ snap'.cut = snap.cut
      /\ snap'.facts = snap.facts /\ snap'.bloom = snap.bloom /\ snap'.vectors = snap.vectors
      /\ DOMAIN snap' = DOMAIN snap
      /\ snap'.ahead = (snap.ahead \/ (snap.seq = seq /\ snap.cut > kept))
  BY <1>1 DEF IInv, StoreInv, ShapesKept
<1>6. \A s \in Section : ~Ready(s)' /\ Loader(s)' = "off"
  BY <1>2 DEF Section, Ready, Loader, EmptyFacts, EmptyBloom, EmptyVectors
<1>7. IndexInv' /\ WritingKept' /\ ApplyingKept'
  BY <1>2, <1>6, NothingUp
<1>8. ShapesKept'
  BY <1>2, <1>5 DEF IInv, StoreInv, ShapesKept, EmptyFacts, EmptyBloom, EmptyVectors, NotWriting, NoSnap
<1>9. TypesKept'
  BY <1>2, <1>4, <1>5
     DEF IInv, StoreInv, TypesKept, Typed, EmptyFacts, EmptyBloom, EmptyVectors
<1>10. PhaseKept'
  <2>1. /\ facts'.loading = FALSE /\ facts'.touched = {} /\ facts'.after = 0
        /\ facts'.loader = "off" /\ bloom'.next = 0 /\ vectors'.next = 0
    BY <1>2 DEF EmptyFacts, EmptyBloom, EmptyVectors
  <2>2. replayed' = 0 /\ 0 <= Len(tail')
    BY <1>2, <1>3, <1>4
  <2> QED
    BY <2>1, <2>2, <1>2, <1>6 DEF PhaseKept
<1>11. TreesKept'
  BY <1>2 DEF TreesKept, Agree, SameLink
<1>12. SnapKept'
  <2>1. snap.seq <= seq /\ FileKept(snap, snap.has)
    BY DEF IInv, StoreInv, SnapKept
  <2>2. ASSUME snap.seq = seq, ~snap'.ahead
        PROVE  /\ snap.cut \in 0..kept
               /\ \A s \in snap.has, id \in Id :
                    TouchedIn(tail', s, id, 1, snap.cut) \/ Right(s, image, Cut(snap, s), id)
    <3>1. /\ snap.cut \in 0..Len(tail)
          /\ \A s \in snap.has, id \in Id :
               TouchedIn(tail, s, id, 1, snap.cut) \/ Right(s, image, Cut(snap, s), id)
      BY <2>1, <2>2, <1>5 DEF FileKept
    <3>2. snap.cut \in Nat /\ snap.cut <= kept /\ \A k \in 1..snap.cut : tail'[k] = tail[k]
      <4>1. snap.cut \in Nat /\ ~(snap.cut > kept)
        <5>1. ~(snap.ahead \/ (snap.seq = seq /\ snap.cut > kept))
          BY <2>2, <1>5, Zenon
        <5> QED
          BY <2>2, <3>1, <5>1, <1>3
      <4>2. snap.cut <= kept /\ \A k \in 1..snap.cut : k \in 1..kept
        BY <4>1, <1>3
      <4> QED
        BY <4>1, <4>2, <1>4
    <3>3. \A s, id : TouchedIn(tail, s, id, 1, snap.cut) => TouchedIn(tail', s, id, 1, snap.cut)
      BY <3>2, SameLog
    <3> QED
      BY <3>1, <3>2, <3>3, <1>3
  <2>3. \A s : Cut(snap, s)' = Cut(snap, s)
    BY <1>5 DEF Cut
  <2> QED
    BY <1>2, <1>4, <1>5, <2>1, <2>2, <2>3 DEF SnapKept, FileKept
<1>13. RestoredKept'
  BY <1>2 DEF RestoredKept
<1> QED
  BY <1>7, <1>8, <1>9, <1>10, <1>11, <1>12, <1>13 DEF IInv, StoreInv

(* A boot: what a section brings back is right, but where the log is still *)
(* to be replayed.                                                         *)
LEMMA BootKeeps ==
    ASSUME IInv, Boot
    PROVE  IInv'
<1>1. PICK sections \in SUBSET (IF Restorable THEN snap.has ELSE {}) :
        /\ facts' = IF "facts" \in sections
                    THEN [EmptyFacts EXCEPT !.links = snap.facts, !.loader = "restored"]
                    ELSE EmptyFacts
        /\ bloom' = IF "bloom" \in sections
                    THEN [EmptyBloom EXCEPT !.urls = snap.bloom, !.loader = "restored"]
                    ELSE EmptyBloom
        /\ vectors' = IF "vectors" \in sections
                      THEN [EmptyVectors EXCEPT !.ids = snap.vectors, !.loader = "restored"]
                      ELSE EmptyVectors
        /\ ahead' = (snap.ahead /\ sections # {})
  BY DEF Boot
<1>2. /\ phase = "down" /\ phase' = "replay"
      /\ UNCHANGED <<image, seq, tail, snap, replayed, trees, drained, applying, writing>>
  BY DEF Boot, store
<1>3. /\ applying = NotApplying /\ writing = NotWriting /\ replayed = 0 /\ trees = image
      /\ Len(tail) \in Nat
  BY <1>2 DEF IInv, StoreInv, PhaseKept, TypesKept
<1>4. /\ DOMAIN facts' = DOMAIN EmptyFacts /\ facts'.loading = FALSE /\ facts'.touched = {}
      /\ facts'.after = 0 /\ facts'.ready = FALSE
      /\ "facts" \in sections => facts'.loader = "restored" /\ facts'.links = snap.facts
      /\ "facts" \notin sections => facts'.loader = "off" /\ facts'.links = <<>>
  BY <1>1 DEF EmptyFacts
<1>5. /\ DOMAIN bloom' = DOMAIN EmptyBloom /\ bloom'.ready = FALSE /\ bloom'.next = 0
      /\ "bloom" \in sections => bloom'.loader = "restored" /\ bloom'.urls = snap.bloom
      /\ "bloom" \notin sections => bloom'.loader = "off"
  BY <1>1 DEF EmptyBloom
<1>6. /\ DOMAIN vectors' = DOMAIN EmptyVectors /\ vectors'.ready = FALSE /\ vectors'.next = 0
      /\ "vectors" \in sections => vectors'.loader = "restored" /\ vectors'.ids = snap.vectors
      /\ "vectors" \notin sections => vectors'.loader = "off" /\ vectors'.ids = {}
  BY <1>1 DEF EmptyVectors
<1>7. /\ \A s \in Section : ~Ready(s)' /\ Loader(s)' \in {"off", "restored"}
      /\ \A s \in Section : Loader(s)' = "restored" => s \in sections /\ Content(s)' = Cut(snap, s)
  BY <1>4, <1>5, <1>6 DEF Section, Ready, Loader, Content, Cut
<1>8. IndexInv' /\ WritingKept' /\ ApplyingKept'
  BY <1>2, <1>3, <1>7, NothingUp
<1>9. ShapesKept'
  BY <1>2, <1>4, <1>5, <1>6 DEF IInv, StoreInv, ShapesKept, EmptyFacts, EmptyBloom, EmptyVectors
<1>10. TypesKept'
  BY <1>2, <1>4, <1>5, <1>6 DEF IInv, StoreInv, TypesKept, Typed
<1>11. PhaseKept'
  <2>1. facts'.loader \in {"off", "restored"}
    BY <1>4
  <2> QED
    BY <1>2, <1>3, <1>4, <1>5, <1>6, <1>7, <2>1 DEF PhaseKept
<1>12. TreesKept' /\ SnapKept'
  <2>1. Applied' = Applied
    BY <1>2 DEF Applied
  <2> QED
    BY <1>2, <2>1 DEF IInv, StoreInv, TreesKept, SnapKept, FileKept, TouchedIn, Cut
<1>13. RestoredKept'
  <2>1. ASSUME ~ahead', NEW s \in sections, s \in Section, NEW id \in Id
        PROVE  Right(s, trees, Cut(snap, s), id) \/ TouchedIn(tail, s, id, replayed + 1, Len(tail))
    <3>1. snap.seq = seq /\ s \in snap.has /\ ~snap.ahead
      BY <2>1, <1>1 DEF Restorable
    <3>2. /\ snap.cut \in 0..Len(tail)
          /\ TouchedIn(tail, s, id, 1, snap.cut) \/ Right(s, image, Cut(snap, s), id)
      BY <3>1 DEF IInv, StoreInv, SnapKept, FileKept
    <3>3. TouchedIn(tail, s, id, 1, snap.cut) => TouchedIn(tail, s, id, 1, Len(tail))
      BY <3>2, <1>3, SameLog
    <3> QED
      BY <3>2, <3>3, <1>3
  <2>2. facts'.loader = "off" => DOMAIN facts'.links = {}
    BY <1>4
  <2>3. vectors'.loader = "off" => vectors'.ids = {}
    BY <1>6
  <2>4. ASSUME ~ahead', NEW s \in Section, NEW id \in Id, Loader(s)' = "restored"
        PROVE  \/ Right(s, trees, Content(s), id)'
               \/ TouchedIn(tail, s, id, replayed + 1, Len(tail))'
    BY <2>1, <2>4, <1>2, <1>7
  <2> QED
    BY <2>2, <2>3, <2>4 DEF RestoredKept
<1> QED
  BY <1>8, <1>9, <1>10, <1>11, <1>12, <1>13 DEF IInv, StoreInv

(* Each change of the log goes into the trees and into the indexes.        *)
LEMMA ReplayKeeps ==
    ASSUME IInv, Replay
    PROVE  IInv'
<1> DEFINE c == tail[replayed + 1]
<1>1. /\ phase = "replay" /\ replayed < Len(tail) /\ replayed' = replayed + 1
      /\ trees' = ChangedTrees(trees, c) /\ facts' = Observed(facts, c)
      /\ bloom' = ChangedBloom(bloom, c) /\ vectors' = ChangedVectors(vectors, c)
      /\ UNCHANGED <<image, seq, tail, snap, phase, drained, applying, writing, ahead>>
  BY DEF Replay, ReplayInto, store, history
<1>2. tail \in Seq(Change) /\ replayed \in Nat /\ Len(tail) \in Nat
  BY DEF IInv, StoreInv, TypesKept
<1>3. c \in Change
  BY <1>1, <1>2
<1>4. /\ facts'.links = Changed("facts", facts.links, c) /\ facts'.touched = {}
      /\ facts'.ready = facts.ready /\ facts'.loader = facts.loader /\ facts'.loading = facts.loading
      /\ facts'.after = facts.after /\ facts'.page = facts.page /\ DOMAIN facts' = DOMAIN facts
  <2>1. ~facts.loading /\ facts.touched = {}
    BY <1>1 DEF IInv, StoreInv, PhaseKept
  <2>2. {"links", "touched", "loading", "ready", "loader", "after", "page"} \subseteq DOMAIN facts
    BY DEF IInv, StoreInv, ShapesKept
  <2> QED
    BY <2>1, <2>2, <1>1 DEF Observed, Changed
<1>5. /\ bloom'.urls = Changed("bloom", bloom.urls, c) /\ bloom'.ready = bloom.ready
      /\ bloom'.loader = bloom.loader /\ bloom'.next = bloom.next /\ DOMAIN bloom' = DOMAIN bloom
  BY <1>1 DEF ChangedBloom, Changed, IInv, StoreInv, ShapesKept
<1>6. /\ vectors'.ids = Changed("vectors", vectors.ids, c) /\ vectors'.ready = vectors.ready
      /\ vectors'.loader = vectors.loader /\ vectors'.next = vectors.next
      /\ DOMAIN vectors' = DOMAIN vectors
  BY <1>1 DEF ChangedVectors, Changed, IInv, StoreInv, ShapesKept
<1>7. \A s \in Section : /\ Ready(s)' = Ready(s) /\ Loader(s)' = Loader(s)
                         /\ Content(s)' = Changed(s, Content(s), c)
  BY <1>4, <1>5, <1>6 DEF Section, Ready, Loader, Content
<1>8. /\ applying = NotApplying /\ writing = NotWriting
      /\ \A s \in Section : ~Ready(s) /\ Loader(s) \in {"off", "restored"}
  BY <1>1 DEF IInv, StoreInv, PhaseKept
<1>9. IndexInv' /\ WritingKept' /\ ApplyingKept'
  BY <1>1, <1>7, <1>8, NothingUp
<1>10. ShapesKept'
  BY <1>1, <1>4, <1>5, <1>6 DEF IInv, StoreInv, ShapesKept
<1>11. TypesKept'
  BY <1>1, <1>2, <1>3, <1>4, <1>5, <1>6, ChangeTyped DEF IInv, StoreInv, TypesKept, Typed
<1>12. PhaseKept'
  <2>1. replayed + 1 <= Len(tail)
    BY <1>1, <1>2
  <2> QED
    BY <2>1, <1>1, <1>4, <1>5, <1>6, <1>7 DEF IInv, StoreInv, PhaseKept
<1>13. Reflects(trees', c)
  BY <1>1, <1>3, ChangeReflected
<1>14. \A s, id : id # c.id \/ ~Touches(s, c) => Agree(s, trees, trees', id)
  BY <1>1, <1>3, ChangeLeaves
<1>15. TreesKept'
  <2>1. ASSUME NEW s \in Section, NEW id \in Id
        PROVE  TouchedIn(tail, s, id, 1, replayed + 1) \/ Agree(s, image, trees', id)
    <3>1. TouchedIn(tail, s, id, 1, replayed) \/ Agree(s, image, trees, id)
      BY <1>1 DEF IInv, StoreInv, TreesKept, Applied
    <3>2. TouchedIn(tail, s, id, 1, replayed) => TouchedIn(tail, s, id, 1, replayed + 1)
      BY <1>2, SameLog
    <3>3. CASE id = c.id /\ Touches(s, c)
      BY <3>3, <1>2 DEF TouchedIn
    <3>4. CASE id # c.id \/ ~Touches(s, c)
      BY <3>1, <3>2, <3>4, <1>14, AgreeTrans
    <3> QED
      BY <3>3, <3>4
  <2> QED
    BY <2>1, <1>1 DEF TreesKept, Applied
<1>16. SnapKept'
  BY <1>1 DEF IInv, StoreInv, SnapKept, FileKept, TouchedIn, Cut
<1>17. RestoredKept'
  <2>1. ASSUME NEW s \in Section, NEW id \in Id, Right(s, trees, Content(s), id)
        PROVE  Right(s, trees', Changed(s, Content(s), c), id)
    BY <2>1, <1>3, <1>13, <1>14, ChangedRight
  <2>2. ASSUME NEW s \in Section, NEW id \in Id, id = c.id, Touches(s, c)
        PROVE  Right(s, trees', Changed(s, Content(s), c), id)
    BY <2>2, <1>3, <1>13, ChangedRight
  <2>3. ASSUME ~ahead, NEW s \in Section, NEW id \in Id, Loader(s) = "restored"
        PROVE  \/ Right(s, trees', Changed(s, Content(s), c), id)
               \/ TouchedIn(tail, s, id, replayed + 2, Len(tail))
    <3>1. \/ Right(s, trees, Content(s), id)
          \/ TouchedIn(tail, s, id, replayed + 1, Len(tail))
      BY <2>3, <1>1 DEF IInv, RestoredKept
    <3>2. CASE TouchedIn(tail, s, id, replayed + 1, Len(tail))
      <4>1. PICK k \in replayed + 1 .. Len(tail) : tail[k].id = id /\ Touches(s, tail[k])
        BY <3>2 DEF TouchedIn
      <4>2. CASE k = replayed + 1
        BY <4>1, <4>2, <2>2
      <4>3. CASE k # replayed + 1
        <5>1. k \in replayed + 2 .. Len(tail)
          BY <4>3, <1>2
        <5> QED
          BY <4>1, <5>1 DEF TouchedIn
      <4> QED
        BY <4>2, <4>3
    <3> QED
      BY <3>1, <3>2, <2>1
  <2>4. ASSUME facts.loader = "off", NEW id \in Id
        PROVE  Right("facts", trees', facts'.links, id) \/ id \notin DOMAIN facts'.links
    <3>1. Right("facts", trees, facts.links, id) \/ id \notin DOMAIN facts.links
      BY <2>4, <1>1 DEF IInv, RestoredKept
    <3>2. CASE Right("facts", trees, facts.links, id) \/ (id = c.id /\ Touches("facts", c))
      BY <3>2, <2>1, <2>2, <1>4 DEF Section, Content
    <3>3. CASE id \notin DOMAIN facts.links /\ ~(id = c.id /\ Touches("facts", c))
      BY <3>3, <1>3, <1>4 DEF Changed, With, Without, Touches, DropsVector, Change, Op
    <3> QED
      BY <3>1, <3>2, <3>3
  <2>5. ASSUME vectors.loader = "off", NEW id \in Id
        PROVE  Right("vectors", trees', vectors'.ids, id) \/ id \notin vectors'.ids
    <3>1. Right("vectors", trees, vectors.ids, id) \/ id \notin vectors.ids
      BY <2>5, <1>1 DEF IInv, RestoredKept
    <3>2. CASE Right("vectors", trees, vectors.ids, id) \/ (id = c.id /\ Touches("vectors", c))
      BY <3>2, <2>1, <2>2, <1>6 DEF Section, Content
    <3>3. CASE id \notin vectors.ids /\ ~(id = c.id /\ Touches("vectors", c))
      BY <3>3, <1>3, <1>6 DEF Changed, Touches, DropsVector, Change, Op
    <3> QED
      BY <3>1, <3>2, <3>3
  <2>6. replayed' + 1 = replayed + 2
    BY <1>1, <1>2
  <2>7. ASSUME ~ahead', NEW s \in Section, NEW id \in Id, Loader(s)' = "restored"
        PROVE  \/ Right(s, trees', Content(s)', id)
               \/ TouchedIn(tail', s, id, replayed' + 1, Len(tail'))
    BY <2>3, <2>6, <2>7, <1>1, <1>7
  <2> QED
    BY <2>4, <2>5, <2>7, <1>4, <1>6 DEF RestoredKept
<1> QED
  BY <1>9, <1>10, <1>11, <1>12, <1>15, <1>16, <1>17 DEF IInv, StoreInv

(* An index begins to serve, or to load, or stays as it is.                *)
Starting(index, next) ==
    \/ index.loader = "restored" /\ next = [index EXCEPT !.ready = TRUE, !.loader = "off"]
    \/ index.loader = "off" /\ next = [index EXCEPT !.loader = "begin"]
    \/ index.loader = "off" /\ next = index

(* It is ready only if it was restored, and its content stays.             *)
LEMMA StartedIndex ==
    ASSUME NEW index, NEW next, {"ready", "loader"} \subseteq DOMAIN index, ~index.ready,
           Starting(index, next)
    PROVE  /\ DOMAIN next = DOMAIN index
           /\ \A field \in DOMAIN index \ {"ready", "loader"} : next[field] = index[field]
           /\ next.loader \in {"off", "begin"} /\ (next.loader = "begin" => index.loader = "off")
           /\ next.ready => index.loader = "restored" /\ next.loader = "off"
BY DEF Starting

(* The boot ends: an index that came back is ready and right, and one that *)
(* a loader will load has the rest before it.                              *)
LEMMA ServeKeeps ==
    ASSUME IInv, Serve
    PROVE  IInv'
<1>1. PICK starting \in SUBSET Section :
        /\ facts' = Started(facts, "facts" \in starting)
        /\ bloom' = Started(bloom, "bloom" \in starting)
        /\ vectors' = Started(vectors, "vectors" \in starting)
  BY DEF Serve
<1>2. /\ phase = "replay" /\ phase' = "up" /\ replayed = Len(tail) /\ replayed' = 0
      /\ image' = trees /\ seq' = seq + Len(tail) /\ tail' = <<>> /\ drained' = trees.links
      /\ UNCHANGED <<snap, trees, applying, writing, ahead>>
  BY DEF Serve, history
<1>3. /\ applying = NotApplying /\ writing = NotWriting
      /\ \A s \in Section : ~Ready(s) /\ Loader(s) \in {"off", "restored"}
      /\ ~facts.loading /\ facts.touched = {} /\ facts.after = 0
      /\ bloom.next = 0 /\ vectors.next = 0
  BY <1>2 DEF IInv, StoreInv, PhaseKept
<1>4. /\ ~facts.ready /\ facts.loader \in {"off", "restored"}
      /\ ~bloom.ready /\ bloom.loader \in {"off", "restored"}
      /\ ~vectors.ready /\ vectors.loader \in {"off", "restored"}
  BY <1>3 DEF Section, Ready, Loader
<1>5. ShapesKept
  BY DEF IInv, StoreInv
<1>6. /\ DOMAIN facts' = DOMAIN facts /\ facts'.links = facts.links /\ facts'.touched = {}
      /\ facts'.loading = facts.loading /\ facts'.after = 0
      /\ facts'.loader \in {"off", "begin"} /\ (facts'.loader = "begin" => facts.loader = "off")
      /\ facts'.ready => facts.loader = "restored" /\ facts'.loader = "off"
  <2>1. {"ready", "loader", "links", "touched", "loading", "after"} \subseteq DOMAIN facts
    BY <1>5 DEF ShapesKept
  <2>2. Starting(facts, facts')
    BY <1>1, <1>4 DEF Started, Starting
  <2>3. /\ DOMAIN facts' = DOMAIN facts
        /\ \A field \in DOMAIN facts \ {"ready", "loader"} : facts'[field] = facts[field]
        /\ facts'.loader \in {"off", "begin"} /\ (facts'.loader = "begin" => facts.loader = "off")
        /\ facts'.ready => facts.loader = "restored" /\ facts'.loader = "off"
    BY <2>1, <2>2, <1>4, StartedIndex
  <2> QED
    BY <2>1, <2>3, <1>3
<1>7. /\ DOMAIN bloom' = DOMAIN bloom /\ bloom'.urls = bloom.urls /\ bloom'.next = 0
      /\ bloom'.loader \in {"off", "begin"} /\ (bloom'.loader = "begin" => bloom.loader = "off")
      /\ bloom'.ready => bloom.loader = "restored" /\ bloom'.loader = "off"
  <2>1. {"ready", "loader", "urls", "next"} \subseteq DOMAIN bloom
    BY <1>5 DEF ShapesKept
  <2>2. Starting(bloom, bloom')
    BY <1>1, <1>4 DEF Started, Starting
  <2>3. /\ DOMAIN bloom' = DOMAIN bloom
        /\ \A field \in DOMAIN bloom \ {"ready", "loader"} : bloom'[field] = bloom[field]
        /\ bloom'.loader \in {"off", "begin"} /\ (bloom'.loader = "begin" => bloom.loader = "off")
        /\ bloom'.ready => bloom.loader = "restored" /\ bloom'.loader = "off"
    BY <2>1, <2>2, <1>4, StartedIndex
  <2> QED
    BY <2>1, <2>3, <1>3
<1>8. /\ DOMAIN vectors' = DOMAIN vectors /\ vectors'.ids = vectors.ids /\ vectors'.next = 0
      /\ vectors'.loader \in {"off", "begin"} /\ (vectors'.loader = "begin" => vectors.loader = "off")
      /\ vectors'.ready => vectors.loader = "restored" /\ vectors'.loader = "off"
  <2>1. {"ready", "loader", "ids", "next"} \subseteq DOMAIN vectors
    BY <1>5 DEF ShapesKept
  <2>2. Starting(vectors, vectors')
    BY <1>1, <1>4 DEF Started, Starting
  <2>3. /\ DOMAIN vectors' = DOMAIN vectors
        /\ \A field \in DOMAIN vectors \ {"ready", "loader"} : vectors'[field] = vectors[field]
        /\ vectors'.loader \in {"off", "begin"} /\ (vectors'.loader = "begin" => vectors.loader = "off")
        /\ vectors'.ready => vectors.loader = "restored" /\ vectors'.loader = "off"
    BY <2>1, <2>2, <1>4, StartedIndex
  <2> QED
    BY <2>1, <2>3, <1>3
<1>9. ShapesKept'
  BY <1>2, <1>5, <1>6, <1>7, <1>8 DEF ShapesKept
<1>10. TypesKept'
  BY <1>2, <1>6, <1>7, <1>8 DEF IInv, StoreInv, TypesKept, Typed
<1>11. PhaseKept'
  <2>1. \A s \in Section : Loader(s)' \in {"off", "begin"} /\ (Ready(s)' => Loader(s)' = "off")
    BY <1>6, <1>7, <1>8 DEF Section, Loader, Ready
  <2> QED
    BY <2>1, <1>2, <1>6 DEF PhaseKept, LoadSteps
<1>12. TreesKept' /\ SnapKept'
  BY <1>2, ImageWritten DEF IInv, StoreInv, TreesKept, Applied
<1>13. WritingKept' /\ ApplyingKept' /\ RestoredKept'
  BY <1>2, <1>3 DEF WritingKept, ApplyingKept, RestoredKept, NotWriting
<1>14. ASSUME ~ahead, NEW s \in Section, Loader(s) = "restored", NEW id \in Id
       PROVE  Right(s, trees, Content(s), id)
  <2>1. ~TouchedIn(tail, s, id, replayed + 1, Len(tail))
    <3>1. Len(tail) \in Nat
      BY DEF IInv, StoreInv, TypesKept
    <3> QED
      BY <3>1, <1>2 DEF TouchedIn
  <2> QED
    BY <2>1, <1>14, <1>2 DEF IInv, RestoredKept
<1>15. FactsKept'
  <2> SUFFICES ASSUME facts'.loader \in LoadSteps \/ (facts'.ready /\ ~ahead), NEW id \in Id
               PROVE  \/ Right("facts", trees, facts'.links, id)
                      \/ id \in DOMAIN trees.links /\ id \notin facts'.touched /\ FactsToLoad(id)'
    BY <1>2 DEF FactsKept
  <2>1. CASE facts'.ready
    BY <2>1, <1>6, <1>14 DEF Section, Loader, Content, LoadSteps
  <2>2. CASE facts'.loader = "begin"
    <3>1. Right("facts", trees, facts.links, id) \/ id \notin DOMAIN facts.links
      BY <2>2, <1>2, <1>6 DEF IInv, RestoredKept
    <3>2. FactsToLoad(id)'
      BY <2>2, <1>6 DEF FactsToLoad, Id
    <3> QED
      BY <3>1, <3>2, <1>6 DEF Right, SameLink
  <2> QED
    BY <2>1, <2>2, <1>6 DEF LoadSteps
<1>16. BloomKept'
  <2> SUFFICES ASSUME bloom'.loader = "begin" \/ (bloom'.ready /\ ~ahead), NEW id \in Id
               PROVE  \/ Right("bloom", trees, bloom'.urls, id)
                      \/ bloom'.loader = "begin" /\ id > 0
    BY <1>2, <1>7 DEF BloomKept, SameLink
  <2>1. CASE bloom'.ready
    BY <2>1, <1>7, <1>14 DEF Section, Loader, Content
  <2>2. CASE bloom'.loader = "begin"
    BY <2>2 DEF Id
  <2> QED
    BY <2>1, <2>2
<1>17. VectorsKept'
  <2> SUFFICES ASSUME vectors'.loader = "begin" \/ (vectors'.ready /\ ~ahead), NEW id \in Id
               PROVE  \/ Right("vectors", trees, vectors'.ids, id)
                      \/ vectors'.loader = "begin" /\ id > 0 /\ id \in trees.vectors
    BY <1>2, <1>8 DEF VectorsKept
  <2>1. CASE vectors'.ready
    BY <2>1, <1>8, <1>14 DEF Section, Loader, Content
  <2>2. CASE vectors'.loader = "begin"
    <3>1. Right("vectors", trees, vectors.ids, id) \/ id \notin vectors.ids
      BY <2>2, <1>2, <1>8 DEF IInv, RestoredKept
    <3> QED
      BY <2>2, <3>1, <1>8 DEF Right, Id
  <2> QED
    BY <2>1, <2>2
<1>18. ScanKept' /\ PageKept'
  BY <1>6 DEF ScanKept, PageKept
<1> QED
  BY <1>9, <1>10, <1>11, <1>12, <1>13, <1>15, <1>16, <1>17, <1>18 DEF IInv, StoreInv, IndexInv

-----------------------------------------------------------------------------
(* The invariant, and what follows from it.                                *)

(* A directory without a snapshot, and no process.                         *)
LEMMA InitKeeps ==
    ASSUME Init
    PROVE  IInv
<1>1. /\ image \in Trees /\ seq = 1 /\ tail = <<>> /\ snap = NoSnap /\ phase = "down"
      /\ replayed = 0 /\ trees = image /\ drained = image.links
      /\ applying = NotApplying /\ writing = NotWriting
      /\ facts = EmptyFacts /\ bloom = EmptyBloom /\ vectors = EmptyVectors
  BY DEF Init
<1>2. Typed(image)
  BY <1>1 DEF Trees, Typed
<1>3. \A s \in Section : ~Ready(s) /\ Loader(s) = "off"
  BY <1>1 DEF Section, Ready, Loader, EmptyFacts, EmptyBloom, EmptyVectors
<1>4. ShapesKept
  BY <1>1 DEF ShapesKept, EmptyFacts, EmptyBloom, EmptyVectors, NoSnap, NotWriting
<1>5. TypesKept
  BY <1>1, <1>2 DEF TypesKept, Typed, EmptyFacts, EmptyBloom, EmptyVectors, NoSnap
<1>6. PhaseKept
  BY <1>1, <1>3 DEF PhaseKept, EmptyFacts, EmptyBloom, EmptyVectors
<1>7. TreesKept
  BY <1>1 DEF TreesKept, Agree, SameLink
<1>8. SnapKept
  BY <1>1 DEF SnapKept, FileKept, NoSnap
<1>9. WritingKept /\ ApplyingKept /\ RestoredKept
  BY <1>1 DEF WritingKept, ApplyingKept, RestoredKept, NotWriting
<1>10. IndexInv
  BY <1>1 DEF IndexInv, FactsKept, BloomKept, VectorsKept, ScanKept, PageKept, EmptyFacts,
              EmptyBloom, EmptyVectors
<1> QED
  BY <1>4, <1>5, <1>6, <1>7, <1>8, <1>9, <1>10 DEF IInv, StoreInv

(* Nothing moves.                                                          *)
LEMMA StutterKeeps ==
    ASSUME IInv, UNCHANGED vars
    PROVE  IInv'
<1>1. UNCHANGED <<image, seq, tail, snap, phase, replayed, trees, drained, applying, facts, bloom,
                  vectors, writing, ahead>>
  BY DEF vars, store, memory, history
<1>2. ShapesKept' /\ TypesKept' /\ PhaseKept'
  BY <1>1 DEF IInv, StoreInv, ShapesKept, TypesKept, PhaseKept, Typed, Ready, Loader
<1>3. TreesKept' /\ SnapKept' /\ WritingKept'
  BY <1>1, StoreFrame, WritingFrame DEF IInv, StoreInv, store, Ready
<1>4. ApplyingKept' /\ IndexInv'
  BY <1>1, ApplyingFrame, IndexFrame DEF IInv
<1>5. RestoredKept'
  BY <1>1 DEF IInv, RestoredKept, Loader, Content, TouchedIn
<1> QED
  BY <1>2, <1>3, <1>4, <1>5 DEF IInv, StoreInv

(* Every step keeps the invariant.                                         *)
THEOREM DerivedInvariant == Spec => []IInv
<1>1. Init => IInv
  BY InitKeeps
<1>2. IInv /\ [Next]_vars => IInv'
  <2> SUFFICES ASSUME IInv, [Next]_vars PROVE IInv'
    OBVIOUS
  <2>1. CASE CreateLink \/ UpdateLink \/ DeleteLink \/ PutLinkVector
    BY <2>1, WritesKeep
  <2>2. CASE Apply
    BY <2>2, ApplyTreesKeeps, ApplyVectorsKeeps, ApplyBloomKeeps, ObserveKeeps DEF Apply
  <2>3. CASE Drain \/ SeedBloom \/ LoadVectorChunk
    BY <2>3, DrainKeeps, SeedKeeps, LoadVectorsKeeps
  <2>4. CASE LoadFacts
    BY <2>4, BeginKeeps, ScanKeeps, LoadKeeps, FinishKeeps DEF LoadFacts
  <2>5. CASE Checkpoint \/ SnapshotStart
    BY <2>5, CheckpointKeeps, StartKeeps
  <2>6. CASE WriteFacts \/ WriteBloom \/ WriteVectors
    BY <2>6, WriteSectionsKeep
  <2>7. CASE SnapshotRename \/ SnapshotFails
    BY <2>7, SnapshotEnds
  <2>8. CASE Crash \/ Boot
    BY <2>8, CrashKeeps, BootKeeps
  <2>9. CASE Replay \/ Serve
    BY <2>9, ReplayKeeps, ServeKeeps
  <2>10. CASE UNCHANGED vars
    BY <2>10, StutterKeeps
  <2> QED
    BY <2>1, <2>2, <2>3, <2>4, <2>5, <2>6, <2>7, <2>8, <2>9, <2>10 DEF Next
<1> QED
  BY <1>1, <1>2, PTL DEF Spec

(* Between two writes a filter that is ready has the url of every live     *)
(* link: create_link may answer "never stored" from it.                    *)
THEOREM BloomNeverMisses == Spec => []BloomCoversLinks
<1>1. IInv => BloomCoversLinks
  <2> SUFFICES ASSUME IInv, bloom.ready, Idle, ~ahead, NEW id \in DOMAIN trees.links
               PROVE  trees.links[id] \in bloom.urls
    BY DEF BloomCoversLinks
  <2>1. phase = "up" /\ ~Pending("bloom", id) /\ id \in Id /\ "bloom" \in Section /\ Ready("bloom")
    BY NonePending DEF Idle, IInv, StoreInv, TypesKept, Typed, Section, Ready
  <2>2. Right("bloom", trees, Content("bloom"), id)
    BY <2>1, ReadyRight
  <2> QED
    BY <2>2 DEF Right, Content
<1> QED
  BY <1>1, DerivedInvariant, PTL

(* A facts index that is ready has each live link as it is, and no other,  *)
(* but for the one apply is at.                                            *)
THEOREM FactsAreComplete == Spec => []FactsComplete
<1>1. IInv => FactsComplete
  <2> SUFFICES ASSUME IInv, facts.ready, ~ahead, NEW id \in Id \ {applying.change.id}
               PROVE  /\ id \in DOMAIN facts.links <=> id \in DOMAIN trees.links
                      /\ id \in DOMAIN trees.links => facts.links[id] = trees.links[id]
    BY DEF FactsComplete
  <2>1. "facts" \in Section /\ Ready("facts") /\ ~Pending("facts", id)
    BY DEF Section, Ready, Pending
  <2>2. phase = "up"
    BY <2>1 DEF IInv, StoreInv, PhaseKept
  <2>3. Right("facts", trees, Content("facts"), id)
    BY <2>1, <2>2, ReadyRight
  <2> QED
    BY <2>3 DEF Right, Content, SameLink
<1> QED
  BY <1>1, DerivedInvariant, PTL

(* A vector index that is ready has each stored vector, and no other.      *)
THEOREM VectorsAreComplete == Spec => []VectorsComplete
<1>1. IInv => VectorsComplete
  <2> SUFFICES ASSUME IInv, vectors.ready, ~ahead, NEW id \in Id \ {applying.change.id}
               PROVE  id \in vectors.ids <=> id \in trees.vectors
    BY DEF VectorsComplete
  <2>1. "vectors" \in Section /\ Ready("vectors") /\ ~Pending("vectors", id)
    BY DEF Section, Ready, Pending
  <2>2. phase = "up"
    BY <2>1 DEF IInv, StoreInv, PhaseKept
  <2>3. Right("vectors", trees, Content("vectors"), id)
    BY <2>1, <2>2, ReadyRight
  <2> QED
    BY <2>3 DEF Right, Content
<1> QED
  BY <1>1, DerivedInvariant, PTL
=============================================================================
