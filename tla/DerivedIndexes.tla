--------------------------- MODULE DerivedIndexes ---------------------------
(***************************************************************************)
(* The indexes kept in memory only, and how a boot gets them back: the     *)
(* facts index, the url Bloom filter and the vector index of links         *)
(* (facts_index.zig, operations_facts.zig, operations_link.zig,            *)
(* operations_vector.zig, derived_snapshot.zig and the loaders of          *)
(* directory.zig).                                                         *)
(*                                                                         *)
(* apply writes the trees and then each index under that index's own lock; *)
(* loaders scan the trees meanwhile; after a checkpoint the indexes are    *)
(* written, one section after the other, into derived.snap, stamped with   *)
(* the sequence of the checkpoint; a boot restores it if the superblock    *)
(* still has that sequence, and the WAL tail is applied on top.            *)
(*                                                                         *)
(* A checkpoint and a recovery are one step here, CommitRecovery has their *)
(* parts; a clean stop is a checkpoint, a snapshot and a crash that loses   *)
(* nothing.  Pages and chunks of the loaders hold one record.  Category    *)
(* vectors follow the protocol of the link vectors, the facts of           *)
(* categories and entities that of the facts of links: they are left out.  *)
(***************************************************************************)
EXTENDS Naturals, Sequences, FiniteSets

CONSTANTS
    Url,         \* urls
    Stored,      \* link ids issued before
    MaxId,       \* bound: link ids ever issued
    MaxWrites,   \* bound: change sets appended
    MaxCrashes,  \* bound: crashes
    MaxLoaders   \* bound: loaders a boot starts, the others fail to start

ASSUME BoundAssumption ==
    /\ MaxId \in Nat /\ Stored \in 0..MaxId /\ MaxWrites \in Nat /\ MaxCrashes \in Nat
    /\ MaxLoaders \in Nat

VARIABLES
    image,       \* store.dat: the trees at the last checkpoint
    seq,         \* its sequence, in the superblock
    tail,        \* wal.bin: the change sets above seq
    snap,        \* derived.snap
    phase,       \* "down", "replay" (next entry: replayed + 1) or "up"
    replayed,
    trees,       \* the trees with their memtables
    drained,     \* links_by_id without its memtable
    applying,    \* the change set apply is at, and the steps it has left
    facts,       \* FactsIndex: links, touched_links, loading, ready and the loader
    bloom,       \* url_bloom, url_bloom_ready and the seeder
    vectors,     \* VectorIndex: ids, ready and the loader
    writing,     \* the snapshot being written after a checkpoint
    ahead,       \* history: the indexes go back to a snapshot with changes the WAL lost
    writes, crashes

store == <<image, seq, tail, snap>>
memory == <<phase, replayed, trees, drained, applying, facts, bloom, vectors, writing>>
history == <<ahead, writes, crashes>>
vars == <<store, memory, history>>

Id == 1..MaxId
Section == {"facts", "bloom", "vectors"}

Without(f, k) == [x \in DOMAIN f \ {k} |-> f[x]]
With(f, k, v) == [x \in DOMAIN f \cup {k} |-> IF x = k THEN v ELSE f[x]]

Trees == {[links |-> links, vectors |-> stored, next |-> next] :
              links \in UNION {[ids -> Url] : ids \in SUBSET Id},
              stored \in SUBSET Id, next \in 1 .. MaxId + 1}
WellFormed(t) == t.vectors \subseteq DOMAIN t.links /\ \A id \in DOMAIN t.links : id < t.next

NoSnap == [seq |-> 0, has |-> {}, facts |-> <<>>, bloom |-> {}, vectors |-> {},
           cut |-> 0, ahead |-> FALSE]
NotWriting == [step |-> "idle", left |-> {}, file |-> NoSnap]
NoChange == [op |-> "none", id |-> 0, url |-> "none", text |-> FALSE]
NotApplying == [change |-> NoChange, steps |-> <<>>]

EmptyFacts == [links |-> <<>>, touched |-> {}, loading |-> FALSE, ready |-> FALSE,
               loader |-> "off", after |-> 0, page |-> <<>>, more |-> FALSE]
EmptyBloom == [urls |-> {}, ready |-> FALSE, loader |-> "off", next |-> 0]
EmptyVectors == [ids |-> {}, ready |-> FALSE, loader |-> "off", next |-> 0]

(* A directory some earlier process checkpointed, without a snapshot.      *)
Init ==
    /\ image \in {t \in Trees : WellFormed(t) /\ t.next = Stored + 1}
    /\ seq = 1 /\ tail = <<>> /\ snap = NoSnap
    /\ phase = "down" /\ replayed = 0 /\ trees = image /\ drained = image.links
    /\ applying = NotApplying
    /\ facts = EmptyFacts /\ bloom = EmptyBloom /\ vectors = EmptyVectors
    /\ writing = NotWriting
    /\ ahead = FALSE /\ writes = 0 /\ crashes = 0

-----------------------------------------------------------------------------
(* apply: what a change set does to the trees and to each index.           *)

DropsVector(c) == c.op = "delete" \/ (c.op = "update" /\ c.text)

ChangedTrees(t, c) ==
    [links |-> CASE c.op \in {"create", "update"} -> With(t.links, c.id, c.url)
                 [] c.op = "delete" -> Without(t.links, c.id)
                 [] OTHER -> t.links,
     vectors |-> CASE c.op = "vector" -> t.vectors \cup {c.id}
                   [] DropsVector(c) -> t.vectors \ {c.id}
                   [] OTHER -> t.vectors,
     next |-> IF c.op = "create" THEN c.id + 1 ELSE t.next]

ChangedVectors(index, c) ==
    CASE c.op = "vector" -> [index EXCEPT !.ids = @ \cup {c.id}]
      [] DropsVector(c) -> [index EXCEPT !.ids = @ \ {c.id}]
      [] OTHER -> index

ChangedBloomOfCreates(filter, c) ==    \* mutant
    IF c.op = "create" THEN [filter EXCEPT !.urls = @ \cup {c.url}] ELSE filter

ChangedBloom(filter, c) ==
    IF c.op \in {"create", "update"} THEN [filter EXCEPT !.urls = @ \cup {c.url}] ELSE filter

(* What apply writes, in its order.                                        *)
Steps(c) ==
    CASE c.op = "create" -> <<"trees", "bloom", "facts">>
      [] c.op = "update" /\ ~c.text -> <<"trees", "bloom", "facts">>
      [] c.op = "update" /\ c.text -> <<"trees", "vectors", "bloom", "facts">>
      [] c.op = "delete" -> <<"trees", "vectors", "facts">>
      [] c.op = "vector" -> <<"trees", "vectors">>

(* observe: while a load runs, what apply wrote is marked as touched.      *)
Observed(index, c) ==
    LET touched == IF index.loading THEN index.touched \cup {c.id} ELSE index.touched
    IN  CASE c.op \in {"create", "update"} ->
                [index EXCEPT !.links = With(@, c.id, c.url), !.touched = touched]
          [] c.op = "delete" ->
                [index EXCEPT !.links = Without(@, c.id), !.touched = touched]
          [] OTHER -> index

-----------------------------------------------------------------------------
(* Writes.  write_mutex is held from the append to the end of apply.       *)

Idle == phase = "up" /\ applying = NotApplying

Commit(c) ==
    /\ Idle
    /\ writes < MaxWrites
    /\ writes' = writes + 1
    /\ tail' = Append(tail, c)
    /\ applying' = [change |-> c, steps |-> Steps(c)]
    /\ UNCHANGED <<image, seq, snap, phase, replayed, trees, drained, facts, bloom,
                   vectors, writing, ahead, crashes>>

CreateLink ==
    /\ trees.next \in Id
    /\ \E url \in Url : Commit([op |-> "create", id |-> trees.next, url |-> url, text |-> TRUE])

UpdateLink ==
    \E id \in DOMAIN trees.links, url \in Url, text \in BOOLEAN :
        Commit([op |-> "update", id |-> id, url |-> url, text |-> text])

DeleteLink ==
    \E id \in DOMAIN trees.links :
        Commit([op |-> "delete", id |-> id, url |-> trees.links[id], text |-> FALSE])

PutLinkVector ==
    \E id \in DOMAIN trees.links :
        Commit([op |-> "vector", id |-> id, url |-> trees.links[id], text |-> FALSE])

(* apply, step by step.                                                    *)
ApplyStep(step) ==
    /\ applying.steps # <<>>
    /\ Head(applying.steps) = step
    /\ applying' = IF Len(applying.steps) = 1 THEN NotApplying
                   ELSE [applying EXCEPT !.steps = Tail(@)]
    /\ UNCHANGED <<store, phase, replayed, drained, writing, history>>

ApplyTrees ==
    /\ ApplyStep("trees")
    /\ trees' = ChangedTrees(trees, applying.change)
    /\ UNCHANGED <<facts, bloom, vectors>>

ApplyVectors ==
    /\ ApplyStep("vectors")
    /\ vectors' = ChangedVectors(vectors, applying.change)
    /\ UNCHANGED <<trees, facts, bloom>>

ApplyBloom ==
    /\ ApplyStep("bloom")
    /\ bloom' = ChangedBloom(bloom, applying.change)
    /\ UNCHANGED <<trees, facts, vectors>>

Observe ==
    /\ ApplyStep("facts")
    /\ facts' = Observed(facts, applying.change)
    /\ UNCHANGED <<trees, bloom, vectors>>

(* The memtable flusher.                                                   *)
Drain ==
    /\ phase = "up"
    /\ drained # trees.links
    /\ drained' = trees.links
    /\ UNCHANGED <<store, phase, replayed, trees, applying, facts, bloom, vectors, writing, history>>

-----------------------------------------------------------------------------
(* The loaders.                                                            *)

(* The next key of a scan that starts after key k.                         *)
From(keys, k) == {id \in keys : id > k /\ \A other \in keys : other > k => id <= other}

(* seed_url_bloom: a scan of links_by_id, a link at a time.                *)
Seeded(filter, from, next) ==
    [filter EXCEPT !.urls = @ \cup {drained[id] : id \in from}, !.next = next]

SeedBloom ==
    /\ phase = "up" /\ bloom.loader = "begin"
    /\ LET from == From(DOMAIN drained, bloom.next)
       IN  bloom' = IF from = {} THEN [bloom EXCEPT !.ready = TRUE, !.loader = "off"]
                    ELSE Seeded(bloom, from, CHOOSE id \in from : TRUE)
    /\ UNCHANGED <<store, phase, replayed, trees, drained, applying, facts, vectors, writing,
                   history>>

(* load_link_chunk: reads link_vectors and puts what it read into the      *)
(* index, both under the index's lock.                                     *)
ChunkLoaded(index, from) ==
    [index EXCEPT !.ids = @ \cup from, !.next = CHOOSE id \in from : TRUE]

LoadVectorChunk ==
    /\ phase = "up" /\ vectors.loader = "begin"
    /\ LET from == From(trees.vectors, vectors.next)
       IN  vectors' = IF from = {} THEN [vectors EXCEPT !.ready = TRUE, !.loader = "off"]
                      ELSE ChunkLoaded(vectors, from)
    /\ UNCHANGED <<store, phase, replayed, trees, drained, applying, facts, bloom, writing,
                   history>>

(* load_facts_index: begin_load, then pages of list_all_links, which are   *)
(* read without the index's lock and loaded under it.                      *)
FactsStep(step) ==
    /\ phase = "up" /\ facts.loader = step
    /\ UNCHANGED <<store, phase, replayed, trees, applying, bloom, vectors, writing, history>>

BeginLoad ==
    /\ FactsStep("begin")
    /\ facts' = [facts EXCEPT !.loading = TRUE, !.loader = "drain"]
    /\ UNCHANGED drained

LoaderDrains ==
    /\ FactsStep("drain")
    /\ drained' = trees.links
    /\ facts' = [facts EXCEPT !.loader = "scan"]

LoaderScans ==
    /\ FactsStep("scan")
    /\ LET from == From(DOMAIN drained, facts.after)
       IN  facts' = IF from = {} THEN [facts EXCEPT !.loader = "finish"]
                    ELSE [facts EXCEPT !.loader = "load", !.page = [id \in from |-> drained[id]],
                          !.more = \E id \in from : From(DOMAIN drained, id) # {}]
    /\ UNCHANGED drained

(* load_link, for the link of the page.                                    *)
LoadedAnyway(index, id) == With(index.links, id, index.page[id])    \* mutant

Loaded(index, id) ==
    IF id \in index.touched THEN index.links ELSE With(index.links, id, index.page[id])

LoadLink ==
    /\ FactsStep("load")
    /\ \E id \in DOMAIN facts.page :
        facts' = [facts EXCEPT !.links = Loaded(facts, id), !.after = id, !.page = <<>>,
                               !.loader = IF facts.more THEN "drain" ELSE "finish",
                               !.more = FALSE]
    /\ UNCHANGED drained

FinishLoad ==
    /\ FactsStep("finish")
    /\ facts' = [EmptyFacts EXCEPT !.links = facts.links, !.ready = TRUE]
    /\ UNCHANGED drained

-----------------------------------------------------------------------------
(* Checkpoints and the snapshot.                                           *)

(* checkpoint: waits for apply, flushes the WAL, drains the memtables.     *)
Checkpoint ==
    /\ Idle
    /\ writing = NotWriting
    /\ image' = trees /\ seq' = seq + Len(tail) /\ tail' = <<>>
    /\ drained' = trees.links
    /\ writing' = [NotWriting EXCEPT !.step = "ready"]
    /\ UNCHANGED <<snap, phase, replayed, trees, applying, facts, bloom, vectors, history>>

(* ready_sections, read before the first section is written.               *)
ReadySections ==
    {s \in Section : CASE s = "facts" -> facts.ready
                      [] s = "bloom" -> bloom.ready
                      [] s = "vectors" -> vectors.ready}

SnapshotStart ==
    /\ writing.step = "ready"
    /\ writing' = [step |-> "sections", left |-> ReadySections,
                   file |-> [NoSnap EXCEPT !.seq = seq, !.has = ReadySections,
                                            !.ahead = ahead]]
    /\ UNCHANGED <<store, phase, replayed, trees, drained, applying, facts, bloom, vectors, history>>

(* One section, a cut of its index under that index's lock.                *)
WriteSection(section, cut) ==
    /\ section \in writing.left
    /\ writing' = [writing EXCEPT !.left = @ \ {section}, !.file[section] = cut,
                                  !.file.cut = Len(tail)]
    /\ UNCHANGED <<store, phase, replayed, trees, drained, applying, facts, bloom, vectors, history>>

WriteFacts == WriteSection("facts", facts.links)
WriteBloom == "facts" \notin writing.left /\ WriteSection("bloom", bloom.urls)
WriteVectors == writing.left = {"vectors"} /\ WriteSection("vectors", vectors.ids)

SnapshotRename ==
    /\ writing.step = "sections" /\ writing.left = {}
    /\ snap' = writing.file
    /\ writing' = NotWriting
    /\ UNCHANGED <<image, seq, tail, phase, replayed, trees, drained, applying, facts,
                   bloom, vectors, history>>

(* Writing failed: the temporary file is deleted.                          *)
SnapshotFails ==
    /\ writing.step = "sections"
    /\ writing' = NotWriting
    /\ UNCHANGED <<store, phase, replayed, trees, drained, applying, facts, bloom, vectors, history>>

-----------------------------------------------------------------------------
(* Crash and boot.                                                         *)

(* What no fsync has covered is lost: apply does not wait for the fsync,   *)
(* nor does the snapshot, so it may be any part of the tail.               *)
Crash ==
    /\ phase = "up"
    /\ crashes < MaxCrashes
    /\ \E kept \in 0..Len(tail) :
        /\ tail' = SubSeq(tail, 1, kept)
        /\ snap' = [snap EXCEPT !.ahead = @ \/ (snap.seq = seq /\ snap.cut > kept)]
    /\ phase' = "down" /\ replayed' = 0 /\ crashes' = crashes + 1
    /\ trees' = image /\ drained' = image.links /\ applying' = NotApplying
    /\ facts' = EmptyFacts /\ bloom' = EmptyBloom /\ vectors' = EmptyVectors
    /\ writing' = NotWriting /\ ahead' = FALSE
    /\ UNCHANGED <<image, seq, writes>>

(* restore: only a snapshot of the superblock's sequence; a section that   *)
(* cannot be read ends it, a Bloom filter grown too small is passed over.  *)
RestorableAnySeq == snap.seq > 0    \* mutant

Restorable == snap.seq = seq

Boot ==
    /\ phase = "down"
    /\ \E sections \in SUBSET (IF Restorable THEN snap.has ELSE {}) :
        /\ "facts" \in snap.has /\ sections # {} => "facts" \in sections
        /\ facts' = IF "facts" \in sections
                    THEN [EmptyFacts EXCEPT !.links = snap.facts, !.loader = "restored"]
                    ELSE EmptyFacts
        /\ bloom' = IF "bloom" \in sections
                    THEN [EmptyBloom EXCEPT !.urls = snap.bloom, !.loader = "restored"]
                    ELSE EmptyBloom
        /\ vectors' = IF "vectors" \in sections
                      THEN [EmptyVectors EXCEPT !.ids = snap.vectors, !.loader = "restored"]
                      ELSE EmptyVectors
        /\ ahead' = (snap.ahead /\ sections # {})
    /\ phase' = "replay"
    /\ UNCHANGED <<store, replayed, trees, drained, applying, writing, writes, crashes>>

(* apply_entry: the tail is applied into the restored indexes too.         *)
ReplayInto(c) ==
    /\ trees' = ChangedTrees(trees, c)
    /\ facts' = Observed(facts, c)
    /\ bloom' = ChangedBloom(bloom, c)
    /\ vectors' = ChangedVectors(vectors, c)

Replay ==
    /\ phase = "replay"
    /\ replayed < Len(tail)
    /\ ReplayInto(tail[replayed + 1])
    /\ replayed' = replayed + 1
    /\ UNCHANGED <<store, phase, drained, applying, writing, history>>

(* start_index_loaders: a restored index is ready, another is loaded, if   *)
(* its thread can be started.                                              *)
Started(index, starts) ==
    CASE index.loader = "restored" -> [index EXCEPT !.ready = TRUE, !.loader = "off"]
      [] index.loader # "restored" /\ starts -> [index EXCEPT !.loader = "begin"]
      [] OTHER -> index

(* The checkpoint that ends recovery comes first.                          *)
Serve ==
    /\ phase = "replay"
    /\ replayed = Len(tail)
    /\ phase' = "up" /\ replayed' = 0
    /\ image' = trees /\ seq' = seq + Len(tail) /\ tail' = <<>>
    /\ drained' = trees.links
    /\ \E starting \in SUBSET Section :
        /\ Cardinality(starting) <= MaxLoaders
        /\ facts' = Started(facts, "facts" \in starting)
        /\ bloom' = Started(bloom, "bloom" \in starting)
        /\ vectors' = Started(vectors, "vectors" \in starting)
    /\ UNCHANGED <<snap, trees, applying, writing, history>>

Apply == ApplyTrees \/ ApplyVectors \/ ApplyBloom \/ Observe
LoadFacts == BeginLoad \/ LoaderDrains \/ LoaderScans \/ LoadLink \/ FinishLoad

Next ==
    \/ CreateLink \/ UpdateLink \/ DeleteLink \/ PutLinkVector
    \/ Apply \/ Drain
    \/ SeedBloom \/ LoadVectorChunk \/ LoadFacts
    \/ Checkpoint \/ SnapshotStart \/ WriteFacts \/ WriteBloom \/ WriteVectors
    \/ SnapshotRename \/ SnapshotFails
    \/ Crash \/ Boot \/ Replay \/ Serve

Spec == Init /\ [][Next]_vars

-----------------------------------------------------------------------------
(* Correctness.                                                            *)

(* Every variable has its type.                                            *)
TypeOK ==
    /\ image \in Trees /\ trees \in Trees /\ WellFormed(image)
    /\ seq \in 1 .. MaxWrites + 1 /\ Len(tail) <= MaxWrites
    /\ phase \in {"down", "replay", "up"} /\ replayed \in 0..Len(tail)
    /\ bloom.urls \subseteq Url /\ vectors.ids \subseteq Id /\ DOMAIN facts.links \subseteq Id
    /\ writing.left \subseteq writing.file.has /\ snap.has \subseteq Section

(* "The bloom filter answers 'never stored' without touching the index"    *)
(* (create_link_url_taken): between two writes, which is when create_link  *)
(* asks it, a filter that is ready has the url of every live link.         *)
BloomCoversLinks ==
    bloom.ready /\ Idle /\ ~ahead =>
        \A id \in DOMAIN trees.links : trees.links[id] \in bloom.urls

(* A facts index that is ready has each live link as it is, and no other,  *)
(* but for the one a write is at; unless it came from a snapshot that had  *)
(* changes the WAL lost.                                                   *)
FactsComplete ==
    facts.ready /\ ~ahead =>
        \A id \in Id \ {applying.change.id} :
            /\ id \in DOMAIN facts.links <=> id \in DOMAIN trees.links
            /\ id \in DOMAIN trees.links => facts.links[id] = trees.links[id]

(* The same of the vector index: a search misses no stored vector and      *)
(* finds none that is gone.                                                *)
VectorsComplete ==
    vectors.ready /\ ~ahead =>
        \A id \in Id \ {applying.change.id} :
            id \in vectors.ids <=> id \in trees.vectors
=============================================================================
