--------------------------- MODULE CommitRecovery ---------------------------
(***************************************************************************)
(* The commit pipeline of src/directory.zig: WAL append, ordered apply,    *)
(* acknowledgement after fsync, checkpoint, crash, boot and replay, with   *)
(* the counters that live three times: in atomics, in the in-memory header *)
(* and in the superblock.  The tree contents are reduced to the status of  *)
(* every link id; a change set writes one link.                            *)
(*                                                                         *)
(* External (zigstore, modelled from its use and from README.md Durability): *)
(*   - appends, applies and a checkpoint's cut are ordered; appends wait   *)
(*     while a checkpoint is being written;                                *)
(*   - a checkpoint is journal, in place, WAL truncation; a complete       *)
(*     journal is redone on open; store.recover ends with a checkpoint;    *)
(*   - a crash keeps every fsynced WAL record and any prefix of the rest.  *)
(***************************************************************************)
EXTENDS Naturals, Sequences, FiniteSets

CONSTANTS
    Status,      \* pending, approved, rejected
    Absent,      \* "no such link"
    MaxId,       \* bound: link ids 1..MaxId
    MaxLog,      \* bound: change sets in the log
    MaxCrashes   \* bound: crashes in a behaviour

ASSUME AbsentAssumption == Absent \notin Status
ASSUME BoundsAssumption == MaxId \in Nat /\ MaxLog \in Nat /\ MaxCrashes \in Nat

VARIABLES
    disk,     \* store.dat: superblock sequence and counters, and the records
    journal,  \* image a redo of checkpoint.journal leaves: that of disk when empty
    walFrom,  \* wal.bin holds the change sets of log after this sequence
    durable,  \* every change set up to this sequence survives a crash
    phase,    \* "down", "replay", "recovering" (checkpoint of recovery), "serving"
    links,    \* links_by_id as requests see it (memtable over tree)
    applied,  \* sequence of the last change set applied
    nextId,   \* Directory.next_link_id
    counts,   \* Directory.links_{pending,approved,rejected}_count
    hdr,      \* store.counter(...): the header counters a checkpoint persists
    ckpt,     \* the checkpointing thread: step and the counters it loaded
    log,      \* change sets in sequence order: wal.bin is log[walFrom+1..],
              \* what was truncated before it is kept as history
    acked,    \* history: highest sequence a client was told about
    crashes   \* number of crashes so far

memory == <<links, applied, nextId, counts>>
storage == <<disk, journal, walFrom>>
vars == <<disk, journal, walFrom, durable, phase, links, applied, nextId, counts,
          hdr, ckpt, log, acked, crashes>>

Id == 1..MaxId
Slot == Status \cup {Absent}
Change == [id : Id, old : Slot, new : Slot]
Counters == [nextId : Nat, counts : [Status -> Nat], version : {0, 1}]
Image == [seq : Nat, links : [Id -> Slot], counters : Counters]

NoLinks == [id \in Id |-> Absent]
ZeroCounts == [s \in Status |-> 0]
FreshDisk ==
    [seq |-> 0, links |-> NoLinks,
     counters |-> [nextId |-> 0, counts |-> ZeroCounts, version |-> 0]]

Appended == Len(log)
Idle == [step |-> "idle", nextId |-> 0, counts |-> ZeroCounts]

HaveStatus(f, s) == {id \in Id : f[id] = s}
StatusCounts(f) == [s \in Status |-> Cardinality(HaveStatus(f, s))]

Init ==
    /\ disk = FreshDisk
    /\ journal = FreshDisk
    /\ walFrom = 0
    /\ durable = 0
    /\ phase = "down"
    /\ links = NoLinks
    /\ applied = 0
    /\ nextId = 0
    /\ counts = ZeroCounts
    /\ hdr = FreshDisk.counters
    /\ ckpt = Idle
    /\ log = <<>>
    /\ acked = 0
    /\ crashes = 0

-----------------------------------------------------------------------------
(* Writes.  write_mutex is held from the id's issue to the end of apply,   *)
(* so a writer starts only when everything appended has been applied.      *)

WriterMayStart ==
    /\ phase = "serving"
    /\ applied = Appended
    /\ ckpt.step \notin {"journaled", "inplace"}
    /\ Appended < MaxLog

AppendChange(change) ==
    /\ log' = Append(log, change)
    /\ UNCHANGED <<storage, durable, phase, links, applied, counts, hdr, ckpt,
                   acked, crashes>>

CreateLink ==
    /\ WriterMayStart
    /\ nextId <= MaxId
    /\ nextId' = nextId + 1
    /\ \E s \in Status : AppendChange([id |-> nextId, old |-> Absent, new |-> s])

SetStatus ==
    /\ WriterMayStart
    /\ \E id \in Id, s \in Status :
        /\ links[id] # Absent
        /\ AppendChange([id |-> id, old |-> links[id], new |-> s])
    /\ UNCHANGED nextId

DeleteLink ==
    /\ WriterMayStart
    /\ \E id \in Id :
        /\ links[id] # Absent
        /\ AppendChange([id |-> id, old |-> links[id], new |-> Absent])
    /\ UNCHANGED nextId

Bigger(a, b) == IF a >= b THEN a ELSE b

(* apply(): the record, the id counter and the status counters.  The old   *)
(* status is the one the change set carries; a decrement stops at zero.    *)
Recount(c, change) ==
    [s \in Status |->
        LET left == IF s = change.old /\ s # change.new /\ c[s] > 0
                    THEN c[s] - 1 ELSE c[s]
        IN  IF s = change.new /\ s # change.old THEN left + 1 ELSE left]

NoteIssuedId(change) ==
    IF change.old = Absent THEN Bigger(nextId, change.id + 1) ELSE nextId

ApplyChange(change) ==
    /\ links' = [links EXCEPT ![change.id] = change.new]
    /\ nextId' = NoteIssuedId(change)
    /\ counts' = Recount(counts, change)
    /\ applied' = applied + 1

Synced(id, c) == [hdr EXCEPT !.nextId = id, !.counts = c]

(* apply_or_abort: apply, then sync_persisted_counters, under apply_mutex. *)
Apply ==
    /\ phase = "serving"
    /\ applied < Appended
    /\ ApplyChange(log[applied + 1])
    /\ hdr' = Synced(nextId', counts')
    /\ UNCHANGED <<storage, durable, phase, ckpt, log, acked, crashes>>

(* The WAL flusher fsyncs a prefix of what was appended, applied or not.   *)
FlushWal ==
    /\ phase = "serving"
    /\ durable' \in durable + 1 .. Appended
    /\ UNCHANGED <<storage, phase, memory, hdr, ckpt, log, acked, crashes>>

(* Mutants of Acknowledge: before the fsync; only below the last fsync.    *)
AcknowledgeBeforeFsync ==
    /\ phase = "serving"
    /\ acked' \in acked + 1 .. applied
    /\ UNCHANGED <<storage, durable, phase, memory, hdr, ckpt, log, crashes>>

AcknowledgeBelowFsync ==
    /\ phase = "serving"
    /\ acked' \in acked + 1 .. applied
    /\ acked' < durable
    /\ UNCHANGED <<storage, durable, phase, memory, hdr, ckpt, log, crashes>>

(* dispatch: the response leaves once the request's last entry is durable. *)
Acknowledge ==
    /\ phase = "serving"
    /\ acked' \in acked + 1 .. applied
    /\ acked' <= durable
    /\ UNCHANGED <<storage, durable, phase, memory, hdr, ckpt, log, crashes>>

-----------------------------------------------------------------------------
(* Directory.checkpoint: sync_persisted_counters without a lock, a load    *)
(* and a store an apply may fall between, then the engine's checkpoint.    *)

SyncLoad ==
    /\ phase = "serving"
    /\ ckpt.step = "idle"
    /\ ckpt' = [step |-> "loaded", nextId |-> nextId, counts |-> counts]
    /\ UNCHANGED <<storage, durable, phase, memory, hdr, log, acked, crashes>>

SyncStore ==
    /\ ckpt.step = "loaded"
    /\ hdr' = Synced(ckpt.nextId, ckpt.counts)
    /\ ckpt' = [Idle EXCEPT !.step = "synced"]
    /\ UNCHANGED <<storage, durable, phase, memory, log, acked, crashes>>

CheckpointJournal ==
    /\ ckpt.step = "synced"
    /\ applied = Appended
    /\ journal' = [seq |-> applied, links |-> links, counters |-> hdr]
    /\ durable' = Bigger(durable, applied)
    /\ ckpt' = [Idle EXCEPT !.step = "journaled"]
    /\ UNCHANGED <<disk, walFrom, phase, memory, hdr, log, acked, crashes>>

CheckpointInPlace ==
    /\ ckpt.step = "journaled"
    /\ disk' = journal
    /\ ckpt' = [Idle EXCEPT !.step = "inplace"]
    /\ UNCHANGED <<journal, walFrom, durable, phase, memory, hdr, log, acked, crashes>>

CheckpointTruncate ==
    /\ ckpt.step = "inplace"
    /\ walFrom' = disk.seq
    /\ ckpt' = Idle
    /\ phase' = "serving"
    /\ UNCHANGED <<disk, journal, durable, memory, hdr, log, acked, crashes>>

-----------------------------------------------------------------------------
(* Crash, boot and replay.                                                 *)

Crash ==
    /\ phase # "down"
    /\ crashes < MaxCrashes
    /\ \E kept \in durable .. Appended :
        /\ log' = SubSeq(log, 1, kept)
        /\ durable' = kept
    /\ phase' = "down"
    /\ links' = NoLinks
    /\ applied' = 0
    /\ nextId' = 0
    /\ counts' = ZeroCounts
    /\ hdr' = FreshDisk.counters
    /\ ckpt' = Idle
    /\ crashes' = crashes + 1
    /\ UNCHANGED <<storage, acked>>

BootReplaysWholeWal ==    \* mutant: it does not skip what the image holds
    /\ phase = "down"
    /\ disk' = journal
    /\ phase' = "replay"
    /\ links' = journal.links
    /\ applied' = walFrom
    /\ hdr' = journal.counters
    /\ nextId' = IF journal = FreshDisk THEN 1 ELSE journal.counters.nextId
    /\ counts' = journal.counters.counts
    /\ UNCHANGED <<journal, walFrom, durable, ckpt, log, acked, crashes>>

(* Directory.init: redo a complete journal, load the header, take the      *)
(* atomics from it; a store never written to starts its ids at one.        *)
Boot ==
    /\ phase = "down"
    /\ disk' = journal
    /\ phase' = "replay"
    /\ links' = journal.links
    /\ applied' = journal.seq
    /\ hdr' = journal.counters
    /\ nextId' = IF journal = FreshDisk THEN 1 ELSE journal.counters.nextId
    /\ counts' = journal.counters.counts
    /\ UNCHANGED <<journal, walFrom, durable, ckpt, log, acked, crashes>>

(* wal.bin holds a change set above the last one applied.                  *)
Unreplayed == walFrom <= applied /\ applied < Appended

(* apply_entry: the applier of a live commit, without apply_or_abort's     *)
(* sync of the header counters.                                            *)
ReplayEntry ==
    /\ phase = "replay"
    /\ Unreplayed
    /\ ApplyChange(log[applied + 1])
    /\ UNCHANGED <<storage, durable, phase, hdr, ckpt, log, acked, crashes>>

(* Mutant of RestoreDerivedCounts: it does not wait for the replay.        *)
RestoreDerivedCountsTooEarly ==
    /\ phase = "replay"
    /\ phase' = "recovering"
    /\ ckpt' = [Idle EXCEPT !.step = "synced"]
    /\ UNCHANGED <<storage, durable, memory, hdr, log, acked, crashes>>

(* restore_derived_counts, then store.recover's own checkpoint begins.     *)
RestoreDerivedCountsOnce ==    \* mutant: only the first boot gets past it
    /\ phase = "replay"
    /\ ~Unreplayed
    /\ hdr.version = 0
    /\ phase' = "recovering"
    /\ nextId' = Bigger(nextId, hdr.nextId)
    /\ counts' = StatusCounts(links)
    /\ hdr' = [nextId |-> nextId', counts |-> counts', version |-> 1]
    /\ ckpt' = [Idle EXCEPT !.step = "synced"]
    /\ UNCHANGED <<storage, durable, links, applied, log, acked, crashes>>

RestoreDerivedCounts ==
    /\ phase = "replay"
    /\ ~Unreplayed
    /\ nextId' = Bigger(nextId, hdr.nextId)
    /\ counts' = IF hdr.version = 1 THEN counts ELSE StatusCounts(links)
    /\ hdr' = IF hdr.version = 1 THEN hdr
              ELSE [nextId |-> nextId', counts |-> counts', version |-> 1]
    /\ phase' = "recovering"
    /\ ckpt' = [Idle EXCEPT !.step = "synced"]
    /\ UNCHANGED <<storage, durable, links, applied, log, acked, crashes>>

Next ==
    \/ CreateLink \/ SetStatus \/ DeleteLink
    \/ Apply \/ FlushWal \/ Acknowledge
    \/ SyncLoad \/ SyncStore
    \/ CheckpointJournal \/ CheckpointInPlace \/ CheckpointTruncate
    \/ Crash \/ Boot \/ ReplayEntry \/ RestoreDerivedCounts

Spec == Init /\ [][Next]_vars

-----------------------------------------------------------------------------
(* Correctness.                                                            *)

TypeOK ==
    /\ disk \in Image
    /\ journal \in Image
    /\ walFrom \in Nat /\ durable \in Nat /\ applied \in Nat
    /\ phase \in {"down", "replay", "recovering", "serving"}
    /\ links \in [Id -> Slot]
    /\ nextId \in Nat
    /\ counts \in [Status -> Nat]
    /\ hdr \in Counters
    /\ ckpt \in [step : {"idle", "loaded", "synced", "journaled", "inplace"},
                nextId : Nat, counts : [Status -> Nat]]
    /\ log \in Seq(Change)
    /\ acked \in Nat /\ crashes \in 0..MaxCrashes

(* f is what a reader sees after exactly the first n change sets of h.     *)
Reflects(h, f, n) ==
    \A id \in Id :
        \/ /\ f[id] = Absent
           /\ \A i \in 1..n : h[i].id # id
        \/ \E i \in 1..n :
            /\ h[i].id = id /\ h[i].new = f[id]
            /\ \A j \in i + 1 .. n : h[j].id # id

(* Whatever the phase, the records served are exactly a prefix of the log: *)
(* replay neither skips a change set nor lets an older one win.            *)
ServedIsPrefix == phase # "down" => Reflects(log, links, applied)

(* store.dat, and a journal waiting to be redone, stand at their sequence. *)
ImagesArePrefixes ==
    \A image \in {disk, journal} :
        image.seq <= Appended /\ Reflects(log, image.links, image.seq)

(* "The ack is the fsync" (README.md Durability): what was acknowledged is *)
(* on disk, and recovery can reach it from store.dat and wal.bin alone.    *)
AckedIsRecoverable ==
    /\ acked <= durable
    /\ durable <= Appended
    /\ walFrom <= disk.seq
    /\ phase = "serving" => acked <= applied

(* How far the steps of checkpoint, crash and recovery have come in each   *)
(* phase: what makes the invariants above inductive.                       *)
PhaseInv ==
    /\ disk.seq <= journal.seq /\ journal.seq <= durable
    /\ applied <= Appended
    /\ phase = "down" => ckpt.step = "idle" /\ durable = Appended
    /\ phase # "down" => disk.seq <= applied
    /\ phase = "replay" => ckpt.step = "idle" /\ durable = Appended
    /\ phase = "recovering" =>
          /\ applied = Appended /\ durable = Appended
          /\ ckpt.step \in {"synced", "journaled", "inplace"}
    /\ phase # "down" /\ ckpt.step # "journaled" => journal = disk
    /\ ckpt.step \in {"journaled", "inplace"} =>
          journal.seq = applied /\ applied = Appended

(* Id zero is never handed out: from a store never written to as from any  *)
(* image a crash can leave, the counter restarts above the sentinel.       *)
IdsStartAtOne ==
    /\ \A image \in {disk, journal} :
          image = FreshDisk \/ image.counters.nextId >= 1
    /\ phase # "down" => nextId >= 1
    /\ phase = "replay" => hdr = disk.counters
    /\ phase \in {"recovering", "serving"} => hdr.nextId >= 1
    /\ ckpt.step = "loaded" => ckpt.nextId >= 1

(* A link id names one link for ever: no two creations in the log share    *)
(* one, whatever was checkpointed, lost and replayed between them.         *)
IdsNeverReissued ==
    \A i, j \in 1..Appended :
        i < j /\ log[i].old = Absent => log[j].old # Absent \/ log[j].id # log[i].id

(* The checkpoint recovery ends with persists exact status counts: refuted *)
(* by the code, see the README.                                            *)
RecoveryCountsExact ==
    phase = "recovering" /\ ckpt.step = "inplace" =>
        disk.counters.counts = StatusCounts(disk.links)

(* Until the first crash the atomics are exact: the ids ahead of every     *)
(* record, each status counter equal to the records that have the status.  *)
CountersExactBeforeCrash ==
    crashes = 0 /\ phase = "serving" =>
        /\ counts = StatusCounts(links)
        /\ \A i \in 1..Appended : log[i].id < nextId

(* Every change set found in the log what it says it replaces.             *)
NoStaleChange ==
    \A i \in 1..Appended :
        \/ log[i].old = Absent /\ \A j \in 1 .. i - 1 : log[j].id # log[i].id
        \/ \E j \in 1 .. i - 1 :
            /\ log[j].id = log[i].id /\ log[j].new = log[i].old
            /\ \A k \in j + 1 .. i - 1 : log[k].id # log[i].id

(* Replay leaves the status counts as exact as the checkpoint it started   *)
(* from: no change set is counted twice or missed, wherever a crash fell   *)
(* between journal, in-place write and WAL truncation.                     *)
ReplayKeepsCountsExact ==
    /\ phase \in {"replay", "recovering"}
    /\ ckpt.step # "inplace"
    /\ NoStaleChange
    /\ disk.counters.counts = StatusCounts(disk.links)
    => counts = StatusCounts(links)

-----------------------------------------------------------------------------
(* Liveness.  The WAL flusher is a 2 ms timer, apply and acknowledgement   *)
(* run on the request's own thread, and nothing else runs during recovery. *)

FairSpec ==
    /\ Spec
    /\ WF_vars(Apply) /\ WF_vars(FlushWal) /\ WF_vars(Acknowledge)
    /\ WF_vars(SyncStore) /\ WF_vars(CheckpointJournal)
    /\ WF_vars(CheckpointInPlace) /\ WF_vars(CheckpointTruncate)
    /\ WF_vars(Boot) /\ WF_vars(ReplayEntry) /\ WF_vars(RestoreDerivedCounts)

(* A committed write is acknowledged unless the process dies first: the    *)
(* checkpoint that pauses appends never strands a waiting request.         *)
WritesAreAcknowledged ==
    \A n \in 1..MaxLog :
        phase = "serving" /\ Appended >= n ~> acked >= n \/ phase # "serving"

(* Every boot reaches the serving state, wherever the crash before it fell.*)
RecoveryTerminates == phase = "down" ~> phase = "serving"

Promise == INSTANCE DurableStore WITH
    visible <- IF phase = "serving" THEN applied ELSE 0,
    up <- phase = "serving"

(* The pipeline implements the abstract store: a crash loses only what was *)
(* never acknowledged and a restart serves everything that was kept.       *)
ImplementsDurableStore == Promise!Spec

=============================================================================
