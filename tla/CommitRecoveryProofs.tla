------------------------ MODULE CommitRecoveryProofs ------------------------
(***************************************************************************)
(* Proofs about CommitRecovery for any number of ids, change sets and      *)
(* crashes: the records served and stored are always a prefix of the log,  *)
(* an acknowledged change is always recoverable, and the pipeline          *)
(* implements DurableStore.                                                *)
(***************************************************************************)
EXTENDS CommitRecovery, FiniteSetTheorems, TLAPS

(* The inductive invariant.                                                *)
IInv ==
    /\ TypeOK
    /\ ServedIsPrefix
    /\ ImagesArePrefixes
    /\ AckedIsRecoverable
    /\ PhaseInv
    /\ IdsStartAtOne

-----------------------------------------------------------------------------
(* Reflects: what applying, appending and truncating do to it.             *)

(* Nothing is reflected by no change at all.                               *)
LEMMA ReflectsNothing ==
    ASSUME NEW h PROVE Reflects(h, NoLinks, 0)
BY SMT DEF Reflects, NoLinks, Id

(* Applying the next change set of the log reflects one more of it.        *)
LEMMA ReflectsApply ==
    ASSUME NEW h \in Seq(Change), NEW f \in [Id -> Slot], NEW n \in Nat,
           n < Len(h), Reflects(h, f, n)
    PROVE  Reflects(h, [f EXCEPT ![h[n + 1].id] = h[n + 1].new], n + 1)
<1> DEFINE c == h[n + 1]
           g == [f EXCEPT ![c.id] = c.new]
<1>1. c \in Change
  OBVIOUS
<1>2. c.id \in Id /\ c.new \in Slot
  BY <1>1 DEF Change
<1>3. ASSUME NEW id \in Id
      PROVE  \/ /\ g[id] = Absent
                /\ \A i \in 1..(n + 1) : h[i].id # id
             \/ \E i \in 1..(n + 1) :
                  /\ h[i].id = id /\ h[i].new = g[id]
                  /\ \A j \in i + 1 .. n + 1 : h[j].id # id
  <2>1. CASE id = c.id
    <3>1. g[id] = h[n + 1].new /\ h[n + 1].id = id
      BY <2>1, <1>2
    <3>2. \A j \in (n + 1) + 1 .. n + 1 : h[j].id # id
      OBVIOUS
    <3> QED BY <3>1, <3>2
  <2>2. CASE id # c.id
    <3>1. g[id] = f[id]
      BY <2>2, <1>2
    <3>2. CASE f[id] = Absent /\ \A i \in 1..n : h[i].id # id
      BY <3>1, <3>2, <2>2
    <3>3. CASE \E i \in 1..n : /\ h[i].id = id /\ h[i].new = f[id]
                               /\ \A j \in i + 1 .. n : h[j].id # id
      <4>1. PICK i \in 1..n : /\ h[i].id = id /\ h[i].new = f[id]
                              /\ \A j \in i + 1 .. n : h[j].id # id
        BY <3>3
      <4>2. \A j \in i + 1 .. n + 1 : h[j].id # id
        BY <4>1, <2>2
      <4> QED BY <4>1, <4>2, <3>1
    <3> QED BY <3>2, <3>3 DEF Reflects
  <2> QED BY <2>1, <2>2
<1> QED BY <1>3 DEF Reflects

(* Reflects(h, f, n) depends on the first n change sets of h only.         *)
LEMMA ReflectsAgree ==
    ASSUME NEW h, NEW k, NEW f, NEW n \in Nat,
           \A i \in 1..n : h[i] = k[i], Reflects(h, f, n)
    PROVE  Reflects(k, f, n)
<1> SUFFICES ASSUME NEW id \in Id
             PROVE  \/ /\ f[id] = Absent
                       /\ \A i \in 1..n : k[i].id # id
                    \/ \E i \in 1..n :
                         /\ k[i].id = id /\ k[i].new = f[id]
                         /\ \A j \in i + 1 .. n : k[j].id # id
  BY DEF Reflects
<1>1. CASE f[id] = Absent /\ \A i \in 1..n : h[i].id # id
  BY <1>1
<1>2. CASE \E i \in 1..n : /\ h[i].id = id /\ h[i].new = f[id]
                           /\ \A j \in i + 1 .. n : h[j].id # id
  <2>1. PICK i \in 1..n : /\ h[i].id = id /\ h[i].new = f[id]
                          /\ \A j \in i + 1 .. n : h[j].id # id
    BY <1>2
  <2>2. \A j \in i + 1 .. n : j \in 1..n
    OBVIOUS
  <2>3. \A j \in i + 1 .. n : k[j].id # id
    BY <2>1, <2>2
  <2> QED BY <2>1, <2>3
<1> QED BY <1>1, <1>2 DEF Reflects

-----------------------------------------------------------------------------
(* The steps that change the log leave every reflected prefix in place.    *)

(* Extending or cutting the log keeps what prefixes still inside it say.   *)
LEMMA PrefixesKept ==
    ASSUME IInv, log' \in Seq(Change), NEW m \in Nat, m <= Len(log'),
           \A i \in 1..m : log'[i] = log[i],
           journal.seq <= m, UNCHANGED <<disk, journal>>
    PROVE  ImagesArePrefixes'
<1>1. \A image \in {disk, journal} : image.seq \in Nat /\ image.seq <= m
  BY DEF IInv, TypeOK, Image, PhaseInv
<1>2. \A image \in {disk, journal} : Reflects(log, image.links, image.seq)
  BY DEF IInv, ImagesArePrefixes
<1>3. ASSUME NEW image \in {disk, journal}
      PROVE  Reflects(log', image.links, image.seq)
  <2>1. \A i \in 1..image.seq : log[i] = log'[i]
    BY <1>1
  <2> QED BY <1>1, <1>2, <2>1, ReflectsAgree
<1> QED BY <1>1, <1>3 DEF ImagesArePrefixes, Appended

-----------------------------------------------------------------------------
(* Type correctness.                                                       *)

(* The number of links in each status is a natural number.                 *)
LEMMA StatusCountsType ==
    ASSUME NEW f PROVE StatusCounts(f) \in [Status -> Nat]
<1>1. IsFiniteSet(Id)
  BY BoundsAssumption, FS_Interval DEF Id
<1>2. ASSUME NEW s \in Status PROVE Cardinality(HaveStatus(f, s)) \in Nat
  <2>1. HaveStatus(f, s) \subseteq Id
    BY DEF HaveStatus
  <2> QED BY <1>1, <2>1, FS_Subset, FS_CardinalityType
<1> QED BY <1>2 DEF StatusCounts

(* Counting one change keeps the counters naturals.                        *)
LEMMA RecountType ==
    ASSUME NEW c \in [Status -> Nat], NEW change
    PROVE  Recount(c, change) \in [Status -> Nat]
BY DEF Recount

(* Applying a change set of the log keeps the types of memory.             *)
LEMMA ApplyChangeType ==
    ASSUME TypeOK, NEW change \in Change, ApplyChange(change)
    PROVE  /\ links' \in [Id -> Slot]
           /\ nextId' \in Nat
           /\ counts' \in [Status -> Nat]
           /\ applied' \in Nat
<1>1. change.id \in Id /\ change.id \in Nat /\ change.new \in Slot
  BY BoundsAssumption DEF Change, Id
<1>2. links' \in [Id -> Slot]
  BY <1>1 DEF TypeOK, ApplyChange
<1>3. nextId' \in Nat
  BY <1>1 DEF TypeOK, ApplyChange, NoteIssuedId, Bigger
<1>4. counts' \in [Status -> Nat]
  BY RecountType DEF TypeOK, ApplyChange
<1>5. applied' \in Nat
  BY DEF TypeOK, ApplyChange
<1> QED BY <1>2, <1>3, <1>4, <1>5

(* A change set appended by a writer is a change set.                      *)
LEMMA AppendType ==
    ASSUME TypeOK, NEW change \in Change, AppendChange(change)
    PROVE  log' \in Seq(Change)
BY DEF TypeOK, AppendChange

(* A checkpoint that has ended is back in the type of ckpt.                *)
LEMMA IdleType ==
    Idle \in [step : {"idle"}, nextId : Nat, counts : [Status -> Nat]]
BY DEF Idle, ZeroCounts

(* A freshly formatted store is a typed image.                             *)
LEMMA FreshType == FreshDisk \in Image /\ NoLinks \in [Id -> Slot]
BY DEF FreshDisk, Image, Counters, NoLinks, ZeroCounts, Slot

(* Every step keeps every variable in its type.                            *)
LEMMA TypeStep == TypeOK /\ IdsStartAtOne /\ [Next]_vars => TypeOK'
<1> SUFFICES ASSUME TypeOK, IdsStartAtOne, [Next]_vars PROVE TypeOK'
  OBVIOUS
<1> USE DEF storage, memory, Appended
<1>1. CASE CreateLink
  <2>1. PICK s \in Status :
          AppendChange([id |-> nextId, old |-> Absent, new |-> s])
    BY <1>1 DEF CreateLink
  <2>2. nextId \in Id /\ nextId' \in Nat
    BY <1>1 DEF CreateLink, WriterMayStart, IdsStartAtOne, TypeOK, Id
  <2>3. [id |-> nextId, old |-> Absent, new |-> s] \in Change
    BY <2>2 DEF Change, Slot
  <2> QED BY <2>1, <2>2, <2>3, AppendType DEF AppendChange, TypeOK
<1>2. CASE SetStatus
  <2>1. PICK id \in Id, s \in Status :
          AppendChange([id |-> id, old |-> links[id], new |-> s])
    BY <1>2 DEF SetStatus
  <2>2. [id |-> id, old |-> links[id], new |-> s] \in Change
    BY DEF Change, Slot, TypeOK
  <2> QED BY <1>2, <2>1, <2>2, AppendType DEF AppendChange, TypeOK, SetStatus
<1>3. CASE DeleteLink
  <2>1. PICK id \in Id :
          AppendChange([id |-> id, old |-> links[id], new |-> Absent])
    BY <1>3 DEF DeleteLink
  <2>2. [id |-> id, old |-> links[id], new |-> Absent] \in Change
    BY DEF Change, Slot, TypeOK
  <2> QED BY <1>3, <2>1, <2>2, AppendType DEF AppendChange, TypeOK, DeleteLink
<1>4. CASE Apply
  <2>1. log[applied + 1] \in Change
    BY <1>4 DEF Apply, TypeOK
  <2>2. hdr' \in Counters
    BY <1>4, <2>1, ApplyChangeType DEF Apply, Synced, TypeOK, Counters
  <2> QED BY <1>4, <2>1, <2>2, ApplyChangeType DEF Apply, TypeOK
<1>5. CASE FlushWal
  BY <1>5 DEF FlushWal, TypeOK
<1>6. CASE Acknowledge
  BY <1>6 DEF Acknowledge, TypeOK
<1>7. CASE SyncLoad
  BY <1>7 DEF SyncLoad, TypeOK
<1>8. CASE SyncStore
  BY <1>8, IdleType DEF SyncStore, Synced, Idle, ZeroCounts, Counters, TypeOK
<1>9. CASE CheckpointJournal
  BY <1>9, IdleType DEF CheckpointJournal, Bigger, Image, Idle, ZeroCounts, TypeOK
<1>10. CASE CheckpointInPlace
  BY <1>10, IdleType DEF CheckpointInPlace, Idle, ZeroCounts, TypeOK
<1>11. CASE CheckpointTruncate
  BY <1>11, IdleType DEF CheckpointTruncate, Idle, ZeroCounts, Image, TypeOK
<1>12. CASE Crash
  <2>1. PICK kept \in durable .. Len(log) :
          log' = SubSeq(log, 1, kept) /\ durable' = kept
    BY <1>12 DEF Crash
  <2>2. log' \in Seq(Change) /\ durable' \in Nat
    BY <2>1 DEF TypeOK
  <2>3. crashes' \in 0..MaxCrashes
    BY <1>12, BoundsAssumption DEF Crash, TypeOK
  <2>4. hdr' \in Counters
    BY <1>12, FreshType DEF Crash, Image
  <2> QED BY <1>12, <2>2, <2>3, <2>4, FreshType, IdleType
          DEF Crash, TypeOK, ZeroCounts, Idle
<1>13. CASE Boot
  BY <1>13 DEF Boot, TypeOK, Image, Counters
<1>14. CASE ReplayEntry
  <2>1. log[applied + 1] \in Change
    BY <1>14 DEF ReplayEntry, Unreplayed, TypeOK
  <2> QED BY <1>14, <2>1, ApplyChangeType DEF ReplayEntry, TypeOK
<1>15. CASE RestoreDerivedCounts
  <2>1. nextId' \in Nat /\ counts' \in [Status -> Nat]
    BY <1>15, StatusCountsType DEF RestoreDerivedCounts, Bigger, TypeOK, Counters
  <2>2. hdr' \in Counters
    BY <1>15, <2>1 DEF RestoreDerivedCounts, TypeOK, Counters
  <2> QED BY <1>15, <2>1, <2>2, IdleType
          DEF RestoreDerivedCounts, TypeOK, Idle, ZeroCounts
<1>16. CASE UNCHANGED vars
  BY <1>16 DEF vars, TypeOK
<1> QED
  BY <1>1, <1>2, <1>3, <1>4, <1>5, <1>6, <1>7, <1>8, <1>9, <1>10, <1>11,
     <1>12, <1>13, <1>14, <1>15, <1>16 DEF Next

-----------------------------------------------------------------------------
(* Phases, ids and acknowledgements.                                       *)

(* A writer only lengthens the log.                                        *)
LEMMA WriterAppends ==
    ASSUME TypeOK, IdsStartAtOne, CreateLink \/ SetStatus \/ DeleteLink
    PROVE  /\ \E change \in Change : AppendChange(change)
           /\ phase = "serving" /\ applied = Len(log)
           /\ ckpt.step \notin {"journaled", "inplace"}
           /\ nextId' >= 1
<1>1. CASE CreateLink
  <2>1. nextId \in Id
    BY <1>1 DEF CreateLink, WriterMayStart, IdsStartAtOne, TypeOK, Id
  <2> QED BY <1>1, <2>1 DEF CreateLink, WriterMayStart, Change, Slot, Appended, Id
<1>2. CASE SetStatus
  BY <1>2 DEF SetStatus, WriterMayStart, Change, Slot, TypeOK, Appended, IdsStartAtOne
<1>3. CASE DeleteLink
  BY <1>3 DEF DeleteLink, WriterMayStart, Change, Slot, TypeOK, Appended, IdsStartAtOne
<1> QED BY <1>1, <1>2, <1>3

(* What every lemma below needs of an appended change set.                 *)
LEMMA AppendedLog ==
    ASSUME TypeOK, NEW change \in Change, AppendChange(change)
    PROVE  /\ Len(log') = Len(log) + 1
           /\ \A i \in 1..Len(log) : log'[i] = log[i]
BY DEF TypeOK, AppendChange

(* Applying a change set never moves the id counter back.                  *)
LEMMA NextIdGrows ==
    ASSUME TypeOK, applied < Len(log), ApplyChange(log[applied + 1])
    PROVE  nextId' \in Nat /\ nextId' >= nextId
<1>1. log[applied + 1] \in Change
  BY DEF TypeOK
<1>2. log[applied + 1].id \in Nat
  BY <1>1, BoundsAssumption DEF Change, Id
<1> QED BY <1>2 DEF ApplyChange, NoteIssuedId, Bigger, TypeOK

(* No step hands out id zero or persists a counter that would.             *)
LEMMA IdStep == TypeOK /\ PhaseInv /\ IdsStartAtOne /\ [Next]_vars => IdsStartAtOne'
<1> SUFFICES ASSUME TypeOK, PhaseInv, IdsStartAtOne, [Next]_vars
             PROVE  IdsStartAtOne'
  OBVIOUS
<1> USE DEF storage, memory, IdsStartAtOne, Appended
<1>1. CASE CreateLink \/ SetStatus \/ DeleteLink
  BY <1>1, WriterAppends DEF AppendChange
<1>2. CASE Apply
  <2>1. nextId' >= 1
    BY <1>2, NextIdGrows DEF Apply, TypeOK
  <2>2. hdr'.nextId = nextId'
    BY <1>2 DEF Apply, Synced, TypeOK, Counters
  <2>3. phase = "serving" /\ UNCHANGED <<disk, journal, phase, ckpt>>
    BY <1>2 DEF Apply
  <2> QED BY <2>1, <2>2, <2>3
<1>3. CASE FlushWal \/ Acknowledge
  BY <1>3 DEF FlushWal, Acknowledge
<1>4. CASE SyncLoad
  BY <1>4 DEF SyncLoad
<1>5. CASE SyncStore
  BY <1>5 DEF SyncStore, Synced, Idle, TypeOK, Counters, PhaseInv
<1>6. CASE CheckpointJournal
  BY <1>6 DEF CheckpointJournal, Idle, PhaseInv, TypeOK
<1>7. CASE CheckpointInPlace
  BY <1>7 DEF CheckpointInPlace, Idle, PhaseInv, TypeOK
<1>8. CASE CheckpointTruncate
  BY <1>8 DEF CheckpointTruncate, Idle, PhaseInv, TypeOK
<1>9. CASE Crash
  BY <1>9 DEF Crash, Idle
<1>10. CASE Boot
  BY <1>10 DEF Boot, PhaseInv
<1>11. CASE ReplayEntry
  <2>1. nextId' >= 1
    BY <1>11, NextIdGrows DEF ReplayEntry, Unreplayed, TypeOK
  <2>2. phase = "replay" /\ phase' = "replay" /\ ckpt.step = "idle"
    BY <1>11 DEF ReplayEntry, PhaseInv
  <2> QED BY <1>11, <2>1, <2>2 DEF ReplayEntry
<1>12. CASE RestoreDerivedCounts
  BY <1>12 DEF RestoreDerivedCounts, Bigger, Idle, FreshDisk, TypeOK, Counters, Image,
               PhaseInv
<1>13. CASE UNCHANGED vars
  BY <1>13 DEF vars
<1> QED
  BY <1>1, <1>2, <1>3, <1>4, <1>5, <1>6, <1>7, <1>8, <1>9, <1>10, <1>11, <1>12,
     <1>13 DEF Next

(* Every step keeps the order of checkpoint, crash and recovery, and what  *)
(* was acknowledged stays durable and reachable.                           *)
LEMMA PhaseStep ==
    TypeOK /\ PhaseInv /\ IdsStartAtOne /\ AckedIsRecoverable /\ [Next]_vars
    => PhaseInv' /\ AckedIsRecoverable'
<1> SUFFICES ASSUME TypeOK, PhaseInv, IdsStartAtOne, AckedIsRecoverable, [Next]_vars
             PROVE  PhaseInv' /\ AckedIsRecoverable'
  OBVIOUS
<1> USE DEF storage, memory, Appended, PhaseInv, AckedIsRecoverable
<1>1. CASE CreateLink \/ SetStatus \/ DeleteLink
  <2>1. PICK change \in Change : AppendChange(change)
    BY <1>1, WriterAppends
  <2> QED BY <1>1, <2>1, WriterAppends, AppendedLog DEF AppendChange, TypeOK
<1>2. CASE Apply
  <2>1. applied' = applied + 1 /\ applied' <= Len(log)
    BY <1>2 DEF Apply, ApplyChange, TypeOK
  <2>2. ckpt.step \notin {"journaled", "inplace"}
    BY <1>2 DEF Apply, TypeOK
  <2> QED BY <1>2, <2>1, <2>2 DEF Apply, TypeOK, Image
<1>3. CASE FlushWal
  <2>1. durable < durable' /\ durable' <= Len(log) /\ durable' \in Nat
    BY <1>3 DEF FlushWal, TypeOK
  <2> QED BY <1>3, <2>1 DEF FlushWal, TypeOK, Image
<1>13. CASE Acknowledge
  <2>1. acked' <= applied /\ acked' \in Nat
    BY <1>13 DEF Acknowledge, TypeOK
  <2> QED BY <1>13, <2>1 DEF Acknowledge, TypeOK, Image
<1>4. CASE SyncLoad \/ SyncStore
  BY <1>4 DEF SyncLoad, SyncStore, Idle, TypeOK
<1>5. CASE CheckpointJournal
  BY <1>5 DEF CheckpointJournal, Idle, Bigger, TypeOK, Image
<1>6. CASE CheckpointInPlace
  BY <1>6 DEF CheckpointInPlace, Idle, TypeOK, Image
<1>7. CASE CheckpointTruncate
  BY <1>7 DEF CheckpointTruncate, Idle, TypeOK, Image
<1>8. CASE Crash
  <2>1. PICK kept \in durable .. Len(log) :
          log' = SubSeq(log, 1, kept) /\ durable' = kept
    BY <1>8 DEF Crash
  <2>2. Len(log') = kept
    BY <2>1 DEF TypeOK
  <2> QED BY <1>8, <2>1, <2>2 DEF Crash, Idle, TypeOK, Image
<1>9. CASE Boot
  BY <1>9 DEF Boot, TypeOK, Image
<1>10. CASE ReplayEntry
  BY <1>10 DEF ReplayEntry, Unreplayed, ApplyChange, TypeOK, Image
<1>11. CASE RestoreDerivedCounts
  BY <1>11 DEF RestoreDerivedCounts, Unreplayed, Idle, TypeOK, Image
<1>12. CASE UNCHANGED vars
  BY <1>12 DEF vars
<1> QED
  BY <1>1, <1>2, <1>3, <1>13, <1>4, <1>5, <1>6, <1>7, <1>8, <1>9, <1>10, <1>11,
     <1>12 DEF Next

-----------------------------------------------------------------------------
(* The records served and the records stored are prefixes of the log.      *)

(* Applying the next change set of the log serves one more of it.          *)
LEMMA ServeOneMore ==
    ASSUME TypeOK, phase # "down", ServedIsPrefix, applied < Len(log),
           ApplyChange(log[applied + 1]), UNCHANGED log
    PROVE  Reflects(log', links', applied')
BY ReflectsApply DEF TypeOK, ServedIsPrefix, ApplyChange

(* Every step leaves requests reading a prefix of the log.                 *)
LEMMA ServedStep == IInv /\ [Next]_vars => ServedIsPrefix'
<1> SUFFICES ASSUME IInv, [Next]_vars PROVE ServedIsPrefix'
  OBVIOUS
<1> USE DEF storage, memory, Appended, IInv
<1>1. CASE CreateLink \/ SetStatus \/ DeleteLink
  <2>1. PICK change \in Change : AppendChange(change)
    BY <1>1, WriterAppends
  <2>2. applied \in Nat /\ applied <= Len(log)
    BY DEF TypeOK, PhaseInv
  <2>3. \A i \in 1..applied : log[i] = log'[i]
    BY <2>1, <2>2, AppendedLog DEF TypeOK
  <2>4. UNCHANGED <<links, applied, phase>>
    BY <1>1, <2>1 DEF AppendChange
  <2>5. phase = "serving" /\ Reflects(log, links, applied)
    BY <1>1, WriterAppends DEF ServedIsPrefix
  <2>6. Reflects(log', links, applied)
    BY <2>2, <2>3, <2>5, ReflectsAgree
  <2> QED BY <2>4, <2>6 DEF ServedIsPrefix
<1>2. CASE Apply
  BY <1>2, ServeOneMore DEF Apply, ServedIsPrefix
<1>3. CASE FlushWal \/ Acknowledge \/ SyncLoad \/ SyncStore \/ CheckpointJournal
           \/ CheckpointInPlace \/ CheckpointTruncate
  BY <1>3 DEF FlushWal, Acknowledge, SyncLoad, SyncStore, CheckpointJournal,
              CheckpointInPlace, CheckpointTruncate, ServedIsPrefix, PhaseInv
<1>4. CASE Crash
  BY <1>4 DEF Crash, ServedIsPrefix
<1>5. CASE Boot
  BY <1>5 DEF Boot, ServedIsPrefix, ImagesArePrefixes
<1>6. CASE ReplayEntry
  BY <1>6, ServeOneMore DEF ReplayEntry, Unreplayed, ServedIsPrefix
<1>7. CASE RestoreDerivedCounts
  BY <1>7 DEF RestoreDerivedCounts, ServedIsPrefix
<1>8. CASE UNCHANGED vars
  BY <1>8 DEF vars, ServedIsPrefix
<1> QED BY <1>1, <1>2, <1>3, <1>4, <1>5, <1>6, <1>7, <1>8 DEF Next

(* Every step leaves store.dat and the journal at a prefix of the log.     *)
LEMMA ImagesStep == IInv /\ [Next]_vars => ImagesArePrefixes'
<1> SUFFICES ASSUME IInv, [Next]_vars PROVE ImagesArePrefixes'
  OBVIOUS
<1> USE DEF storage, memory, Appended, IInv
<1>1. CASE CreateLink \/ SetStatus \/ DeleteLink
  <2>1. PICK change \in Change : AppendChange(change)
    BY <1>1, WriterAppends
  <2>2. log' \in Seq(Change) /\ Len(log) \in Nat /\ journal.seq <= Len(log)
    BY <2>1, AppendType DEF PhaseInv, AckedIsRecoverable, TypeOK, Image
  <2>3. UNCHANGED <<disk, journal>>
    BY <1>1, <2>1 DEF AppendChange
  <2> QED BY <2>1, <2>2, <2>3, AppendedLog, PrefixesKept
<1>2. CASE Apply
  BY <1>2 DEF Apply, ImagesArePrefixes
<1>3. CASE FlushWal \/ Acknowledge \/ SyncLoad \/ SyncStore
  BY <1>3 DEF FlushWal, Acknowledge, SyncLoad, SyncStore, ImagesArePrefixes
<1>4. CASE CheckpointJournal
  <2>1. phase # "down"
    BY <1>4 DEF CheckpointJournal, PhaseInv
  <2> QED BY <1>4, <2>1 DEF CheckpointJournal, ImagesArePrefixes, ServedIsPrefix,
                            PhaseInv
<1>5. CASE CheckpointInPlace \/ CheckpointTruncate
  BY <1>5 DEF CheckpointInPlace, CheckpointTruncate, ImagesArePrefixes
<1>6. CASE Crash
  <2>1. PICK kept \in durable .. Len(log) :
          log' = SubSeq(log, 1, kept) /\ durable' = kept
    BY <1>6 DEF Crash
  <2>2. /\ log' \in Seq(Change) /\ Len(log') = kept /\ kept \in Nat
        /\ \A i \in 1..kept : log'[i] = log[i]
    BY <2>1 DEF TypeOK
  <2>3. journal.seq <= kept
    BY <2>1 DEF PhaseInv, TypeOK, Image
  <2> QED BY <1>6, <2>2, <2>3, PrefixesKept DEF Crash
<1>7. CASE Boot
  BY <1>7 DEF Boot, ImagesArePrefixes
<1>8. CASE ReplayEntry \/ RestoreDerivedCounts
  BY <1>8 DEF ReplayEntry, RestoreDerivedCounts, ImagesArePrefixes
<1>9. CASE UNCHANGED vars
  BY <1>9 DEF vars, ImagesArePrefixes
<1> QED
  BY <1>1, <1>2, <1>3, <1>4, <1>5, <1>6, <1>7, <1>8, <1>9 DEF Next

-----------------------------------------------------------------------------
(* The theorems.                                                           *)

(* The invariant holds in a freshly formatted store.                       *)
LEMMA InitInv == Init => IInv
<1> SUFFICES ASSUME Init PROVE IInv
  OBVIOUS
<1>1. TypeOK
  BY FreshType, IdleType, BoundsAssumption
     DEF Init, TypeOK, ZeroCounts, Image, Idle
<1>2. ImagesArePrefixes
  BY ReflectsNothing DEF Init, ImagesArePrefixes, FreshDisk, Appended
<1>3. ServedIsPrefix /\ AckedIsRecoverable /\ PhaseInv /\ IdsStartAtOne
  BY DEF Init, ServedIsPrefix, AckedIsRecoverable, PhaseInv, IdsStartAtOne, Appended,
         FreshDisk, Idle
<1> QED BY <1>1, <1>2, <1>3 DEF IInv

(* Every step keeps the inductive invariant.                               *)
LEMMA NextInv == IInv /\ [Next]_vars => IInv'
BY TypeStep, IdStep, PhaseStep, ServedStep, ImagesStep DEF IInv

(* The invariant the other theorems are read off.                          *)
THEOREM InductiveInvariant == Spec => []IInv
BY InitInv, NextInv, PTL DEF Spec

(* Every variable keeps its type.                                          *)
THEOREM TypeCorrect == Spec => []TypeOK
<1>1. IInv => TypeOK
  BY DEF IInv
<1> QED BY <1>1, InductiveInvariant, PTL

(* What requests read is exactly a prefix of the log, in every phase of    *)
(* replay and service and after any number of crashes.                     *)
THEOREM ServesAPrefix == Spec => []ServedIsPrefix
<1>1. IInv => ServedIsPrefix
  BY DEF IInv
<1> QED BY <1>1, InductiveInvariant, PTL

(* "The ack is the fsync": an acknowledged change set is never lost.       *)
THEOREM AcknowledgedIsKept == Spec => []AckedIsRecoverable
<1>1. IInv => AckedIsRecoverable
  BY DEF IInv
<1> QED BY <1>1, InductiveInvariant, PTL

(* store.dat and the journal a boot may redo are always a prefix of the    *)
(* log, however a crash fell on the checkpoint that wrote them.            *)
THEOREM ImagesAreKept == Spec => []ImagesArePrefixes
<1>1. IInv => ImagesArePrefixes
  BY DEF IInv
<1> QED BY <1>1, InductiveInvariant, PTL

(* Ids start at one: no boot hands out the sentinel zero.                  *)
THEOREM IdZeroIsNeverIssued == Spec => []IdsStartAtOne
<1>1. IInv => IdsStartAtOne
  BY DEF IInv
<1> QED BY <1>1, InductiveInvariant, PTL

-----------------------------------------------------------------------------
(* Refinement: each step of the pipeline is a step of DurableStore or      *)
(* leaves its variables alone.                                             *)

(* A freshly formatted store is an abstract store with nothing in it.      *)
LEMMA InitRefines == Init => Promise!Init
BY DEF Init, Promise!Init

(* Every step is an abstract step, or changes nothing the client can see.  *)
LEMMA StepRefines ==
    IInv /\ IInv' /\ [Next]_vars => [Promise!Next]_(Promise!vars)
<1> SUFFICES ASSUME IInv, IInv', [Next]_vars
             PROVE  [Promise!Next]_(Promise!vars)
  OBVIOUS
<1> USE DEF storage, memory, Appended, Promise!vars
<1>1. CASE CreateLink \/ SetStatus \/ DeleteLink
  <2>1. PICK change \in Change : AppendChange(change)
    BY <1>1, WriterAppends DEF IInv
  <2>2. phase = "serving" /\ UNCHANGED <<phase, applied, acked>>
    BY <1>1, <2>1, WriterAppends DEF AppendChange, IInv
  <2>3. Promise!Commit
    BY <2>1, <2>2 DEF Promise!Commit, AppendChange
  <2> QED BY <2>3 DEF Promise!Next
<1>2. CASE Apply
  <2>1. Promise!Show
    BY <1>2 DEF Apply, ApplyChange, Promise!Show, IInv, TypeOK
  <2> QED BY <2>1 DEF Promise!Next
<1>3. CASE Acknowledge
  <2>1. Promise!Acknowledge
    BY <1>3 DEF Acknowledge, Promise!Acknowledge
  <2> QED BY <2>1 DEF Promise!Next
<1>4. CASE FlushWal \/ SyncLoad \/ SyncStore \/ CheckpointJournal
           \/ CheckpointInPlace
  BY <1>4 DEF FlushWal, SyncLoad, SyncStore, CheckpointJournal, CheckpointInPlace
<1>5. CASE CheckpointTruncate
  <2>1. CASE phase = "serving"
    BY <1>5, <2>1 DEF CheckpointTruncate
  <2>2. CASE phase # "serving"
    <3>1. applied = Len(log)
      BY <1>5, <2>2 DEF CheckpointTruncate, IInv, PhaseInv
    <3>2. Promise!Restart
      BY <1>5, <2>2, <3>1 DEF CheckpointTruncate, Promise!Restart
    <3> QED BY <3>2 DEF Promise!Next
  <2> QED BY <2>1, <2>2
<1>6. CASE Crash
  <2>1. PICK kept \in durable .. Len(log) : log' = SubSeq(log, 1, kept)
    BY <1>6 DEF Crash
  <2>2. kept \in acked .. Len(log)
    BY <2>1 DEF IInv, TypeOK, AckedIsRecoverable
  <2>3. Promise!Crash
    BY <1>6, <2>1, <2>2 DEF Crash, Promise!Crash
  <2> QED BY <2>3 DEF Promise!Next
<1>7. CASE Boot \/ ReplayEntry \/ RestoreDerivedCounts
  BY <1>7 DEF Boot, ReplayEntry, RestoreDerivedCounts
<1>8. CASE UNCHANGED vars
  BY <1>8 DEF vars
<1> QED BY <1>1, <1>2, <1>3, <1>4, <1>5, <1>6, <1>7, <1>8 DEF Next

(* The commit pipeline, with every crash, checkpoint and replay, is an     *)
(* implementation of the abstract store.                                   *)
THEOREM Implementation == Spec => ImplementsDurableStore
<1>1. Spec => []IInv
  BY InductiveInvariant
<1>2. IInv /\ [Next]_vars => IInv'
  BY NextInv
<1> QED
  BY <1>1, <1>2, InitRefines, StepRefines, PTL
  DEF Spec, ImplementsDurableStore, Promise!Spec

=============================================================================
