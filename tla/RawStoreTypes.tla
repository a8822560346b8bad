---------------------------- MODULE RawStoreTypes ----------------------------
(***************************************************************************)
(* Majorities, and type correctness of every step of RawStore.  The type   *)
(* of a fan-out depends on FanoutSound (a member is visited only while a   *)
(* fan-out is in progress), so TypeStep assumes it; RawStoreProofs proves  *)
(* the two together.                                                       *)
(***************************************************************************)
EXTENDS RawStore, FiniteSetTheorems, TLAPS

\* Two times metadata_quorum_requirement exceeds the number of members.
LEMMA NeedIsMajority == Need \in Nat /\ 2 * Need > Cardinality(Members)
<1>1. Cardinality(Members) \in Nat
  BY RawStoreAssumption, FS_CardinalityType
<1> QED BY <1>1 DEF Need

\* Two sets of at least metadata_quorum_requirement members share a member.
LEMMA MajoritiesMeet ==
    ASSUME NEW P \in SUBSET Members, NEW Q \in SUBSET Members,
           Cardinality(P) >= Need, Cardinality(Q) >= Need
    PROVE  \E m \in P : m \in Q
<1>1. IsFiniteSet(P) /\ IsFiniteSet(Q)
  BY RawStoreAssumption, FS_Subset
<1>2. Cardinality(P) \in Nat /\ Cardinality(Q) \in Nat /\ Cardinality(Members) \in Nat
  BY <1>1, RawStoreAssumption, FS_CardinalityType
<1>3. Cardinality(P) + Cardinality(Q) > Cardinality(Members)
  BY <1>2, NeedIsMajority
<1>4. P \cap Q # {}
  BY <1>3, RawStoreAssumption, FS_MajoritiesIntersect
<1> QED BY <1>4

----------------------------------------------------------------------------
(* Types of the building blocks.                                           *)

\* A torn journal extent is a journal entry.
LEMMA TornType == Torn \in JournalEntry
BY DEF Torn, Entry, JournalEntry, Metadata

\* build_journal_entry builds a journal entry.
LEMMA EntryType ==
    ASSUME NEW s \in Metadata, NEW p \in Metadata, NEW kind
    PROVE  BuildJournalEntry(kind, s, p) \in JournalEntry
BY DEF BuildJournalEntry, Entry, JournalEntry, Metadata

\* So does build_quorum_commit_entry.
LEMMA CertificateType ==
    ASSUME NEW e \in JournalEntry, NEW checkpoint
    PROVE  BuildQuorumCommitEntry(e, checkpoint) \in JournalEntry
BY DEF BuildQuorumCommitEntry, Entry, JournalEntry

\* The slot write_metadata_member writes first and its mirror are the two slots.
LEMMA TxidParity ==
    ASSUME NEW s \in Metadata
    PROVE  Txid(s) \in Nat /\ Txid(s) % 2 \in 0..1 /\ (Txid(s) + 1) % 2 \in 0..1
<1>1. Len(s) \in Nat
  BY DEF Metadata
<1> QED BY <1>1 DEF Txid

\* append_journal_member keeps the disk well formed.
LEMMA AppendType ==
    ASSUME NEW d \in DiskState, NEW e \in JournalEntry
    PROVE  AppendJournalMember(d, e) \in DiskState
<1> DEFINE longer == Append(d.log, e)
<1>1. longer \in Seq(JournalEntry)
  BY DEF DiskState
<1> HIDE DEF longer
<1>2. [d EXCEPT !.log = longer] \in DiskState
  BY <1>1 DEF DiskState
<1> QED BY <1>2 DEF AppendJournalMember, longer

\* So does a completed or a cut write_metadata_slot.
LEMMA SlotType ==
    ASSUME NEW d \in DiskState, NEW i \in 0..1, NEW s \in Metadata
    PROVE  WriteMetadataSlot(d, i, s) \in DiskState /\ CutMetadataSlot(d, i) \in DiskState
BY DEF WriteMetadataSlot, CutMetadataSlot, DiskState

\* So does a completed or a cut write_metadata_member.
LEMMA MetadataMemberType ==
    ASSUME NEW d \in DiskState, NEW s \in Metadata
    PROVE  /\ WriteMetadataMember(d, s) \in DiskState
           /\ WriteMetadataMemberCut(d, s) \subseteq DiskState
BY SlotType, TxidParity, Zenon DEF WriteMetadataMember, WriteMetadataMemberCut

\* So does initialize_journal_region.
LEMMA JournalResetType ==
    ASSUME NEW d \in DiskState
    PROVE  InitializeJournalRegion(d) \in DiskState
BY DEF InitializeJournalRegion, DiskState

\* So does the loss of an unflushed entry.
LEMMA LoseType ==
    ASSUME NEW d \in DiskState, NEW how \in Losses
    PROVE  Lose(d, how) \in DiskState
<1> DEFINE front == SubSeq(d.log, 1, Len(d.log) - 1)
<1>1. front \in Seq(JournalEntry)
  BY DEF DiskState
<1>2. Append(front, Torn) \in Seq(JournalEntry)
  BY <1>1, TornType
<1> HIDE DEF front
<1>3. [d EXCEPT !.log = front] \in DiskState /\ [d EXCEPT !.log = Append(front, Torn)] \in DiskState
  BY <1>1, <1>2, Zenon DEF DiskState
<1> QED BY <1>3 DEF Lose, Losses, front

\* Whatever a fan-out writes to a member, completely or not, is a disk state.
LEMMA CutType ==
    ASSUME TypeOK, op.step # "idle", NEW d \in DiskState
    PROVE  Completed(d) \in DiskState /\ Cut(d) \subseteq DiskState
<1>1. op.meta \in Metadata /\ op.entry \in JournalEntry
  BY DEF TypeOK, Operation
<1>2. op.step \in {"append", "flush", "rollover", "certify", "copies", "replay", "reset",
                  "stale", "clean"}
  BY DEF TypeOK, Operation
<1>3. AppendJournalMember(d, op.entry) \in DiskState
  BY <1>1, AppendType
<1>4. AppendJournalMemberCut(d, op.entry) \subseteq DiskState
  BY <1>3, AppendType, TornType DEF AppendJournalMemberCut
<1>5. /\ WriteMetadataMember(d, op.meta) \in DiskState
      /\ WriteMetadataMemberCut(d, op.meta) \subseteq DiskState
  BY <1>1, MetadataMemberType
<1>6. /\ CheckpointAndResetJournal(d, op.meta) \in DiskState
      /\ CheckpointAndResetJournalCut(d, op.meta) \subseteq DiskState
  BY <1>5, JournalResetType DEF CheckpointAndResetJournal, CheckpointAndResetJournalCut
<1>7. WriteSuperblockCleanState(d) \in DiskState
  BY Zenon DEF WriteSuperblockCleanState, DiskState
<1>8. Completed(d) \in DiskState
  BY <1>2, <1>3, <1>5, <1>6, <1>7, JournalResetType DEF Completed
<1>9. Cut(d) \subseteq DiskState
  BY <1>2, <1>4, <1>5, <1>6, <1>8, LoseType DEF Cut
<1> QED BY <1>8, <1>9

\* The states recovery chooses from are metadata states.
LEMMA StatesOnType ==
    ASSUME TypeOK, NEW P \in SUBSET Members
    PROVE  StatesOn(P) \subseteq Metadata
<1>1. ASSUME NEW m \in P
      PROVE  SlotStates(disk[m]) \cup {e.meta : e \in Range(disk[m].log)} \subseteq Metadata
  <2>1. disk[m] \in DiskState
    BY <1>1 DEF TypeOK
  <2>2. SlotStates(disk[m]) \subseteq Metadata
    BY <2>1 DEF SlotStates, DiskState
  <2>3. disk[m].log \in Seq(JournalEntry)
    BY <2>1 DEF DiskState
  <2>4. Range(disk[m].log) \subseteq JournalEntry
    BY <2>3 DEF Range
  <2>5. \A e \in JournalEntry : e.meta \in Metadata
    BY DEF JournalEntry
  <2> QED BY <2>2, <2>4, <2>5
<1> QED BY <1>1 DEF StatesOn

\* load_or_recover returns one of the states it finds on the members.
LEMMA RecoverType ==
    ASSUME TypeOK, NEW P \in SUBSET Members, NEW r \in Recover(P)
    PROVE  r.meta \in Metadata /\ r.replayed \in BOOLEAN
<1>1. QuorumCheckpoints(P) \subseteq StatesOn(P)
  BY DEF QuorumCheckpoints, Newest, StatesOn
<1>2. ASSUME NEW base PROVE JournalStates(P, base) \subseteq StatesOn(P)
  BY DEF JournalStates, Newest
<1>3. ASSUME NEW base \in SUBSET StatesOn(P), r \in RecoverFrom(P, base)
      PROVE  r.meta \in StatesOn(P) /\ r.replayed \in BOOLEAN
  BY <1>2, <1>3, Zenon DEF RecoverFrom
<1>4. \E base \in SUBSET StatesOn(P) : r \in RecoverFrom(P, base)
  <2>1. CASE QuorumCheckpoints(P) = {}
    BY <2>1 DEF Recover
  <2>2. CASE QuorumCheckpoints(P) # {}
    <3>1. PICK b \in QuorumCheckpoints(P) : r \in RecoverFrom(P, {b})
      BY <2>2 DEF Recover
    <3> QED BY <3>1, <1>1
  <2> QED BY <2>1, <2>2
<1> QED BY <1>3, <1>4, StatesOnType

----------------------------------------------------------------------------
(* Type correctness.                                                       *)

\* The types of the descriptions of a fan-out.
LEMMA IdleType == Idle \in Operation
<1>1. << >> \in Metadata
  BY DEF Metadata
<1> QED BY <1>1, TornType DEF Idle, Operation

\* A fan-out that begins is well formed.
LEMMA StartType ==
    ASSUME NEW step \in {"append", "rollover", "copies", "replay", "stale", "clean"},
           NEW by \in {"commit", "event", "sync", "unmount", "repair", "open"},
           NEW s \in Metadata, NEW e \in JournalEntry, NEW todo \in SUBSET Members
    PROVE  Start(step, by, s, e, todo) \in Operation
BY DEF Start, Operation

\* Each way a call returns or moves on preserves the type invariant.
LEMMA OutcomeType ==
    ASSUME TypeOK
    PROVE  /\ Acknowledge => TypeOK'
           /\ Indeterminate => TypeOK'
           /\ ExitCleanly => TypeOK'
           /\ \A next \in Operation : Continue(next) => TypeOK'
<1>1. op.meta \in Metadata /\ op.bad \subseteq Members
  BY DEF TypeOK, Operation
<1>2. << >> \in Metadata
  BY DEF Metadata
<1>3. ASSUME Acknowledge PROVE TypeOK'
  BY <1>1, <1>3, IdleType, Zenon DEF Acknowledge, FenceAfterLoss, TypeOK
<1>4. ASSUME Indeterminate PROVE TypeOK'
  BY <1>1, <1>4, IdleType DEF Indeterminate, TypeOK
<1>5. ASSUME ExitCleanly PROVE TypeOK'
  BY <1>2, <1>5, IdleType, Zenon DEF ExitCleanly, Exit, TypeOK
<1>6. ASSUME NEW next \in Operation, Continue(next) PROVE TypeOK'
  BY <1>6 DEF Continue, TypeOK
<1> QED BY <1>3, <1>4, <1>5, <1>6

\* So is its next phase.
LEMMA ProceedType ==
    ASSUME TypeOK, NEW step \in {"flush", "certify", "reset"}, NEW e \in JournalEntry
    PROVE  Proceed(step, e) \in Operation
BY Zenon DEF Proceed, TypeOK, Operation

\* The start of append_quorum_commit_certificate preserves the type invariant.
LEMMA CertifyType ==
    ASSUME TypeOK, NEW checkpoint, Certify(checkpoint)
    PROVE  TypeOK'
<1>1. BuildQuorumCommitEntry(op.entry, checkpoint) \in JournalEntry
  <2>1. op.entry \in JournalEntry
    BY DEF TypeOK, Operation
  <2> QED BY <2>1, CertificateType
<1>2. Proceed("certify", BuildQuorumCommitEntry(op.entry, checkpoint)) \in Operation
  BY <1>1, ProceedType
<1> QED BY <1>2, OutcomeType DEF Certify

\* The end of every phase of a fan-out preserves the type invariant.
LEMMA EndType ==
    ASSUME TypeOK, End
    PROVE  TypeOK'
<1>0. op.meta \in Metadata /\ op.entry \in JournalEntry /\ op.bad \subseteq Members
      /\ op.fresh \in BOOLEAN /\ scanned \subseteq Members
  BY DEF TypeOK, Operation
<1>1. CASE EndAppend
  BY <1>0, <1>1, ProceedType, CertifyType, OutcomeType, Zenon DEF EndAppend
<1>2. CASE EndFlush
  BY <1>2, CertifyType, Zenon DEF EndFlush
<1>3. CASE EndRollover
  BY <1>3, CertifyType, Zenon DEF EndRollover
<1>4. CASE EndCertify
  BY <1>4, OutcomeType DEF EndCertify
<1>5. CASE EndCopies
  BY <1>5, OutcomeType DEF EndCopies
<1>6. CASE EndUnmountCopies
  <2>1. CASE ~ExitCleanly
    <3>1. quar' = quar \cup op.bad /\ quar' \subseteq Members
      BY <1>0, <1>6, <2>1 DEF EndUnmountCopies, TypeOK
    <3>2. Start("clean", "unmount", op.meta, Torn, Members \ quar') \in Operation
      BY <1>0, TornType, StartType
    <3>3. op' \in Operation
      BY <1>0, <1>6, <2>1, <3>2 DEF EndUnmountCopies, Operation
    <3> QED BY <1>0, <1>6, <2>1, <3>1, <3>3 DEF EndUnmountCopies, TypeOK
  <2>2. CASE ExitCleanly
    BY <2>2, OutcomeType
  <2> QED BY <2>1, <2>2
<1>7. CASE EndReplay
  BY <1>7, TornType, ProceedType, OutcomeType DEF EndReplay
<1>8. CASE EndReset
  BY <1>0, <1>8, TornType, StartType, OutcomeType DEF EndReset
<1>9. CASE EndClean
  <2>1. CASE op.by = "open" /\ Quorum
    BY <1>0, <1>9, <2>1, IdleType DEF EndClean, TypeOK
  <2>2. CASE ~(op.by = "open" /\ Quorum)
    BY <1>9, <2>2, OutcomeType DEF EndClean
  <2> QED BY <2>1, <2>2
<1>10. CASE EndStale
  BY <1>10, IdleType, OutcomeType DEF EndStale
<1> QED BY <1>1, <1>2, <1>3, <1>4, <1>5, <1>6, <1>7, <1>8, <1>9, <1>10 DEF End

\* Recording failed members keeps a fan-out well formed.
LEMMA ReportType ==
    ASSUME NEW o \in Operation, NEW bad \in SUBSET Members, NEW fresh \in BOOLEAN
    PROVE  /\ [o EXCEPT !.bad = bad, !.fresh = fresh] \in Operation
           /\ [o EXCEPT !.fresh = fresh] \in Operation
BY ZenonT(30) DEF Operation

\* The live metadata with n more transactions is a metadata state.
LEMMA MutatedType ==
    ASSUME TypeOK, NEW n \in Nat
    PROVE  Mutated(n) \in Metadata
<1> DEFINE more == [i \in 1..n |-> txns + i]
<1>1. more \in Seq(Nat)
  BY DEF TypeOK
<1> HIDE DEF more
<1>2. live \o more \in Seq(Nat)
  BY <1>1 DEF TypeOK, Metadata
<1> QED BY <1>2 DEF Mutated, more, Metadata

\* Only members whose I/O failed are fenced off.
LEMMA LostType ==
    ASSUME NEW bad \in SUBSET Members, NEW lost \in Lost(bad)
    PROVE  lost \subseteq bad
BY DEF Lost

\* The part of append_journal_quorum before its first write keeps the types.
LEMMA TryAppendType ==
    ASSUME TypeOK, NEW by \in {"commit", "event"}, NEW s \in Metadata, NEW e \in JournalEntry,
           NEW superblocks \in SUBSET Members, NEW fresh \in BOOLEAN,
           NEW bad \in SUBSET Members, NEW lost \in SUBSET Members,
           TryAppend(by, s, e, superblocks, fresh, bad, lost)
    PROVE  /\ broken' \subseteq Members /\ fenced' \in BOOLEAN /\ dirty' \in BOOLEAN
           /\ live' \in Metadata /\ durable' \in Metadata /\ op' \in Operation
<1> DEFINE dead == superblocks \cap Dead(fresh)
           positions == {m \in superblocks \ (bad \cup dead) :
                           TipAccepts(disk[m], s, by = "event")}
           step == IF \E m \in positions : NeedsRollover(disk[m]) THEN "rollover" ELSE "append"
<1>1. broken' \subseteq Members
  BY DEF TryAppend, TypeOK
<1>2. CASE Cardinality(superblocks) >= Need /\ Cardinality(positions) >= Need
  <2>1. op' = [Start(step, by, s, e, positions) EXCEPT !.bad = dead \cup lost, !.fresh = fresh]
        /\ UNCHANGED <<fenced, live, durable, dirty>>
    BY <1>2 DEF TryAppend
  <2>2. step \in {"append", "rollover"} /\ positions \in SUBSET Members
        /\ dead \cup lost \in SUBSET Members
    OBVIOUS
  <2>3. Start(step, by, s, e, positions) \in Operation
    BY <2>2, StartType
  <2> QED BY <1>1, <2>1, <2>2, <2>3, ReportType, Zenon DEF TypeOK
<1>3. CASE ~(Cardinality(superblocks) >= Need /\ Cardinality(positions) >= Need)
  <2>1. fenced' \in BOOLEAN /\ RollBack(by, s, superblocks) /\ UNCHANGED op
    BY <1>3, Zenon DEF TryAppend
  <2>2. live' \in Metadata /\ durable' \in Metadata /\ dirty' \in BOOLEAN
    BY <2>1, RecoverType, Zenon DEF RollBack, TypeOK
  <2> QED BY <1>1, <2>1, <2>2 DEF TypeOK
<1> QED BY <1>2, <1>3

\* A commit refused by the durability check keeps them.
LEMMA RefuseAppendType ==
    ASSUME TypeOK, NEW by, NEW s \in Metadata, NEW superblocks \in SUBSET Members,
           RefuseAppend(by, s, superblocks)
    PROVE  /\ broken' \subseteq Members /\ fenced' \in BOOLEAN /\ dirty' \in BOOLEAN
           /\ live' \in Metadata /\ durable' \in Metadata /\ op' \in Operation
<1>1. fenced' = TRUE /\ RollBack(by, s, superblocks) /\ UNCHANGED <<broken, op>>
  BY DEF RefuseAppend
<1>2. live' \in Metadata /\ durable' \in Metadata /\ dirty' \in BOOLEAN
  BY <1>1, RecoverType, Zenon DEF RollBack, TypeOK
<1> QED BY <1>1, <1>2 DEF TypeOK

\* A commit or event that reaches append_journal_quorum keeps the types.
LEMMA BeginAppendType ==
    ASSUME TypeOK, NEW by \in {"commit", "event"}, NEW s \in Metadata,
           NEW e \in JournalEntry, BeginAppend(by, s, e), txns' \in Nat
    PROVE  TypeOK'
<1>1. PICK back \in SUBSET (Members \ (scanned \cup quar)), bad \in SUBSET Members,
           lost \in SUBSET Members :
           /\ incidents' = incidents + Cardinality(bad)
           /\ quar' = quar \cup Absent(back)
           /\ \/ TryAppend(by, s, e, Superblocks(back), back # {}, bad, lost)
              \/ RefuseAppend(by, s, Superblocks(back))
  BY LostType, Zenon DEF BeginAppend
<1>2. incidents' \in Nat
  <2>1. IsFiniteSet(bad)
    BY RawStoreAssumption, FS_Subset
  <2>2. Cardinality(bad) \in Nat
    BY <2>1, FS_CardinalityType
  <2> QED BY <1>1, <2>2 DEF TypeOK
<1>3. Superblocks(back) \in SUBSET Members /\ (back # {}) \in BOOLEAN
  BY DEF Superblocks
<1>4. /\ broken' \subseteq Members /\ fenced' \in BOOLEAN /\ dirty' \in BOOLEAN
      /\ live' \in Metadata /\ durable' \in Metadata /\ op' \in Operation
  BY <1>1, <1>3, TryAppendType, RefuseAppendType, Zenon
<1>5. quar' \subseteq Members
  BY <1>1 DEF TypeOK, Absent
<1>6. UNCHANGED <<disk, phase, scanned, acked, unresolved>>
  BY DEF BeginAppend
<1> QED BY <1>2, <1>4, <1>5, <1>6 DEF TypeOK

\* A call that reaches write_metadata_copies_quorum keeps the types.
LEMMA BeginCopiesType ==
    ASSUME TypeOK, NEW by \in {"commit", "sync", "unmount"}, NEW s \in Metadata,
           BeginCopies(by, s), txns' \in Nat
    PROVE  TypeOK'
<1>1. PICK back \in SUBSET (Members \ (scanned \cup quar)) :
           /\ quar' = quar \cup Absent(back)
           /\ TryCopies(by, s, Superblocks(back), back # {})
  BY DEF BeginCopies
<1>2. Start("copies", by, s, Torn, Superblocks(back)) \in Operation
  BY StartType, TornType, SMTT(30) DEF Superblocks
<1>3. op' \in Operation /\ fenced' \in BOOLEAN /\ live' \in Metadata
  BY <1>1, <1>2, ReportType, Zenon DEF TryCopies, TypeOK
<1>4. quar' \subseteq Members
  BY <1>1 DEF TypeOK, Absent
<1>5. UNCHANGED <<disk, phase, scanned, broken, durable, dirty, acked, unresolved, incidents>>
  BY DEF BeginCopies
<1> QED BY <1>3, <1>4, <1>5 DEF TypeOK

\* reset_stale_journals keeps the types.
LEMMA ResetStaleJournalsType ==
    ASSUME TypeOK, ResetStaleJournals
    PROVE  TypeOK'
<1>1. PICK back \in SUBSET Members :
           LET stale == StaleJournals(Superblocks(back) \ Dead(back # {}))
           IN  /\ quar' = quar \cup Absent(back)
               /\ op' = [Start("stale", "repair", live, Torn, stale)
                         EXCEPT !.fresh = ~(stale \subseteq scanned)]
  BY Zenon DEF ResetStaleJournals
<1> DEFINE stale == StaleJournals(Superblocks(back) \ Dead(back # {}))
<1>2. stale \in SUBSET Members
  BY DEF StaleJournals, Superblocks
<1>3. op' = [Start("stale", "repair", live, Torn, stale)
             EXCEPT !.fresh = ~(stale \subseteq scanned)]
  BY <1>1
<1> HIDE DEF stale
<1>4. live \in Metadata
  BY DEF TypeOK
<1>5. Start("stale", "repair", live, Torn, stale) \in Operation
  BY <1>2, <1>4, StartType, TornType
<1>6. op' \in Operation
  BY <1>5, <1>3, ReportType, Zenon
<1>7. quar' \subseteq Members
  BY <1>1 DEF TypeOK, Absent
<1> QED BY <1>6, <1>7 DEF ResetStaleJournals, TypeOK

\* So does a failed read-after-write verification.
LEMMA VerifyFailsType ==
    ASSUME TypeOK, NEW m \in Members, VerifyFails(m)
    PROVE  TypeOK'
<1>1. incidents' \in Nat
  BY DEF VerifyFails, TypeOK
<1>2. quar' \subseteq Members /\ broken' \subseteq Members
  BY DEF VerifyFails, TypeOK
<1>3. fenced' \in BOOLEAN
  BY Zenon DEF VerifyFails, FenceAfterLoss, TypeOK
<1> QED BY <1>1, <1>2, <1>3 DEF VerifyFails, TypeOK

\* Members are left to visit only while a fan-out is in progress.
LEMMA InProgress ==
    ASSUME FanoutSound, NEW m \in op.todo
    PROVE  op # Idle /\ op.step # "idle"
<1>1. op.step = "idle" => op = Idle
  BY Zenon DEF FanoutSound
<1>2. Idle.todo = {}
  BY DEF Idle
<1> QED BY <1>1, <1>2

\* One member write of a fan-out keeps the types.
LEMMA MemberType ==
    ASSUME TypeOK, FanoutSound, NEW m \in Members,
           MemberOk(m) \/ MemberFault(m) \/ MemberSkipped(m)
    PROVE  TypeOK'
<1>1. op.step # "idle" /\ disk[m] \in DiskState
  <2>1. m \in op.todo
    BY Zenon DEF MemberOk, MemberFault, MemberSkipped
  <2> QED BY <2>1, InProgress, SMTT(30) DEF TypeOK
<1>2. Completed(disk[m]) \in DiskState /\ Cut(disk[m]) \subseteq DiskState
  BY <1>1, CutType
<1>3. ASSUME NEW d \in DiskState
      PROVE  [disk EXCEPT ![m] = d] \in [Members -> DiskState]
  BY DEF TypeOK
<1>4. ASSUME NEW done \in SUBSET Members, NEW bad \in SUBSET Members
      PROVE  /\ [op EXCEPT !.todo = @ \ {m}, !.done = done] \in Operation
             /\ [op EXCEPT !.todo = @ \ {m}, !.bad = bad] \in Operation
  BY ZenonT(30) DEF TypeOK, Operation
<1>5. op.done \cup {m} \in SUBSET Members /\ op.bad \cup {m} \in SUBSET Members
      /\ op.bad \in SUBSET Members
  BY DEF TypeOK, Operation
<1>6. CASE MemberOk(m)
  BY <1>2, <1>3, <1>4, <1>5, <1>6, Zenon DEF MemberOk, TypeOK
<1>7. CASE MemberFault(m)
  <2>1. disk' \in [Members -> DiskState]
    BY <1>2, <1>3, <1>7, ZenonT(30) DEF MemberFault
  <2>2. PICK lost \in SUBSET {m} :
             /\ op' = [op EXCEPT !.todo = @ \ {m}, !.bad = @ \cup lost]
             /\ broken' = IF op.fresh THEN broken ELSE broken \cup lost
    BY <1>7, LostType, ZenonT(30) DEF MemberFault
  <2>3. op' \in Operation /\ broken' \subseteq Members
    BY <1>4, <1>5, <2>2, Zenon DEF TypeOK
  <2>4. incidents' \in Nat
    <3>1. incidents' = incidents + 1
      BY <1>7, ZenonT(30) DEF MemberFault
    <3> QED BY <3>1, SMTT(30) DEF TypeOK
  <2>5. UNCHANGED <<phase, scanned, quar, fenced, live, durable, dirty, acked, unresolved, txns>>
    BY <1>7, ZenonT(30) DEF MemberFault
  <2> QED BY <2>1, <2>3, <2>4, <2>5, SMTT(30) DEF TypeOK
<1>8. CASE MemberSkipped(m)
  BY <1>4, <1>5, <1>8, Zenon DEF MemberSkipped, TypeOK
<1> QED BY <1>6, <1>7, <1>8

\* open_pool keeps the types.
LEMMA OpenType ==
    ASSUME TypeOK, NEW P \in SUBSET Members, Open(P)
    PROVE  TypeOK'
<1>1. PICK r \in Recover(P) :
           op' = Start(IF r.replayed THEN "replay" ELSE "clean", "open", r.meta, Torn, P)
  BY DEF Open
<1>2. op' \in Operation
  BY <1>1, RecoverType, StartType, TornType
<1> QED BY <1>2 DEF Open, TypeOK

\* A crash keeps the types.
LEMMA CrashType ==
    ASSUME TypeOK, FanoutSound, Crash
    PROVE  TypeOK'
<1>1. PICK how \in [Unflushed -> Losses], m \in Members :
      \E d \in (IF m \in op.todo \ Unflushed THEN Cut(disk[m]) ELSE {disk[m]}) :
         disk' = [n \in Members |-> IF n \in Unflushed THEN Lose(disk[n], how[n])
                                   ELSE IF n = m THEN d ELSE disk[n]]
  BY DEF Crash
<1>2. PICK d \in (IF m \in op.todo \ Unflushed THEN Cut(disk[m]) ELSE {disk[m]}) :
         disk' = [n \in Members |-> IF n \in Unflushed THEN Lose(disk[n], how[n])
                                   ELSE IF n = m THEN d ELSE disk[n]]
  BY <1>1
<1>3. d \in DiskState
  <2>1. CASE m \in op.todo \ Unflushed
    <3>1. op.step # "idle"
      BY <2>1, InProgress
    <3> QED BY <1>2, <2>1, <3>1, CutType DEF TypeOK
  <2>2. CASE m \notin op.todo \ Unflushed
    BY <1>2, <2>2 DEF TypeOK
  <2> QED BY <2>1, <2>2
<1>4. \A n \in Members : n \in Unflushed => Lose(disk[n], how[n]) \in DiskState
  BY <1>1, LoseType DEF TypeOK
<1>5. disk' \in [Members -> DiskState]
  BY <1>2, <1>3, <1>4 DEF TypeOK
<1>6. << >> \in Metadata
  BY DEF Metadata
<1>7. incidents' \in Nat
  BY DEF Crash, TypeOK
<1>8. Exit /\ UNCHANGED <<acked, txns>>
  BY DEF Crash
<1> QED BY <1>5, <1>6, <1>7, <1>8, IdleType, Zenon DEF Exit, TypeOK

\* initialize_pool establishes the type invariant.
LEMMA TypeInit == Init => TypeOK
<1>1. << >> \in Metadata
  BY DEF Metadata
<1>2. Entry("full", << >>, {}) \in JournalEntry
  BY <1>1 DEF Entry, JournalEntry
<1>3. MkfsDisk \in DiskState
  <2>1. <<Entry("full", << >>, {})>> \in Seq(JournalEntry)
    BY <1>2
  <2> QED BY <1>1, <2>1 DEF MkfsDisk, DiskState
<1>4. Init => /\ disk \in [Members -> DiskState]
              /\ txns \in Nat /\ incidents \in Nat
  BY <1>3 DEF Init
<1>5. Init => TypeOK
  BY <1>1, <1>4, IdleType, Zenon DEF Init, TypeOK
<1> QED BY <1>5

\* Every step preserves the type invariant, given what a fan-out knows.
LEMMA TypeStep ==
    ASSUME TypeOK, FanoutSound, [Next]_vars
    PROVE  TypeOK'
<1>0. live \in Metadata /\ durable \in Metadata /\ txns \in Nat
  BY DEF TypeOK
<1>1. ASSUME NEW P \in SUBSET Members, Open(P) PROVE TypeOK'
  BY <1>1, OpenType
<1>2. CASE Commit
  <2>1. PICK kind : BeginAppend("commit", Mutated(1), BuildJournalEntry(kind, Mutated(1), live))
    BY <1>2 DEF Commit
  <2>2. Mutated(1) \in Metadata
    BY MutatedType
  <2>3. txns' = txns + 1
    BY <1>2 DEF Commit
  <2>4. txns' \in Nat
    BY <1>0, <2>3
  <2>5. BuildJournalEntry(kind, Mutated(1), live) \in JournalEntry
    BY <1>0, <2>2, EntryType
  <2> QED BY <2>1, <2>2, <2>4, <2>5, BeginAppendType
<1>3. CASE CommitCheckpoint
  <2>1. PICK n \in 0..1 : txns' = txns + n /\ BeginCopies("commit", Mutated(n))
    BY <1>3 DEF CommitCheckpoint
  <2>2. Mutated(n) \in Metadata
    BY MutatedType
  <2>3. txns' \in Nat
    BY <1>0, <2>1
  <2> QED BY <2>1, <2>2, <2>3, BeginCopiesType
<1>4. CASE Event
  <2>1. BuildJournalEntry("full", live, live) \in JournalEntry
    BY <1>0, EntryType
  <2> QED BY <1>0, <1>4, <2>1, BeginAppendType DEF Event
<1>5. CASE Sync
  BY <1>0, <1>5, BeginCopiesType DEF Sync
<1>6. CASE Unmount
  BY <1>0, <1>6, BeginCopiesType DEF Unmount
<1>7. CASE UnmountFails
  BY <1>7, OutcomeType DEF UnmountFails
<1>8. ASSUME NEW m \in Members, MemberOk(m) \/ MemberFault(m) \/ MemberSkipped(m) PROVE TypeOK'
  BY <1>8, MemberType
<1>9. ASSUME NEW m \in Members, VerifyFails(m) PROVE TypeOK'
  BY <1>9, VerifyFailsType
<1>10. CASE End
  BY <1>10, EndType
<1>11. CASE Crash
  BY <1>11, CrashType
<1>12. CASE UNCHANGED vars
  BY <1>12 DEF vars, TypeOK
<1>13. CASE BufferTransaction
  <2>1. live' = Mutated(1) /\ txns' = txns + 1
    BY <1>13 DEF BufferTransaction
  <2>2. live' \in Metadata
    BY <2>1, MutatedType
  <2>3. txns' \in Nat
    BY <1>0, <2>1
  <2> QED BY <1>13, <2>2, <2>3 DEF BufferTransaction, TypeOK
<1>14. CASE CommitGroup
  <2>1. PICK n \in 0..1 :
          /\ txns' = txns + n
          /\ BeginAppend("commit", Mutated(n), BuildJournalEntry("delta", Mutated(n), durable))
    BY <1>14 DEF CommitGroup
  <2>2. Mutated(n) \in Metadata
    BY MutatedType
  <2>3. txns' \in Nat
    BY <1>0, <2>1
  <2>4. BuildJournalEntry("delta", Mutated(n), durable) \in JournalEntry
    BY <1>0, <2>2, EntryType
  <2> QED BY <2>1, <2>2, <2>3, <2>4, BeginAppendType
<1>15. CASE ResetStaleJournals
  BY <1>15, ResetStaleJournalsType
<1> QED BY <1>1, <1>2, <1>3, <1>4, <1>5, <1>6, <1>7, <1>8, <1>9, <1>10, <1>11, <1>12,
           <1>13, <1>14, <1>15 DEF Next

=============================================================================
