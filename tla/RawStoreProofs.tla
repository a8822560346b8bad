--------------------------- MODULE RawStoreProofs ---------------------------
(***************************************************************************)
(* What holds of the metadata path for any number of members, transactions,*)
(* faults and crashes: the members a fan-out has counted have what they    *)
(* were counted for (FanoutInvariant), so an acknowledged state is visible *)
(* to every majority (AckTheorem); a fenced mount takes up no transaction  *)
(* (FenceTheorem); and an indeterminate commit fences the mount unless     *)
(* commits are grouped (IndeterminateTheorem).                             *)
(***************************************************************************)
EXTENDS RawStoreTypes

----------------------------------------------------------------------------
(* What a completed member write leaves on the member's disk.              *)

\* append_journal_member leaves the new entry at the tip and no slot changed.
LEMMA AppendEffect ==
    ASSUME NEW d \in DiskState, NEW e \in JournalEntry
    PROVE  /\ AppendJournalMember(d, e).log # << >>
           /\ Tip(AppendJournalMember(d, e)) = e
           /\ SlotStates(AppendJournalMember(d, e)) = SlotStates(d)
           /\ d.log # << >> =>
                /\ Len(AppendJournalMember(d, e).log) > 1
                /\ AppendJournalMember(d, e).log[Len(AppendJournalMember(d, e).log) - 1] = Tip(d)
<1> DEFINE longer == Append(d.log, e)
<1>1. d.log \in Seq(JournalEntry)
  BY DEF DiskState
<1>2. ASSUME NEW log \in Seq(JournalEntry)
      PROVE  /\ Append(log, e) # << >> /\ Append(log, e)[Len(Append(log, e))] = e
             /\ log # << >> => /\ Len(Append(log, e)) > 1
                              /\ Append(log, e)[Len(Append(log, e)) - 1] = log[Len(log)]
  <2>1. Len(log) \in Nat /\ Len(Append(log, e)) = Len(log) + 1
    OBVIOUS
  <2>2. Append(log, e)[Len(log) + 1] = e
    BY <2>1
  <2>3. log # << >> => Len(log) > 0
    BY <2>1
  <2>4. log # << >> => Append(log, e)[Len(log)] = log[Len(log)]
    BY <2>1, <2>3
  <2>5. Append(log, e) # << >>
    BY <2>1
  <2> QED BY <2>1, <2>2, <2>3, <2>4, <2>5
<1>3. /\ longer # << >> /\ longer[Len(longer)] = e
      /\ d.log # << >> => Len(longer) > 1 /\ longer[Len(longer) - 1] = d.log[Len(d.log)]
  BY <1>1, <1>2
<1> HIDE DEF longer
<1>4. AppendJournalMember(d, e).log = longer /\ AppendJournalMember(d, e).slot = d.slot
  BY DEF AppendJournalMember, DiskState, longer
<1> QED BY <1>3, <1>4 DEF Tip, SlotStates

\* A certificate appended after the record it names completes the pair that a
\* member is counted for.
LEMMA CertificateEffect ==
    ASSUME NEW d \in DiskState, NEW e \in JournalEntry, NEW s, HasRecord(d, s),
           e.kind = "cert", e.meta = s
    PROVE  Holds(AppendJournalMember(d, e), s)
BY AppendEffect DEF HasRecord, Holds

\* write_metadata_member leaves the checkpoint in a slot.
LEMMA CheckpointEffect ==
    ASSUME NEW d \in DiskState, NEW s \in Metadata
    PROVE  /\ s \in SlotStates(WriteMetadataMember(d, s))
           /\ s \in SlotStates(CheckpointAndResetJournal(d, s))
<1>1. (Txid(s) + 1) % 2 \in 0..1 /\ Txid(s) % 2 \in 0..1
  BY TxidParity
<1> DEFINE first == WriteMetadataSlot(d, Txid(s) % 2, s)
<1>2. first \in DiskState
  BY <1>1, SlotType, Zenon
<1> HIDE DEF first
<1>3. ASSUME NEW i \in 0..1
      PROVE  s \in SlotStates(WriteMetadataSlot(first, i, s))
  BY <1>2 DEF WriteMetadataSlot, SlotStates, DiskState
<1>4. s \in SlotStates(WriteMetadataMember(d, s))
  BY <1>1, <1>3 DEF WriteMetadataMember, first
<1>5. CheckpointAndResetJournal(d, s).slot = WriteMetadataMember(d, s).slot
  BY MetadataMemberType DEF CheckpointAndResetJournal, InitializeJournalRegion, DiskState
<1> QED BY <1>4, <1>5 DEF SlotStates

\* A journal reset and the clean flag leave the slots alone, completed or cut.
LEMMA SlotsKept ==
    ASSUME NEW d \in DiskState, op.step \in {"reset", "stale", "clean"}
    PROVE  /\ SlotStates(Completed(d)) = SlotStates(d)
           /\ \A c \in Cut(d) : SlotStates(c) = SlotStates(d)
<1>1. Completed(d).slot = d.slot
  BY DEF Completed, InitializeJournalRegion, WriteSuperblockCleanState, DiskState
<1> QED BY <1>1 DEF Cut, SlotStates

----------------------------------------------------------------------------
(* The fan-out invariant.                                                  *)

\* Any set of members that includes a majority is a majority.
LEMMA LargerQuorum ==
    ASSUME NEW Q \in SUBSET Members, NEW R \in SUBSET Q, Cardinality(R) >= Need
    PROVE  Cardinality(Q) >= Need
<1>1. IsFiniteSet(Q) /\ IsFiniteSet(R)
  BY RawStoreAssumption, FS_Subset
<1>2. Cardinality(R) <= Cardinality(Q) /\ Cardinality(R) \in Nat /\ Cardinality(Q) \in Nat
  BY <1>1, FS_Subset, FS_CardinalityType
<1> QED BY <1>2, NeedIsMajority

\* A step that leaves no fan-out in progress.
LEMMA IdleSound ==
    ASSUME op' = Idle, phase' = "down" => ~fenced'
    PROVE  FanoutSound'
BY DEF FanoutSound, SharedLock, Idle

\* What FanoutSound says of the metadata lock and the write fence.
LockSound ==
    /\ fenced => op = Idle \/ SharedLock
    /\ SharedLock => op.meta = live
    /\ phase = "down" => op = Idle /\ ~fenced

\* The call that holds the lock goes on.
LEMMA LockKept ==
    ASSUME FanoutSound, op # Idle, op'.by = op.by, op'.meta = op.meta,
           UNCHANGED <<phase, fenced, live>>
    PROVE  LockSound'
BY DEF FanoutSound, LockSound, SharedLock

\* A step that starts a fan-out which has written to no member yet.
LEMMA StartSound ==
    ASSUME op'.done = {},
           op'.step \in {"append", "rollover", "copies", "replay", "stale", "clean"},
           LockSound', op'.step = "replay" => op'.by = "open",
           op'.step \in {"append", "rollover"} =>
             op'.entry.kind \in {"full", "delta"} /\ op'.entry.meta = op'.meta,
           op'.step = "clean" /\ op'.by = "open" => Cardinality(Checkpointed(op.meta)') >= Need
    PROVE  FanoutSound'
BY DEF FanoutSound, LockSound

\* A checkpoint fan-out that reached its quorum left the state on a majority.
LEMMA QuorumSound ==
    ASSUME op.done \subseteq Checkpointed(op.meta), Quorum
    PROVE  Cardinality(Checkpointed(op.meta)) >= Need
BY LargerQuorum, SMTT(30) DEF Quorum, Checkpointed

\* A completed member write: the member joins op.done with what it is counted for.
LEMMA MemberOkSound ==
    ASSUME TypeOK, FanoutSound, NEW m \in Members, MemberOk(m)
    PROVE  FanoutSound'
<1>1. m \in op.todo /\ m \notin op.done /\ op # Idle /\ op.step # "idle"
  <2>1. m \in op.todo
    BY DEF MemberOk
  <2> QED BY <2>1, InProgress DEF FanoutSound, SharedLock
<1>2. disk[m] \in DiskState /\ op.meta \in Metadata /\ op.entry \in JournalEntry
  BY DEF TypeOK, Operation
<1>3. /\ op'.step = op.step /\ op'.by = op.by /\ op'.meta = op.meta /\ op'.entry = op.entry
      /\ op'.todo = op.todo \ {m} /\ op'.done = op.done \cup {m}
  BY DEF MemberOk, TypeOK, Operation
<1>4. disk'[m] = Completed(disk[m]) /\ \A n \in Members : n # m => disk'[n] = disk[n]
  BY DEF MemberOk, TypeOK
<1>5. op.todo \subseteq Members /\ op.done \subseteq Members
  BY DEF TypeOK, Operation
<1>6. LockSound'
  <2>1. UNCHANGED <<phase, fenced, live>>
    BY DEF MemberOk
  <2> QED BY <1>1, <1>3, <2>1, LockKept
<1>7. CASE op.step = "append"
  <2>1. HasRecord(disk'[m], op.meta)
    BY <1>2, <1>4, <1>7, AppendEffect DEF Completed, HasRecord, FanoutSound
  <2>2. \A n \in op'.done : HasRecord(disk'[n], op.meta)
    BY <1>3, <1>4, <1>5, <1>7, <2>1, SMTT(30) DEF FanoutSound
  <2> QED BY <1>1, <1>3, <1>6, <1>7, <2>2 DEF FanoutSound, LockSound
<1>8. CASE op.step = "flush"
  <2>1. disk'[m] = disk[m]
    BY <1>4, <1>8 DEF Completed
  <2>2. \A n \in op'.todo \cup op'.done : HasRecord(disk'[n], op.meta)
    BY <1>1, <1>3, <1>4, <1>5, <1>8, <2>1, SMTT(30) DEF FanoutSound
  <2> QED BY <1>1, <1>3, <1>6, <1>8, <2>2 DEF FanoutSound, LockSound
<1>9. CASE op.step = "certify" /\ op.entry.kind = "cert"
  <2>1. Holds(disk'[m], op.meta)
    BY <1>1, <1>2, <1>4, <1>9, CertificateEffect, SMTT(30) DEF Completed, FanoutSound
  <2>2. \A n \in op'.todo : HasRecord(disk'[n], op.meta)
    BY <1>3, <1>4, <1>5, <1>9 DEF FanoutSound
  <2>3. \A n \in op'.done : Holds(disk'[n], op.meta)
    BY <1>3, <1>4, <1>5, <1>9, <2>1, SMTT(30) DEF FanoutSound
  <2> QED BY <1>1, <1>3, <1>6, <1>9, <2>2, <2>3 DEF FanoutSound, LockSound
<1>10. CASE op.step = "certify" /\ op.entry.kind = "ckpt"
  <2>1. SlotStates(disk'[m]) = SlotStates(disk[m])
    BY <1>2, <1>4, <1>10, AppendEffect DEF Completed
  <2>2. op'.todo \cup op'.done \subseteq Checkpointed(op.meta)'
    BY <1>1, <1>3, <1>4, <1>5, <1>10, <2>1, SMTT(30) DEF FanoutSound, Checkpointed
  <2> QED BY <1>1, <1>3, <1>6, <1>10, <2>2 DEF FanoutSound, LockSound
<1>11. CASE op.step \in {"rollover", "copies", "replay"}
  <2>1. op.meta \in SlotStates(disk'[m])
    BY <1>2, <1>4, <1>11, CheckpointEffect DEF Completed
  <2>2. op'.done \subseteq Checkpointed(op.meta)'
    BY <1>3, <1>4, <1>5, <1>11, <2>1, SMTT(30) DEF FanoutSound, Checkpointed
  <2> QED BY <1>1, <1>3, <1>6, <1>11, <2>2 DEF FanoutSound, LockSound
<1>12. CASE op.step \in {"reset", "stale", "clean"}
  <2>1. SlotStates(disk'[m]) = SlotStates(disk[m])
    BY <1>2, <1>4, <1>12, SlotsKept
  <2>2. Checkpointed(op.meta)' = Checkpointed(op.meta)
    BY <1>3, <1>4, <2>1 DEF Checkpointed
  <2> QED BY <1>1, <1>3, <1>6, <1>12, <2>2 DEF FanoutSound, LockSound
<1> QED BY <1>1, <1>7, <1>8, <1>9, <1>10, <1>11, <1>12, ZenonT(30)
        DEF FanoutSound, TypeOK, Operation

\* A failed or skipped member write: the member is not counted.
LEMMA MemberFaultSound ==
    ASSUME TypeOK, FanoutSound, NEW m \in Members, MemberFault(m) \/ MemberSkipped(m)
    PROVE  FanoutSound'
<1>1. m \in op.todo
  BY Zenon DEF MemberFault, MemberSkipped
<1>2. m \notin op.done /\ op # Idle /\ op.step # "idle"
  BY <1>1, InProgress, SMTT(30) DEF FanoutSound, SharedLock
<1>3. PICK bad : op' = [op EXCEPT !.todo = op.todo \ {m}, !.bad = bad]
  BY Zenon DEF MemberFault, MemberSkipped
<1>4. /\ op'.step = op.step /\ op'.by = op.by /\ op'.meta = op.meta /\ op'.entry = op.entry
      /\ op'.todo = op.todo \ {m} /\ op'.done = op.done
  BY <1>3 DEF TypeOK, Operation
<1>5. PICK d \in Cut(disk[m]) \cup {disk[m]} : disk' = [disk EXCEPT ![m] = d]
  <2>1. CASE MemberFault(m)
    BY <2>1, Zenon DEF MemberFault
  <2>2. CASE MemberSkipped(m)
    BY <2>2 DEF MemberSkipped, TypeOK
  <2> QED BY <2>1, <2>2, SMTT(30)
<1>6. disk'[m] = d /\ \A n \in Members : n # m => disk'[n] = disk[n]
  BY <1>5 DEF TypeOK
<1>7. op.todo \subseteq Members /\ op.done \subseteq Members /\ disk[m] \in DiskState
  BY DEF TypeOK, Operation
<1>8. \A n \in op'.todo \cup op'.done : n \in Members /\ disk'[n] = disk[n]
                                        /\ n \in op.todo \cup op.done
  BY <1>2, <1>4, <1>6, <1>7
<1>9. LockSound'
  <2>1. UNCHANGED <<phase, fenced, live>>
    BY Zenon DEF MemberFault, MemberSkipped
  <2> QED BY <1>2, <1>4, <2>1, LockKept, SMTT(30)
<1>10. ASSUME NEW n \in op'.todo \cup op'.done
       PROVE  n \in Checkpointed(op.meta) => n \in Checkpointed(op.meta)'
  BY <1>4, <1>8, <1>10, SMTT(30) DEF Checkpointed
<1>11. CASE op.step \in {"append", "flush", "certify"}
  BY <1>2, <1>4, <1>8, <1>9, <1>10, <1>11, SMTT(30) DEF FanoutSound, LockSound
<1>12. CASE op.step \in {"rollover", "copies", "replay"}
  BY <1>2, <1>4, <1>8, <1>9, <1>10, <1>12, SMTT(30) DEF FanoutSound, LockSound
<1>13. CASE op.step \in {"reset", "stale", "clean"}
  <2>1. SlotStates(disk'[m]) = SlotStates(disk[m])
    BY <1>5, <1>6, <1>7, <1>13, SlotsKept
  <2>2. Checkpointed(op.meta)' = Checkpointed(op.meta)
    BY <1>4, <1>6, <2>1 DEF Checkpointed
  <2> QED BY <1>2, <1>4, <1>9, <1>13, <2>2, SMTT(30) DEF FanoutSound, LockSound
<1> QED BY <1>2, <1>11, <1>12, <1>13, SMTT(30) DEF TypeOK, Operation

\* Both ends of the record phase: a certificate fan-out over the members that
\* have the record, or an indeterminate commit.
LEMMA CertifySound ==
    ASSUME TypeOK, FanoutSound, NEW checkpoint \in BOOLEAN, Certify(checkpoint),
           op # Idle, op.step \in {"append", "flush", "rollover"},
           IF checkpoint THEN op.done \subseteq Checkpointed(op.meta)
                         ELSE \A m \in op.done : HasRecord(disk[m], op.meta)
    PROVE  FanoutSound'
<1>1. phase # "down"
  BY SMTT(30) DEF FanoutSound, SharedLock
<1>2. CASE Quorum
  <2>1. /\ op' = Proceed("certify", BuildQuorumCommitEntry(op.entry, checkpoint))
        /\ UNCHANGED <<disk, phase, fenced, live>>
    BY <1>2 DEF Certify, Continue
  <2>2. /\ op'.step = "certify" /\ op'.by = op.by /\ op'.meta = op.meta /\ op'.todo = op.done /\ op'.done = {}
        /\ op'.entry = BuildQuorumCommitEntry(op.entry, checkpoint)
    BY <2>1 DEF Proceed, TypeOK, Operation
  <2>3. op'.entry.kind = (IF checkpoint THEN "ckpt" ELSE "cert") /\ op'.entry.meta = op.meta
    BY <2>2 DEF BuildQuorumCommitEntry, Entry, FanoutSound
  <2>4. checkpoint => op'.todo \subseteq Checkpointed(op.meta)'
    BY <2>1, <2>2, Zenon DEF Checkpointed
  <2>5. LockSound'
    BY <2>1, <2>2, LockKept
  <2> QED BY <2>1, <2>2, <2>3, <2>4, <2>5 DEF FanoutSound, LockSound
<1>3. CASE ~Quorum
  BY <1>1, <1>3, IdleSound DEF Certify, Indeterminate
<1> QED BY <1>2, <1>3

\* The outcomes that end a fan-out.
LEMMA OutcomeSound ==
    ASSUME FanoutSound, op # Idle, Acknowledge \/ Indeterminate \/ ExitCleanly
    PROVE  FanoutSound'
<1>1. phase # "down"
  BY DEF FanoutSound, SharedLock
<1> QED BY <1>1, IdleSound, SMTT(30) DEF Acknowledge, Indeterminate, ExitCleanly, Exit

\* The end of a phase hands the counted members to the next one.
LEMMA EndSound ==
    ASSUME TypeOK, FanoutSound, End
    PROVE  FanoutSound'
<1>1. op # Idle /\ op.step # "idle"
  <2>1. op.step \in {"append", "flush", "rollover", "certify", "copies", "replay", "reset",
                    "clean", "stale"}
    BY Zenon DEF End, EndAppend, EndFlush, EndRollover, EndCertify, EndCopies, EndUnmountCopies,
                 EndReplay, EndReset, EndClean, EndStale
  <2> QED BY <2>1 DEF Idle
<1>2. phase # "down" /\ (fenced => SharedLock)
  BY <1>1 DEF FanoutSound, SharedLock
<1>3. CASE EndAppend
  <2>1. CASE DeferJournalFlush
    <3>1. op' = Proceed("flush", op.entry) /\ UNCHANGED <<disk, phase, fenced, live>>
      BY <1>3, <2>1 DEF EndAppend, Continue
    <3>2. /\ op'.step = "flush" /\ op'.by = op.by /\ op'.meta = op.meta /\ op'.todo = op.done /\ op'.done = {}
          /\ op'.entry = op.entry
      BY <3>1 DEF Proceed, TypeOK, Operation
    <3>3. LockSound'
      BY <1>1, <3>1, <3>2, LockKept, SMTT(30)
    <3> QED BY <1>3, <3>1, <3>2, <3>3, SMTT(30) DEF EndAppend, FanoutSound, LockSound
  <2>2. CASE ~DeferJournalFlush
    BY <1>1, <1>3, <2>2, CertifySound, Zenon DEF EndAppend, FanoutSound
  <2> QED BY <2>1, <2>2, SMTT(30)
<1>4. CASE EndFlush
  BY <1>1, <1>4, CertifySound, Zenon DEF EndFlush, FanoutSound
<1>5. CASE EndRollover
  BY <1>1, <1>5, CertifySound, Zenon DEF EndRollover, FanoutSound
<1>6. CASE EndCertify
  BY <1>1, <1>6, OutcomeSound DEF EndCertify
<1>7. CASE EndCopies
  BY <1>1, <1>7, OutcomeSound DEF EndCopies
<1>8. CASE EndUnmountCopies
  <2>1. CASE ~ExitCleanly
    <3>1. /\ op' = [Start("clean", "unmount", op.meta, Torn, Members \ quar') EXCEPT !.fresh = op.fresh]
          /\ UNCHANGED <<phase, fenced, live>>
      BY <1>8, <2>1 DEF EndUnmountCopies
    <3>2. op'.step = "clean" /\ op'.by = "unmount" /\ op'.meta = op.meta /\ op'.done = {}
      BY <3>1 DEF Start
    <3>3. LockSound'
      BY <1>1, <1>8, <3>1, <3>2, LockKept DEF EndUnmountCopies
    <3> QED BY <3>2, <3>3, StartSound
  <2>2. CASE ExitCleanly
    BY <1>1, <2>2, OutcomeSound
  <2> QED BY <2>1, <2>2
<1>9. CASE EndReplay
  <2>1. CASE Quorum
    <3>1. op' = Proceed("reset", Torn) /\ UNCHANGED <<disk, phase, fenced, live>>
      BY <1>9, <2>1 DEF EndReplay, Continue
    <3>2. op'.step = "reset" /\ op'.by = op.by /\ op'.meta = op.meta /\ op'.done = {}
      BY <3>1 DEF Proceed, TypeOK, Operation
    <3>3. Cardinality(Checkpointed(op.meta)) >= Need
      BY <1>9, <2>1, QuorumSound DEF EndReplay, FanoutSound
    <3>4. Checkpointed(op.meta)' = Checkpointed(op.meta)
      BY <3>1, <3>2 DEF Checkpointed
    <3>5. LockSound'
      BY <1>1, <3>1, <3>2, LockKept, SMTT(30)
    <3>6. op.by = "open"
      BY <1>9 DEF EndReplay, FanoutSound, SharedLock
    <3> QED BY <3>1, <3>2, <3>3, <3>4, <3>5, <3>6, SMTT(30) DEF FanoutSound, LockSound
  <2>2. CASE ~Quorum
    BY <1>1, <1>9, <2>2, OutcomeSound DEF EndReplay
  <2> QED BY <2>1, <2>2, SMTT(30)
<1>10. CASE EndReset
  <2>1. /\ op' = Start("clean", "open", op.meta, Torn, scanned)
        /\ UNCHANGED <<disk, phase, fenced, live>>
    BY <1>10 DEF EndReset, Continue
  <2>2. op'.step = "clean" /\ op'.by = "open" /\ op'.meta = op.meta /\ op'.done = {}
    BY <2>1 DEF Start
  <2>3. Cardinality(Checkpointed(op.meta)') >= Need
    BY <1>10, <2>1, <2>2, ZenonT(30) DEF EndReset, FanoutSound, Checkpointed
  <2>4. op.by = "open"
    BY <1>10 DEF EndReset, FanoutSound
  <2>5. LockSound'
    BY <1>1, <2>1, <2>2, <2>4, LockKept
  <2> QED BY <2>2, <2>3, <2>5, StartSound
<1>11. CASE EndClean
  <2>1. CASE op.by = "open" /\ Quorum
    BY <1>2, <1>11, <2>1, IdleSound DEF EndClean
  <2>2. CASE ~(op.by = "open" /\ Quorum)
    BY <1>1, <1>11, <2>2, OutcomeSound DEF EndClean
  <2> QED BY <2>1, <2>2
<1>12. CASE EndStale
  BY <1>2, <1>12, IdleSound DEF EndStale, Continue
<1> QED BY <1>3, <1>4, <1>5, <1>6, <1>7, <1>8, <1>9, <1>10, <1>11, <1>12 DEF End

\* append_journal_quorum starts with no member counted.
LEMMA BeginAppendSound ==
    ASSUME NEW by, NEW s, NEW e, e.kind \in {"full", "delta"}, e.meta = s,
           by \in {"commit", "event"}, by = "event" => s = live, BeginAppend(by, s, e)
    PROVE  FanoutSound'
<1>1. phase' = "up" /\ phase = "up" /\ op = Idle /\ fenced = FALSE
  BY DEF BeginAppend, Ready
<1>2. CASE UNCHANGED op
  BY <1>1, <1>2, IdleSound
<1>3. CASE op' # op
  <2>1. PICK superblocks, fresh, bad, lost : TryAppend(by, s, e, superblocks, fresh, bad, lost)
    BY <1>3, SMTT(30) DEF BeginAppend, RefuseAppend
  <2>2. PICK step \in {"append", "rollover"} : \E positions, report :
          /\ op' = [Start(step, by, s, e, positions) EXCEPT !.bad = report, !.fresh = fresh]
          /\ UNCHANGED <<fenced, live>>
    BY <1>3, <2>1, Zenon DEF TryAppend
  <2>3. op'.step = step /\ op'.by = by /\ op'.done = {} /\ op'.entry = e /\ op'.meta = s
    BY <2>2 DEF Start
  <2>4. LockSound'
    BY <1>1, <2>2, <2>3 DEF LockSound, SharedLock
  <2> QED BY <2>2, <2>3, <2>4, StartSound
<1> QED BY <1>2, <1>3

\* So does write_metadata_copies_quorum.
LEMMA BeginCopiesSound ==
    ASSUME NEW by \in {"commit", "sync", "unmount"}, NEW s, BeginCopies(by, s)
    PROVE  FanoutSound'
<1>1. phase' = "up" /\ phase = "up" /\ op = Idle /\ fenced = FALSE
  BY DEF BeginCopies, Ready
<1>2. PICK superblocks, fresh : TryCopies(by, s, superblocks, fresh)
  BY DEF BeginCopies
<1>3. CASE UNCHANGED op
  BY <1>1, <1>3, IdleSound
<1>4. CASE op' # op
  <2>1. op' = [Start("copies", by, s, Torn, superblocks) EXCEPT !.fresh = fresh] /\ UNCHANGED fenced
    BY <1>2, <1>4 DEF TryCopies
  <2>2. op'.step = "copies" /\ op'.by = by /\ op'.done = {}
    BY <2>1 DEF Start
  <2>3. LockSound'
    BY <1>1, <2>1, <2>2 DEF LockSound, SharedLock
  <2> QED BY <2>2, <2>3, StartSound
<1> QED BY <1>3, <1>4

\* When load_or_recover replays nothing, the state it selects is a checkpoint
\* that a majority of the members has.
LEMMA RecoveredCheckpoint ==
    ASSUME NEW P \in SUBSET Members, NEW r \in Recover(P), ~r.replayed
    PROVE  Cardinality(Checkpointed(r.meta)) >= Need
<1>1. PICK b \in QuorumCheckpoints(P) : r \in RecoverFrom(P, {b})
  <2>1. CASE QuorumCheckpoints(P) = {}
    BY <2>1, Zenon DEF Recover, RecoverFrom
  <2>2. CASE QuorumCheckpoints(P) # {}
    BY <2>2, Zenon DEF Recover
  <2> QED BY <2>1, <2>2
<1>2. r.meta = b
  BY <1>1, ZenonT(30) DEF RecoverFrom
<1>3. Cardinality({m \in P : b \in SlotStates(disk[m])}) >= Need
  BY <1>1 DEF QuorumCheckpoints, Newest
<1> QED BY <1>2, <1>3, LargerQuorum DEF Checkpointed

\* A writable open starts with the checkpoint quorum or has to write one.
LEMMA OpenSound ==
    ASSUME FanoutSound, NEW P \in SUBSET Members, Open(P)
    PROVE  FanoutSound'
<1>1. PICK r \in Recover(P) :
           op' = Start(IF r.replayed THEN "replay" ELSE "clean", "open", r.meta, Torn, P)
  BY DEF Open
<1>2. /\ op'.step = (IF r.replayed THEN "replay" ELSE "clean")
      /\ op'.meta = r.meta /\ op'.by = "open" /\ op'.done = {}
  BY <1>1, SMTT(30) DEF Start
<1>3. phase' # "down" /\ ~fenced' /\ UNCHANGED disk
  BY DEF Open, FanoutSound, SharedLock
<1>4. op'.step = "clean" => Cardinality(Checkpointed(op.meta)') >= Need
  <2>1. Checkpointed(op.meta)' = Checkpointed(r.meta)
    BY <1>2, <1>3 DEF Checkpointed
  <2> QED BY <1>2, <2>1, RecoveredCheckpoint
<1>5. op'.step \in {"replay", "clean"}
  BY <1>2
<1>6. LockSound'
  BY <1>2, <1>3 DEF LockSound, SharedLock
<1> QED BY <1>2, <1>4, <1>5, <1>6, StartSound

\* reset_stale_journals writes for the live state.
LEMMA ResetStaleJournalsSound ==
    ASSUME FanoutSound, ResetStaleJournals
    PROVE  FanoutSound'
<1>1. PICK stale, fresh :
           op' = [Start("stale", "repair", live, Torn, stale) EXCEPT !.fresh = fresh]
  BY Zenon DEF ResetStaleJournals
<1>2. op'.step = "stale" /\ op'.by = "repair" /\ op'.meta = live /\ op'.done = {}
  BY <1>1 DEF Start
<1>3. phase' = "up" /\ UNCHANGED live
  BY DEF ResetStaleJournals
<1>4. LockSound'
  BY <1>2, <1>3 DEF LockSound, SharedLock
<1> QED BY <1>2, <1>4, StartSound

\* The verifier's fence finds no fan-out in progress but one with a shared lock.
LEMMA VerifyFailsSound ==
    ASSUME FanoutSound, NEW m \in Members, VerifyFails(m)
    PROVE  FanoutSound'
<1>1. phase = "up" /\ (op = Idle \/ SharedLock)
  BY DEF VerifyFails
<1>2. UNCHANGED <<disk, phase, live, op>>
  BY DEF VerifyFails
<1>3. op' = op /\ Checkpointed(op.meta)' = Checkpointed(op.meta) /\ (SharedLock' <=> SharedLock)
  BY <1>2 DEF Checkpointed, SharedLock
<1>4. CASE op = Idle
  BY <1>1, <1>2, <1>4, IdleSound, SMTT(30)
<1>5. CASE SharedLock
  <2>1. fenced' => op' = Idle \/ SharedLock'
    BY <1>3, <1>5
  <2>2. phase' = "down" => op' = Idle /\ ~fenced'
    BY <1>1, <1>2
  <2> QED BY <1>2, <1>3, <2>1, <2>2 DEF FanoutSound
<1> QED BY <1>1, <1>4, <1>5

\* Every step preserves the fan-out invariant.
LEMMA FanoutStep ==
    ASSUME TypeOK, FanoutSound, [Next]_vars
    PROVE  FanoutSound'
<1>1. ASSUME NEW P \in SUBSET Members, Open(P) PROVE FanoutSound'
  BY <1>1, OpenSound
<1>2. ASSUME NEW kind, NEW s, NEW p
      PROVE  /\ BuildJournalEntry(kind, s, p).kind \in {"full", "delta"}
             /\ BuildJournalEntry(kind, s, p).meta = s
  BY DEF BuildJournalEntry, Entry
<1>3. CASE Commit \/ CommitGroup \/ Event
  <2>1. CASE Commit
    <3>1. PICK kind : BeginAppend("commit", Mutated(1), BuildJournalEntry(kind, Mutated(1), live))
      BY <2>1 DEF Commit
    <3>2. /\ BuildJournalEntry(kind, Mutated(1), live).kind \in {"full", "delta"}
          /\ BuildJournalEntry(kind, Mutated(1), live).meta = Mutated(1)
      BY <1>2
    <3> QED BY <3>1, <3>2, BeginAppendSound, SMTT(30)
  <2>2. CASE CommitGroup
    <3>1. PICK n \in 0..1 :
            BeginAppend("commit", Mutated(n), BuildJournalEntry("delta", Mutated(n), durable))
      BY <2>2 DEF CommitGroup
    <3>2. /\ BuildJournalEntry("delta", Mutated(n), durable).kind \in {"full", "delta"}
          /\ BuildJournalEntry("delta", Mutated(n), durable).meta = Mutated(n)
      BY <1>2
    <3> QED BY <3>1, <3>2, BeginAppendSound, SMTT(30)
  <2>3. CASE Event
    BY <1>2, <2>3, BeginAppendSound DEF Event
  <2> QED BY <1>3, <2>1, <2>2, <2>3
<1>4. CASE CommitCheckpoint \/ Sync \/ Unmount
  BY <1>4, BeginCopiesSound DEF CommitCheckpoint, Sync, Unmount
<1>5. CASE UnmountFails
  BY <1>5, IdleSound DEF UnmountFails, ExitCleanly, Exit
<1>6. ASSUME NEW m \in Members, MemberOk(m) \/ MemberFault(m) \/ MemberSkipped(m)
      PROVE  FanoutSound'
  BY <1>6, MemberOkSound, MemberFaultSound
<1>7. ASSUME NEW m \in Members, VerifyFails(m) PROVE FanoutSound'
  BY <1>7, VerifyFailsSound
<1>8. CASE End
  BY <1>8, EndSound
<1>9. CASE Crash
  BY <1>9, IdleSound, SMTT(30) DEF Crash, Exit
<1>10. CASE UNCHANGED vars
  BY <1>10, ZenonT(30) DEF vars, FanoutSound, SharedLock, Checkpointed
<1>11. CASE BufferTransaction
  BY <1>11, IdleSound DEF BufferTransaction, Ready
<1>12. CASE ResetStaleJournals
  BY <1>12, ResetStaleJournalsSound
<1> QED BY <1>1, <1>3, <1>4, <1>5, <1>6, <1>7, <1>8, <1>9, <1>10, <1>11, <1>12 DEF Next

----------------------------------------------------------------------------
(* The theorems.                                                           *)

\* At every point of a fan-out of append_journal_quorum,
\* write_metadata_copies_quorum and open_pool, the members counted so far have
\* on disk what they were counted for (with type correctness, which the
\* induction needs).
THEOREM FanoutInvariant == Spec => [](TypeOK /\ FanoutSound)
<1>1. Init => FanoutSound
  <2>1. Idle.step = "idle" /\ Idle.by = "none" /\ Idle.todo = {} /\ Idle.done = {}
    BY DEF Idle
  <2>2. Init => op = Idle /\ ~fenced
    BY DEF Init
  <2> QED BY <2>1, <2>2 DEF FanoutSound, SharedLock
<1>2. TypeOK /\ FanoutSound /\ [Next]_vars => (TypeOK /\ FanoutSound)'
  BY TypeStep, FanoutStep
<1> QED BY TypeInit, <1>1, <1>2, PTL DEF Spec

\* Type correctness of the metadata path.
THEOREM TypeCorrect == Spec => []TypeOK
BY FanoutInvariant, PTL

\* ... and its fan-out invariant on its own.
THEOREM FanoutCorrect == Spec => []FanoutSound
BY FanoutInvariant, PTL

----------------------------------------------------------------------------
(* Acknowledged states are held by a majority.                             *)

\* The members of Q are the witnesses of an acknowledgement.
LEMMA WitnessesMeet ==
    ASSUME NEW Q \in SUBSET Members, Cardinality(Q) >= Need,
           NEW s, \A m \in Q : Holds(disk[m], s),
           NEW P \in SUBSET Members, Cardinality(P) >= Need
    PROVE  \E m \in P : Holds(disk[m], s)
BY MajoritiesMeet

\* Only the end of a certificate or checkpoint fan-out, and the last step of an
\* open, move acked.
LEMMA AckActions ==
    ASSUME [Next]_vars, acked' # acked
    PROVE  /\ acked' = op.meta /\ UNCHANGED disk
           /\ \/ op.step \in {"certify", "copies"} /\ Quorum
              \/ op.step = "clean" /\ op.by = "open"
<1>1. ASSUME Continue(op') \/ ExitCleanly \/ Indeterminate PROVE UNCHANGED acked
  BY <1>1 DEF Continue, ExitCleanly, Indeterminate
<1>2. ~UNCHANGED vars
  BY DEF vars
<1>3. ~\E P \in SUBSET Members : Open(P)
  BY ZenonT(30) DEF Open
<1>4. ~(BufferTransaction \/ Commit \/ CommitGroup \/ CommitCheckpoint \/ Event \/ Sync
        \/ Unmount)
  BY DEF BufferTransaction, Commit, CommitGroup, CommitCheckpoint, Event, Sync, Unmount,
         BeginAppend, BeginCopies
<1>5. ~UnmountFails /\ ~Crash
  BY DEF UnmountFails, ExitCleanly, Crash
<1>6. /\ ~\E m \in Members : MemberOk(m) \/ MemberFault(m) \/ MemberSkipped(m) \/ VerifyFails(m)
      /\ ~ResetStaleJournals
  BY Zenon DEF MemberOk, MemberFault, MemberSkipped, VerifyFails, ResetStaleJournals
<1>7. End
  BY <1>2, <1>3, <1>4, <1>5, <1>6 DEF Next
<1>8. ASSUME NEW c, Certify(c) PROVE FALSE
  BY <1>8, <1>1, SMTT(30) DEF Certify, Continue
<1>9. ~EndAppend /\ ~EndFlush /\ ~EndRollover /\ ~EndReplay /\ ~EndReset /\ ~EndStale
  BY <1>1, <1>8, Zenon DEF EndAppend, EndFlush, EndRollover, EndReplay, EndReset, EndStale, Continue
<1>10. CASE EndCertify \/ EndCopies
  BY <1>1, <1>10, Zenon DEF EndCertify, EndCopies, Acknowledge
<1>11. CASE EndUnmountCopies
  BY <1>1, <1>11, SMTT(30) DEF EndUnmountCopies
<1>12. CASE EndClean
  BY <1>1, <1>12, Zenon DEF EndClean
<1> QED BY <1>7, <1>9, <1>10, <1>11, <1>12 DEF End

\* A step that reports a new durable state leaves it visible to every majority.
LEMMA AckStep ==
    ASSUME TypeOK, FanoutSound, [Next]_vars, acked' # acked,
           NEW P \in SUBSET Members, Cardinality(P) >= Need
    PROVE  \E m \in P : Holds(disk'[m], acked')
<1>1. acked' = op.meta /\ disk' = disk
  BY AckActions
<1>2. op.done \in SUBSET Members /\ Checkpointed(op.meta) \in SUBSET Members
  BY DEF TypeOK, Operation, Checkpointed
<1>3. \A m \in Checkpointed(op.meta) : Holds(disk[m], op.meta)
  BY DEF Checkpointed, Holds
<1>4. CASE op.step \in {"certify", "copies"} /\ Quorum
  <2>1. \A m \in op.done : Holds(disk[m], op.meta)
    BY <1>3, <1>4, SMTT(30) DEF FanoutSound
  <2> QED BY <1>1, <1>2, <1>4, <2>1, WitnessesMeet, SMTT(30) DEF Quorum
<1>5. CASE op.step = "clean" /\ op.by = "open"
  <2>1. Cardinality(Checkpointed(op.meta)) >= Need
    BY <1>5 DEF FanoutSound
  <2> QED BY <1>1, <1>2, <1>3, <2>1, WitnessesMeet, SMTT(30)
<1> QED BY <1>4, <1>5, AckActions

\* Whenever a commit, an event, a sync, an unmount or an open reports a new
\* durable state, every majority of the members includes one with a checkpoint of
\* it or its record and certificate at the end of the journal, for every number of
\* members, faults and crashes.
THEOREM AckTheorem == Spec => AckVisible
<1>1. TypeOK /\ FanoutSound /\ [Next]_vars =>
        [acked' # acked =>
            \A P \in SUBSET Members :
                Cardinality(P) >= Need => \E m \in P : Holds(disk'[m], acked')]_vars
  BY AckStep
<1> QED BY FanoutInvariant, <1>1, PTL DEF Spec, AckVisible

----------------------------------------------------------------------------
(* The write fence.                                                        *)

\* What a write for s may put on a disk: a checkpoint of s, an entry for s, or a
\* torn extent.
AddsOnly(d, c, s) ==
    /\ SlotStates(c) \subseteq SlotStates(d) \cup {s}
    /\ \A e \in Range(c.log) : e \in Range(d.log) \/ e = Torn \/ e.meta = s

\* The entries of an extended and of a shortened journal.
LEMMA LogRange ==
    ASSUME NEW log \in Seq(JournalEntry), NEW e \in JournalEntry, NEW n \in Int, n <= Len(log)
    PROVE  /\ Range(Append(log, e)) \subseteq Range(log) \cup {e}
           /\ Range(SubSeq(log, 1, n)) \subseteq Range(log)
<1>1. ASSUME NEW i \in DOMAIN Append(log, e)
      PROVE  Append(log, e)[i] = e \/ (i \in DOMAIN log /\ Append(log, e)[i] = log[i])
  <2>1. i \in 1..Len(log) + 1 /\ Len(log) \in Nat /\ DOMAIN log = 1..Len(log)
    OBVIOUS
  <2>2. CASE i = Len(log) + 1
    BY <2>1, <2>2
  <2>3. CASE i \in 1..Len(log)
    BY <2>1, <2>3
  <2> QED BY <2>1, <2>2, <2>3
<1>2. \A i \in DOMAIN SubSeq(log, 1, n) : i \in DOMAIN log /\ SubSeq(log, 1, n)[i] = log[i]
  OBVIOUS
<1> QED BY <1>1, <1>2, SMTT(30) DEF Range

\* append_journal_member, completed or cut, adds its entry or a torn extent.
LEMMA AppendAdds ==
    ASSUME NEW d \in DiskState, NEW e \in JournalEntry, NEW s, e = Torn \/ e.meta = s
    PROVE  AddsOnly(d, AppendJournalMember(d, e), s)
<1>1. d.log \in Seq(JournalEntry) /\ Len(d.log) \in Int
  BY DEF DiskState
<1>2. Range(Append(d.log, e)) \subseteq Range(d.log) \cup {e}
  BY <1>1, LogRange
<1>3. AppendJournalMember(d, e).log = Append(d.log, e) /\ AppendJournalMember(d, e).slot = d.slot
  BY DEF AppendJournalMember, DiskState
<1> QED BY <1>2, <1>3 DEF AddsOnly, SlotStates

\* So does the loss of an unflushed entry.
LEMMA LoseAdds ==
    ASSUME NEW d \in DiskState, NEW how \in Losses, NEW s
    PROVE  AddsOnly(d, Lose(d, how), s)
<1> DEFINE front == SubSeq(d.log, 1, Len(d.log) - 1)
<1>1. d.log \in Seq(JournalEntry) /\ Len(d.log) - 1 \in Int /\ Len(d.log) - 1 <= Len(d.log)
  BY DEF DiskState
<1>2. front \in Seq(JournalEntry) /\ Range(front) \subseteq Range(d.log)
  <2>1. front \in Seq(JournalEntry)
    BY <1>1
  <2> QED BY <1>1, <2>1, LogRange, TornType
<1>3. Range(Append(front, Torn)) \subseteq Range(front) \cup {Torn}
  <2>1. 0 \in Int /\ 0 <= Len(front)
    BY <1>2
  <2> QED BY <1>2, <2>1, LogRange, TornType, Zenon
<1> HIDE DEF front
<1>4. /\ Lose(d, how).log \in {d.log, front, Append(front, Torn)}
      /\ Lose(d, how).slot = d.slot
  BY DEF Lose, Losses, DiskState, front
<1> QED BY <1>2, <1>3, <1>4, Zenon DEF AddsOnly, SlotStates

\* write_metadata_slot, completed or cut, adds at most the new checkpoint.
LEMMA SlotAdds ==
    ASSUME NEW d \in DiskState, NEW c \in DiskState, NEW i \in 0..1, NEW s, AddsOnly(d, c, s)
    PROVE  AddsOnly(d, WriteMetadataSlot(c, i, s), s) /\ AddsOnly(d, CutMetadataSlot(c, i), s)
<1>1. /\ WriteMetadataSlot(c, i, s).log = c.log /\ CutMetadataSlot(c, i).log = c.log
      /\ SlotStates(WriteMetadataSlot(c, i, s)) \subseteq SlotStates(c) \cup {s}
      /\ SlotStates(CutMetadataSlot(c, i)) \subseteq SlotStates(c)
  BY DEF WriteMetadataSlot, CutMetadataSlot, SlotStates, DiskState
<1> QED BY <1>1 DEF AddsOnly

\* So does write_metadata_member.
LEMMA MetadataMemberAdds ==
    ASSUME NEW d \in DiskState, NEW s \in Metadata
    PROVE  /\ AddsOnly(d, WriteMetadataMember(d, s), s)
           /\ \A c \in WriteMetadataMemberCut(d, s) : AddsOnly(d, c, s)
<1> DEFINE i == Txid(s) % 2
           j == (Txid(s) + 1) % 2
           first == WriteMetadataSlot(d, i, s)
<1>1. i \in 0..1 /\ j \in 0..1
  BY TxidParity
<1>2. AddsOnly(d, d, s)
  BY DEF AddsOnly
<1>3. first \in DiskState /\ AddsOnly(d, first, s) /\ AddsOnly(d, CutMetadataSlot(d, i), s)
  BY <1>1, <1>2, SlotType, SlotAdds, SMTT(30)
<1>4. AddsOnly(d, WriteMetadataSlot(first, j, s), s) /\ AddsOnly(d, CutMetadataSlot(first, j), s)
  BY <1>1, <1>3, SlotAdds
<1> QED BY <1>2, <1>3, <1>4 DEF WriteMetadataMember, WriteMetadataMemberCut

\* A journal reset adds nothing.
LEMMA ResetAdds ==
    ASSUME NEW d \in DiskState, NEW c \in DiskState, NEW s, AddsOnly(d, c, s)
    PROVE  AddsOnly(d, InitializeJournalRegion(c), s)
<1>1. InitializeJournalRegion(c).log = << >> /\ InitializeJournalRegion(c).slot = c.slot
  BY DEF InitializeJournalRegion, DiskState
<1>2. Range(<< >>) = {}
  BY DEF Range
<1> QED BY <1>1, <1>2 DEF AddsOnly, SlotStates

\* Whatever the fan-out in progress writes, completely or not, is for op.meta.
LEMMA WriteAdds ==
    ASSUME TypeOK, FanoutSound, op.step # "idle", NEW d \in DiskState
    PROVE  /\ AddsOnly(d, Completed(d), op.meta)
           /\ \A c \in Cut(d) : AddsOnly(d, c, op.meta)
<1>1. op.meta \in Metadata /\ op.entry \in JournalEntry
  BY DEF TypeOK, Operation
<1>2. AddsOnly(d, d, op.meta)
  BY DEF AddsOnly
<1>3. CASE op.step \in {"append", "certify"}
  <2>1. op.entry.meta = op.meta
    BY <1>3 DEF FanoutSound, SharedLock
  <2> QED BY <1>1, <1>2, <1>3, <2>1, AppendAdds, TornType, SMTT(30)
          DEF Completed, Cut, AppendJournalMemberCut
<1>4. CASE op.step = "flush"
  BY <1>2, <1>4, LoseAdds DEF Completed, Cut
<1>5. CASE op.step = "rollover"
  <2>1. WriteMetadataMember(d, op.meta) \in DiskState
    BY <1>1, MetadataMemberType, SMTT(30)
  <2>2. AddsOnly(d, CheckpointAndResetJournal(d, op.meta), op.meta)
    BY <1>1, <2>1, MetadataMemberAdds, ResetAdds DEF CheckpointAndResetJournal
  <2> QED BY <1>1, <1>5, <2>2, MetadataMemberAdds DEF Completed, Cut, CheckpointAndResetJournalCut
<1>6. CASE op.step \in {"copies", "replay"}
  BY <1>1, <1>6, MetadataMemberAdds DEF Completed, Cut
<1>7. CASE op.step \in {"reset", "stale"}
  BY <1>2, <1>7, ResetAdds DEF Completed, Cut
<1>8. CASE op.step = "clean"
  <2>1. Completed(d).log = d.log /\ Completed(d).slot = d.slot
    BY <1>8 DEF Completed, WriteSuperblockCleanState, DiskState
  <2> QED BY <1>2, <1>8, <2>1 DEF Cut, AddsOnly, SlotStates
<1> QED BY <1>3, <1>4, <1>5, <1>6, <1>7, <1>8, SMTT(30) DEF TypeOK, Operation

\* Only a member write of a fan-out, or a crash, changes a disk.
LEMMA DiskWriters ==
    ASSUME [Next]_vars, disk' # disk
    PROVE  Crash \/ \E m \in Members : MemberOk(m) \/ MemberFault(m)
<1>1. ~(BufferTransaction \/ Commit \/ CommitGroup \/ CommitCheckpoint \/ Event \/ Sync
        \/ Unmount)
  BY DEF BufferTransaction, Commit, CommitGroup, CommitCheckpoint, Event, Sync, Unmount,
         BeginAppend, BeginCopies
<1>2. ~\E P \in SUBSET Members : Open(P)
  BY Zenon DEF Open
<1>3. ~UnmountFails /\ ~ResetStaleJournals
  BY DEF UnmountFails, ExitCleanly, ResetStaleJournals
<1>4. ~\E m \in Members : MemberSkipped(m) \/ VerifyFails(m)
  BY Zenon DEF MemberSkipped, VerifyFails
<1>5. ~End
  <2>1. ~Acknowledge /\ ~Indeterminate /\ ~ExitCleanly /\ ~\E next : Continue(next)
    BY Zenon DEF Acknowledge, Indeterminate, ExitCleanly, Continue
  <2>2. ~\E c : Certify(c)
    BY <2>1 DEF Certify
  <2> QED BY <2>1, <2>2, ZenonT(30) DEF End, EndAppend, EndFlush, EndRollover, EndCertify, EndCopies,
                            EndUnmountCopies, EndReplay, EndReset, EndClean, EndStale
<1>6. ~UNCHANGED vars
  BY DEF vars
<1> QED BY <1>1, <1>2, <1>3, <1>4, <1>5, <1>6, SMTT(30) DEF Next

\* One step, fenced or not: every disk takes up at most what the fan-out in
\* progress writes.
LEMMA StepAdds ==
    ASSUME TypeOK, FanoutSound, [Next]_vars, NEW m \in Members
    PROVE  AddsOnly(disk[m], disk'[m], op.meta)
<1>1. AddsOnly(disk[m], disk[m], op.meta) /\ disk[m] \in DiskState
  BY DEF AddsOnly, TypeOK
<1>2. CASE disk' = disk
  BY <1>1, <1>2
<1>3. ASSUME NEW n \in Members, MemberOk(n) \/ MemberFault(n)
      PROVE  AddsOnly(disk[m], disk'[m], op.meta)
  <2>1. n \in op.todo
    BY <1>3, ZenonT(30) DEF MemberOk, MemberFault
  <2>2. PICK d \in Cut(disk[n]) \cup {Completed(disk[n])} : disk' = [disk EXCEPT ![n] = d]
    BY <1>3, Zenon DEF MemberOk, MemberFault, TypeOK
  <2>3. disk'[m] = IF n = m THEN d ELSE disk[m]
    BY <2>2 DEF TypeOK
  <2>4. op.step # "idle"
    BY <2>1, InProgress, SMTT(30)
  <2> QED BY <1>1, <2>2, <2>3, <2>4, WriteAdds, SMTT(30)
<1>4. CASE Crash
  <2>1. PICK how \in [Unflushed -> Losses], n \in Members :
        \E d \in (IF n \in op.todo \ Unflushed THEN Cut(disk[n]) ELSE {disk[n]}) :
           disk' = [k \in Members |-> IF k \in Unflushed THEN Lose(disk[k], how[k])
                                     ELSE IF k = n THEN d ELSE disk[k]]
    BY <1>4 DEF Crash
  <2>2. PICK d \in (IF n \in op.todo \ Unflushed THEN Cut(disk[n]) ELSE {disk[n]}) :
           disk'[m] = IF m \in Unflushed THEN Lose(disk[m], how[m])
                      ELSE IF m = n THEN d ELSE disk[m]
    BY <2>1, SMTT(30)
  <2>3. CASE m \in Unflushed
    <3>1. how[m] \in Losses
      BY <2>1, <2>3, SMTT(30)
    <3> QED BY <1>1, <2>2, <2>3, <3>1, LoseAdds, SMTT(30)
  <2>4. CASE m \notin Unflushed /\ m = n /\ n \in op.todo \ Unflushed
    <3>1. op.step # "idle"
      BY <2>4, InProgress
    <3> QED BY <1>1, <2>2, <2>4, <3>1, WriteAdds
  <2> QED BY <1>1, <2>2, <2>3, <2>4, SMTT(30)
<1> QED BY <1>2, <1>3, <1>4, DiskWriters, SMTT(30)

\* A step taken while no fan-out is in progress writes to no disk.
LEMMA IdleDisks ==
    ASSUME TypeOK, [Next]_vars, op.step = "idle", op.todo = {}
    PROVE  disk' = disk
<1>1. CASE Crash
  <2>1. Unflushed = {}
    BY DEF Unflushed
  <2> QED BY <1>1, <2>1 DEF Crash, TypeOK
<1>2. \A m \in Members : ~MemberOk(m) /\ ~MemberFault(m)
  BY DEF MemberOk, MemberFault
<1> QED BY <1>1, <1>2, DiskWriters, SMTT(30)

\* A step of a fenced mount.
LEMMA FenceStep ==
    ASSUME TypeOK, FanoutSound, [Next]_vars, fenced
    PROVE  /\ acked' \in {acked, live}
           /\ \A m \in Members :
                /\ SlotStates(disk'[m]) \subseteq SlotStates(disk[m]) \cup {live}
                /\ \A e \in Range(disk'[m].log) :
                     e \in Range(disk[m].log) \/ e = Torn \/ e.meta = live
<1>1. CASE op = Idle
  <2>1. op.step = "idle" /\ op.todo = {} /\ op.by = "none"
    BY <1>1 DEF Idle
  <2>2. UNCHANGED acked
    BY <2>1, AckActions
  <2>3. UNCHANGED disk
    BY <2>1, IdleDisks, SMTT(30)
  <2> QED BY <2>2, <2>3
<1>2. CASE op # Idle
  <2>1. op.meta = live
    BY <1>2 DEF FanoutSound, SharedLock
  <2>2. acked' \in {acked, live}
    BY <2>1, AckActions
  <2> QED BY <2>1, <2>2, StepAdds, SMTT(30) DEF AddsOnly
<1> QED BY <1>1, <1>2

\* Once the mount is fenced, whatever step follows, a crash included, puts no
\* transaction on a member and reports none durable: a commit, a sync or an
\* unmount is neither begun nor in progress, and an event or a journal reset that
\* is writes for the live state.
THEOREM FenceTheorem == Spec => FenceStopsTransactions
<1>1. TypeOK /\ FanoutSound /\ [Next]_vars =>
        [fenced =>
            /\ acked' \in {acked, live}
            /\ \A m \in Members :
                 /\ SlotStates(disk'[m]) \subseteq SlotStates(disk[m]) \cup {live}
                 /\ \A e \in Range(disk'[m].log) :
                      e \in Range(disk[m].log) \/ e = Torn \/ e.meta = live]_vars
  BY FenceStep
<1> QED BY FanoutInvariant, <1>1, PTL DEF Spec, FenceStopsTransactions

\* The step that fails to certify or to copy is the one that raises the fence.
LEMMA IndeterminateStep ==
    ASSUME ~Deferred, TypeOK, IndeterminateFences, [Next]_vars
    PROVE  IndeterminateFences'
<1>1. ASSUME UNCHANGED <<fenced, unresolved>> PROVE IndeterminateFences'
  BY <1>1 DEF IndeterminateFences
<1>2. ASSUME NEW bad, fenced' \in FenceAfterLoss(bad), UNCHANGED unresolved
      PROVE  IndeterminateFences'
  BY <1>2, Zenon DEF FenceAfterLoss, IndeterminateFences
<1>3. ASSUME NEW m \in Members, VerifyFails(m) PROVE IndeterminateFences'
  BY <1>2, <1>3 DEF VerifyFails
<1>4. CASE ResetStaleJournals
  BY <1>1, <1>4 DEF ResetStaleJournals
<1>5. ASSUME Exit PROVE IndeterminateFences'
  BY <1>5 DEF Exit, IndeterminateFences
<1>6. ASSUME Indeterminate PROVE IndeterminateFences'
  BY <1>6, Zenon DEF Indeterminate, IndeterminateFences
<1>7. ASSUME Ready, UNCHANGED unresolved PROVE IndeterminateFences'
  BY <1>7 DEF Ready, IndeterminateFences
<1>8. CASE BufferTransaction \/ Commit \/ CommitGroup \/ CommitCheckpoint \/ Event \/ Sync
            \/ Unmount
  BY <1>7, <1>8, ZenonT(30)
     DEF BufferTransaction, Commit, CommitGroup, CommitCheckpoint, Event, Sync, Unmount,
         BeginAppend, BeginCopies
<1>9. CASE UnmountFails \/ Crash
  BY <1>5, <1>9, SMTT(30) DEF UnmountFails, ExitCleanly, Crash
<1>10. ASSUME NEW m \in Members, MemberOk(m) \/ MemberFault(m) \/ MemberSkipped(m)
       PROVE  IndeterminateFences'
  BY <1>1, <1>10, ZenonT(30) DEF MemberOk, MemberFault, MemberSkipped
<1>11. ASSUME NEW P \in SUBSET Members, Open(P) PROVE IndeterminateFences'
  BY <1>1, <1>11 DEF Open
<1>12. ASSUME NEW next, Continue(next) PROVE IndeterminateFences'
  BY <1>1, <1>12 DEF Continue
<1>13. ASSUME NEW c, Certify(c) PROVE IndeterminateFences'
  BY <1>6, <1>12, <1>13, SMTT(30) DEF Certify
<1>14. CASE EndAppend \/ EndFlush \/ EndRollover \/ EndReplay \/ EndReset \/ EndStale
  BY <1>5, <1>12, <1>13, <1>14, Zenon
     DEF EndAppend, EndFlush, EndRollover, EndReplay, EndReset, EndStale, ExitCleanly
<1>15. CASE EndCertify \/ EndCopies
  BY <1>2, <1>6, <1>15, Zenon DEF EndCertify, EndCopies, Acknowledge
<1>16. CASE EndUnmountCopies \/ EndClean
  BY <1>1, <1>5, <1>16 DEF EndUnmountCopies, EndClean, ExitCleanly
<1>17. CASE UNCHANGED vars
  BY <1>1, <1>17 DEF vars
<1> QED BY <1>3, <1>4, <1>8, <1>9, <1>10, <1>11, <1>14, <1>15, <1>16, <1>17 DEF Next, End

\* Without group commit, an IndeterminateCommit always leaves the mount fenced,
\* as transaction_error_is_committed says.  (With it, commit_deferred_locked
\* does not, which the RawStoreGroupFence run shows.)
THEOREM IndeterminateTheorem ==
    ASSUME ~Deferred
    PROVE  Spec => []IndeterminateFences
<1>1. Init => IndeterminateFences
  BY DEF Init, IndeterminateFences
<1>2. TypeOK /\ IndeterminateFences /\ [Next]_vars => IndeterminateFences'
  BY IndeterminateStep
<1> QED BY TypeCorrect, <1>1, <1>2, PTL DEF Spec

=============================================================================
