------------------------------ MODULE RawStore ------------------------------
(***************************************************************************)
(* The metadata path of a raw/loop pool (storage/raw/store.rs and the      *)
(* commit functions of volume/mod.rs that drive it).  Every member disk    *)
(* holds two checkpoint slots and an append-only journal.  A transaction   *)
(* is fanned out member by member and is acknowledged once a majority has  *)
(* the record and a majority has a certificate naming it.  A full journal  *)
(* is rolled over into the checkpoint slots.  Writable open selects a      *)
(* state from whatever members are present, checkpoints it and resets the  *)
(* journals.  A crash may fall between any two member writes, and inside   *)
(* one.                                                                    *)
(*                                                                         *)
(* A metadata state is the sequence of the transactions it contains, so    *)
(* its txid is its length, equality of sequences stands for equality of    *)
(* meta_hash, and "s contains everything t does" is Contains(s, t).        *)
(***************************************************************************)
EXTENDS Integers, Sequences, FiniteSets, Functions

CONSTANTS
    Members,            \* the disk ids named by the metadata, none Removed
    JournalLen,         \* journal region length, in entries
    CheckpointInterval, \* txids between two full records (journal.rs)
    Deferred,           \* config.defer_metadata_commit
    DeferJournalFlush,  \* config.defer_journal_flush
    Incidents,          \* "crash"; member I/O errors: "fatal" ones, which quarantine
                        \* the member, and "transient" (DeviceBusy); "verify", a shard
                        \* the read-after-write verifier finds damaged
    MaxAbsent,          \* bound: members missing from one open
    MaxGroup,           \* config.deferred_commit_max_transactions
    EventsInGroup,      \* bound: events while a group is uncommitted
    MaxTxn,             \* bound: transactions attempted
    MaxIncidents        \* bound: incidents of any kind

ASSUME RawStoreAssumption ==
    /\ IsFiniteSet(Members) /\ Members # {}
    /\ JournalLen \in Nat /\ CheckpointInterval \in Nat \ {0}
    /\ Deferred \in BOOLEAN /\ DeferJournalFlush \in BOOLEAN /\ EventsInGroup \in BOOLEAN
    /\ Incidents \subseteq {"crash", "fatal", "transient", "verify"}
    /\ MaxAbsent \in Nat /\ MaxGroup \in Nat
    /\ MaxTxn \in Nat /\ MaxIncidents \in Nat

VARIABLES
    disk,       \* member -> its checkpoint slots, journal and clean flag
    phase,      \* "down", "opening" or "up"
    scanned,    \* members found by the open in progress or last completed
    quar,       \* members this mount no longer uses (quarantined_devices)
    broken,     \* members the mount's GuardedBackend has fenced off
    fenced,     \* write_fence
    live,       \* the mount's in-memory metadata
    durable,    \* durable_metadata: what the next group commit chains from
    dirty,      \* raw_uncommitted_metadata_dirty: no delta may start from live (a
                \* read may set it at any time, so FALSE allows either choice)
    op,         \* the fan-out in progress
    acked,      \* history: the newest state a caller was told is durable
    unresolved, \* history: this mount returned IndeterminateCommit
    txns,       \* transactions attempted
    incidents   \* incidents so far

vars == <<disk, phase, scanned, quar, broken, fenced, live, durable, dirty, op, acked,
          unresolved, txns, incidents>>

Metadata == Seq(Nat)

Txid(s) == Len(s)

Contains(s, t) == Len(t) <= Len(s) /\ SubSeq(s, 1, Len(t)) = t

\* metadata_quorum_requirement
Need == Cardinality(Members) \div 2 + 1

----------------------------------------------------------------------------
(* Journal entries.  prev holds the previous_meta_hash a delta must chain  *)
(* from and is empty in a full record.  "cert" certifies a journal record  *)
(* (the one with the same meta and prev), "ckpt" a checkpoint; "torn" is   *)
(* an extent the header covers whose payload does not verify.              *)

Entry(kind, s, p) == [kind |-> kind, meta |-> s, prev |-> p]

Torn == Entry("torn", << >>, {})

\* build_journal_entry: a full snapshot unless a delta base was given and
\* the txid is not due for a checkpoint.
BuildJournalEntry(kind, s, p) ==
    IF kind = "delta" /\ Txid(s) % CheckpointInterval # 0
    THEN Entry("delta", s, {p})
    ELSE Entry("full", s, {})

\* build_quorum_commit_entry
BuildQuorumCommitEntry(record, checkpoint) ==
    IF checkpoint THEN Entry("ckpt", record.meta, {})
    ELSE Entry("cert", record.meta, record.prev)

----------------------------------------------------------------------------
(* One member's disk: what a completed write leaves and what a write that  *)
(* failed or was cut by a crash may leave.                                 *)

\* read_metadata_candidates: a slot that fails the length, page or checksum tests
\* of read_metadata_candidate has no state.
SlotStates(d) == d.slot[0] \cup d.slot[1]

\* append_journal_member: entry, then header, then flush
AppendJournalMember(d, e) == [d EXCEPT !.log = Append(@, e)]

AppendJournalMemberCut(d, e) ==
    {d, AppendJournalMember(d, e), AppendJournalMember(d, Torn)}

\* write_metadata_slot: the body is overwritten and flushed under the old
\* header, which leaves no valid checkpoint until the new header is flushed.
WriteMetadataSlot(d, i, s) == [d EXCEPT !.slot[i] = {s}]
CutMetadataSlot(d, i) == [d EXCEPT !.slot[i] = {}]

\* write_metadata_member: slot txid % 2, then its mirror
WriteMetadataMember(d, s) ==
    WriteMetadataSlot(WriteMetadataSlot(d, Txid(s) % 2, s), (Txid(s) + 1) % 2, s)

WriteMetadataMemberCut(d, s) ==
    LET first == WriteMetadataSlot(d, Txid(s) % 2, s) IN
    {d, CutMetadataSlot(d, Txid(s) % 2),
     first, CutMetadataSlot(first, (Txid(s) + 1) % 2),
     WriteMetadataMember(d, s)}

\* initialize_journal_region: only the write offset of the header is reset
InitializeJournalRegion(d) == [d EXCEPT !.log = << >>]

\* Mutant: the journal is reset first.
CheckpointAndResetJournalCut_ResetFirst(d, s) ==
    {d} \cup WriteMetadataMemberCut(InitializeJournalRegion(d), s)

\* checkpoint_and_reset_journal
CheckpointAndResetJournal(d, s) == InitializeJournalRegion(WriteMetadataMember(d, s))

CheckpointAndResetJournalCut(d, s) ==
    WriteMetadataMemberCut(d, s) \cup {CheckpointAndResetJournal(d, s)}

----------------------------------------------------------------------------
(* The journal tip checks that precede an append.                          *)

Tip(d) == d.log[Len(d.log)]

\* journal_tip_accepts_transaction (journal_tip_identity fails on an invalid
\* entry, so a member with a torn tail takes no part)
TipAccepts(d, s, allowSameTxid) ==
    IF d.log = << >> THEN TRUE
    ELSE /\ Tip(d).kind # "torn"
         /\ \/ Txid(Tip(d).meta) < Txid(s)
            \/ /\ Txid(Tip(d).meta) = Txid(s)
               /\ allowSameTxid \/ Tip(d).meta = s

\* journal_append_position: the record and its certificate must both fit
NeedsRollover(d) == Len(d.log) + 2 > JournalLen

----------------------------------------------------------------------------
(* Recovery (load_or_recover) from the members of P.  An optional state is *)
(* a set with at most one element.                                         *)

\* Mutant: recovery prefers the oldest candidate.
Newest_Oldest(S) == {s \in S : \A t \in S : Txid(s) <= Txid(t)}

Newest(S) == {s \in S : \A t \in S : Txid(t) <= Txid(s)}

\* Mutant: a checkpoint must be on every member.
QuorumCheckpoints_Unanimous(P) ==
    Newest({s \in UNION {SlotStates(disk[m]) : m \in P} :
               \A m \in Members : m \in P /\ s \in SlotStates(disk[m])})

\* select_quorum_metadata_candidate
QuorumCheckpoints(P) ==
    Newest({s \in UNION {SlotStates(disk[m]) : m \in P} :
               Cardinality({m \in P : s \in SlotStates(disk[m])}) >= Need})

\* One turn of the scan in read_latest_journal_metadata.
ReplayEntry(r, e, own, base) ==
    LET read == [r EXCEPT !.tip = Txid(e.meta)]
        bad == [read EXCEPT !.valid = FALSE]
        known == [read EXCEPT !.records = @ \cup {e}]
        newer == [known EXCEPT !.latest = {e.meta}, !.candidates = @ \cup {e.meta}]
        stale == \E l \in r.latest : Txid(e.meta) <= Txid(l)
    IN  CASE ~r.valid -> r
          [] e.kind = "torn" -> [r EXCEPT !.valid = FALSE]
          [] e.kind \in {"cert", "ckpt"} ->
               IF \E b \in base : Txid(e.meta) <= Txid(b) THEN read
               ELSE IF \/ e.kind = "ckpt" /\ e.meta \in own
                       \/ e.kind = "cert" /\ \E k \in r.records :
                                               k.meta = e.meta /\ k.prev = e.prev
               THEN [read EXCEPT !.certified = @ \cup {e.meta}]
               ELSE bad
          [] e.kind = "full" -> IF stale THEN known ELSE newer
          [] e.kind = "delta" ->
               IF r.latest = {} THEN bad
               ELSE IF stale THEN read
               ELSE IF e.prev = r.latest THEN newer ELSE bad

\* The whole journal of one member, replayed from the selected checkpoint.
ReplayMember(d, base) ==
    LET scan[i \in 0..Len(d.log)] ==
            IF i = 0
            THEN [valid |-> TRUE, tip |-> 0, latest |-> base, records |-> {},
                  candidates |-> {}, certified |-> {}]
            ELSE ReplayEntry(scan[i - 1], d.log[i], SlotStates(d), base)
    IN  scan[Len(d.log)]

\* Every state some member of P has a copy of.
StatesOn(P) ==
    UNION {SlotStates(disk[m]) \cup {e.meta : e \in Range(disk[m].log)} : m \in P}

\* Mutant: certificates are ignored, only records replayed by a majority count.
JournalStates_Uncertified(P, base) ==
    LET replay == [m \in P |-> ReplayMember(disk[m], base)]
    IN  Newest({s \in StatesOn(P) :
            Cardinality({m \in P : replay[m].valid /\ s \in replay[m].candidates}) >= Need})

\* read_latest_journal_metadata: records supported by a majority of clean
\* journals, and certified states while a majority is present.
JournalStates(P, base) ==
    LET replay == [m \in P |-> ReplayMember(disk[m], base)]
        supported == {s \in StatesOn(P) :
            Cardinality({m \in P : replay[m].valid /\ s \in replay[m].candidates}) >= Need}
        certified == {s \in StatesOn(P) :
            Cardinality(P) >= Need /\ \E m \in P : s \in replay[m].certified}
    IN  IF \E c \in certified : \A s \in supported : Txid(c) > Txid(s)
        THEN Newest(certified) ELSE Newest(supported)

RecoverFrom(P, base) ==
    LET newer == {s \in JournalStates(P, base) : \A b \in base : Txid(s) > Txid(b)}
    IN  IF newer # {} THEN [meta : newer, replayed : {TRUE}]
                      ELSE [meta : base, replayed : {FALSE}]

\* Every outcome of load_or_recover; empty when it returns an error.
Recover(P) ==
    IF QuorumCheckpoints(P) = {} THEN RecoverFrom(P, {})
    ELSE UNION {RecoverFrom(P, {b}) : b \in QuorumCheckpoints(P)}

----------------------------------------------------------------------------
(* A fan-out visits the members in op.todo one at a time, in any order     *)
(* (the superblock order is the order of the paths given on the command    *)
(* line).  op.by says which caller handles the outcome; op.bad is the      *)
(* report's unavailable_devices.  op.fresh: the mount's backend does not   *)
(* cover every member, so the call runs on a backend opened for it alone   *)
(* (metadata_block_backend_locked), which knows nothing of broken.         *)

Idle == [step |-> "idle", by |-> "none", meta |-> << >>, entry |-> Torn,
         todo |-> {}, done |-> {}, bad |-> {}, fresh |-> FALSE]

Start(step, by, s, e, todo) ==
    [step |-> step, by |-> by, meta |-> s, entry |-> e,
     todo |-> todo, done |-> {}, bad |-> {}, fresh |-> FALSE]

\* The next phase of the same call, for the members this one succeeded on.
Proceed(step, e) == [op EXCEPT !.step = step, !.entry = e, !.todo = op.done, !.done = {}]

\* Members whose I/O fails at once with DeviceFailed.
Dead(fresh) == IF fresh THEN {} ELSE broken

\* Mutant: a writable open leaves the clean flag of the last unmount in place.
WriteSuperblockCleanState_OpenSkips(d) == [d EXCEPT !.clean = @ \/ op.by = "unmount"]

\* write_superblock_clean_state_member
WriteSuperblockCleanState(d) == [d EXCEPT !.clean = (op.by = "unmount")]

\* What a completed member write leaves on the member's disk.
Completed(d) ==
    CASE op.step \in {"append", "certify"} -> AppendJournalMember(d, op.entry)
      [] op.step = "flush" -> d
      [] op.step = "rollover" -> CheckpointAndResetJournal(d, op.meta)
      [] op.step \in {"copies", "replay"} -> WriteMetadataMember(d, op.meta)
      [] op.step \in {"reset", "stale"} -> InitializeJournalRegion(d)
      [] op.step = "clean" -> WriteSuperblockCleanState(d)

\* An appended entry that was not flushed may be lost or torn.
Losses == {"kept", "lost", "torn"}

Lose(d, how) ==
    CASE how = "kept" -> d
      [] how = "lost" -> [d EXCEPT !.log = SubSeq(@, 1, Len(@) - 1)]
      [] how = "torn" -> [d EXCEPT !.log = Append(SubSeq(@, 1, Len(@) - 1), Torn)]

\* What a member write that failed or was cut by a crash may leave.
Cut(d) ==
    CASE op.step \in {"append", "certify"} -> AppendJournalMemberCut(d, op.entry)
      [] op.step = "flush" -> {Lose(d, how) : how \in Losses}
      [] op.step = "rollover" -> CheckpointAndResetJournalCut(d, op.meta)
      [] op.step \in {"copies", "replay"} -> WriteMetadataMemberCut(d, op.meta)
      [] op.step \in {"reset", "stale", "clean"} -> {d, Completed(d)}

\* What a failure of the members of bad does to them: a fatal error fences them
\* off, a transient one does not.
Lost(bad) == IF bad = {} THEN {{}}
             ELSE {IF kind = "fatal" THEN bad ELSE {} : kind \in Incidents \cap {"fatal", "transient"}}

MemberOk(m) ==
    /\ m \in op.todo \ Dead(op.fresh)
    /\ disk' = [disk EXCEPT ![m] = Completed(@)]
    /\ op' = [op EXCEPT !.todo = @ \ {m}, !.done = @ \cup {m}]
    /\ UNCHANGED <<phase, scanned, quar, broken, fenced, live, durable, dirty, acked,
                   unresolved, txns, incidents>>

\* QuorumWriteReport::record_failure.  A fatal error (timeout, EIO) fences the
\* member off in the GuardedBackend in use; DeviceBusy leaves it in use.
MemberFault(m) ==
    /\ m \in op.todo \ Dead(op.fresh)
    /\ incidents < MaxIncidents
    /\ incidents' = incidents + 1
    /\ \E d \in Cut(disk[m]) : disk' = [disk EXCEPT ![m] = d]
    /\ \E lost \in Lost({m}) :
         /\ op' = [op EXCEPT !.todo = @ \ {m}, !.bad = @ \cup lost]
         /\ broken' = IF op.fresh THEN broken ELSE broken \cup lost
    /\ UNCHANGED <<phase, scanned, quar, fenced, live, durable, dirty, acked,
                   unresolved, txns>>

\* A write to a member that is already fenced off never reaches the device.
MemberSkipped(m) ==
    /\ m \in op.todo \cap Dead(op.fresh)
    /\ op' = [op EXCEPT !.todo = @ \ {m}, !.bad = @ \cup {m}]
    /\ UNCHANGED <<disk, phase, scanned, quar, broken, fenced, live, durable, dirty,
                   acked, unresolved, txns, incidents>>

----------------------------------------------------------------------------
(* Outcomes.                                                               *)

\* The write fence after validate_data_durability_snapshot has counted the
\* members of bad as unavailable.  It fails when a stripe has lost more shards
\* than its layout has parity; the model has no stripes, so either may happen.
FenceAfterLoss(bad) == IF bad = {} THEN {fenced} ELSE {fenced, TRUE}

\* The fan-out reached its quorum: op.meta is durable and the failed members are
\* quarantined (apply_quorum_write_report).  The caller gets Ok, or, when that
\* costs data its durability, CommittedDurabilityLoss and a fenced mount.
Acknowledge ==
    /\ acked' = op.meta
    /\ fenced' \in FenceAfterLoss(op.bad)
    /\ live' = op.meta
    /\ durable' = (IF op.by = "event" THEN durable ELSE op.meta)
    /\ dirty' = (dirty /\ op.by = "event")
    /\ quar' = quar \cup op.bad
    /\ op' = Idle
    /\ UNCHANGED <<disk, phase, scanned, broken, unresolved, txns, incidents>>

\* Mutant: the mount stays writable after an indeterminate commit.
Indeterminate_Unfenced ==
    /\ live' = op.meta
    /\ durable' = (IF op.by = "commit" THEN op.meta ELSE durable)
    /\ dirty' = (dirty /\ op.by # "commit")
    /\ unresolved' = TRUE
    /\ op' = Idle
    /\ UNCHANGED <<disk, phase, scanned, quar, broken, fenced, acked, txns, incidents>>

\* IndeterminateCommit.  The live metadata keeps the new state.  Every
\* caller fences the mount except commit_deferred_locked.
Indeterminate ==
    /\ live' = op.meta
    /\ durable' = (IF op.by = "commit" THEN op.meta ELSE durable)
    /\ dirty' = (dirty /\ op.by # "commit")
    /\ fenced' = (fenced \/ ~(Deferred /\ op.by = "commit"))
    /\ unresolved' = TRUE
    /\ op' = Idle
    /\ UNCHANGED <<disk, phase, scanned, quar, broken, acked, txns, incidents>>

Continue(next) ==
    /\ op' = next
    /\ UNCHANGED <<disk, phase, scanned, quar, broken, fenced, live, durable, dirty,
                   acked, unresolved, txns, incidents>>

\* The process ends, or the open fails: nothing volatile is left.
Exit ==
    /\ phase' = "down"
    /\ scanned' = {} /\ quar' = {} /\ broken' = {}
    /\ live' = << >> /\ durable' = << >> /\ dirty' = FALSE /\ op' = Idle
    /\ fenced' = FALSE /\ unresolved' = FALSE

ExitCleanly == Exit /\ UNCHANGED <<disk, acked, txns, incidents>>

----------------------------------------------------------------------------
(* Ends of the fan-out phases.                                             *)

\* Mutant: half of the members is taken for a majority.
Quorum_Half == 2 * Cardinality(op.done) + 1 >= Cardinality(Members)

Quorum == Cardinality(op.done) >= Need

Certify(checkpoint) ==
    IF Quorum
    THEN Continue(Proceed("certify", BuildQuorumCommitEntry(op.entry, checkpoint)))
    ELSE Indeterminate

\* Mutant: the certificate does not wait for a majority of records.
EndAppend_Early ==
    /\ op.step = "append" /\ op.done # {}
    /\ Continue(Proceed("certify", BuildQuorumCommitEntry(op.entry, FALSE)))

EndAppend ==
    /\ op.step = "append" /\ op.todo = {}
    /\ IF DeferJournalFlush THEN Continue(Proceed("flush", op.entry)) ELSE Certify(FALSE)

EndFlush == op.step = "flush" /\ op.todo = {} /\ Certify(FALSE)

EndRollover == op.step = "rollover" /\ op.todo = {} /\ Certify(TRUE)

EndCertify ==
    /\ op.step = "certify" /\ op.todo = {}
    /\ IF Quorum THEN Acknowledge ELSE Indeterminate

\* write_metadata_copies_quorum for a commit or a sync
EndCopies ==
    /\ op.step = "copies" /\ op.by # "unmount" /\ op.todo = {}
    /\ IF Quorum THEN Acknowledge ELSE Indeterminate

\* ... and for a clean unmount, which then marks the remaining members clean
\* unless a CommittedDurabilityLoss ends it first
EndUnmountCopies ==
    /\ op.step = "copies" /\ op.by = "unmount" /\ op.todo = {}
    /\ \/ /\ Quorum
          /\ acked' = op.meta
          /\ quar' = quar \cup op.bad
          /\ op' = [Start("clean", "unmount", op.meta, Torn, Members \ quar')
                    EXCEPT !.fresh = op.fresh]
          /\ UNCHANGED <<disk, phase, scanned, broken, fenced, live, durable, dirty,
                         unresolved, txns, incidents>>
       \/ (~Quorum \/ op.bad # {}) /\ ExitCleanly

EndReplay ==
    /\ op.step = "replay" /\ op.todo = {}
    /\ IF Quorum THEN Continue(Proceed("reset", Torn)) ELSE ExitCleanly

EndReset ==
    /\ op.step = "reset" /\ op.todo = {}
    /\ Continue(Start("clean", "open", op.meta, Torn, scanned))

\* The last step of a writable open (superblocks marked dirty on a quorum)
\* and of a clean unmount.
EndClean ==
    /\ op.step = "clean" /\ op.todo = {}
    /\ IF op.by = "open" /\ Quorum
       THEN /\ phase' = "up" /\ live' = op.meta /\ durable' = op.meta
            /\ acked' = op.meta /\ op' = Idle
            /\ UNCHANGED <<disk, scanned, quar, broken, fenced, dirty, unresolved, txns,
                           incidents>>
       ELSE ExitCleanly

\* The end of reset_stale_journals, which only reports what it did.
EndStale == op.step = "stale" /\ op.todo = {} /\ Continue(Idle)

----------------------------------------------------------------------------
(* Operations of a mounted pool.                                           *)

\* A call may begin that writes (ensure_block_backend_writable_locked).
Ready == phase = "up" /\ op = Idle /\ ~fenced

\* metadata_superblocks_locked: a member the open did not find is inspected
\* again; it takes part if it is back and is quarantined if it is not.
Absent(back) == Members \ (scanned \cup back)

\* The in-memory metadata after a commit that failed before any write: the
\* caller's snapshot, or what restore_raw_metadata_locked reads back (the
\* uncommitted state stays if that fails).  In a group commit only the caller
\* of the last operation may put its own snapshot back.
RollBack(by, s, P) ==
    \/ UNCHANGED <<live, durable, dirty>>
    \/ Deferred /\ live' = s /\ UNCHANGED <<durable, dirty>>
    \/ /\ ~Deferred /\ by = "commit"
       /\ IF Recover(P) = {} THEN live' = s /\ UNCHANGED <<durable, dirty>>
          ELSE \E r \in Recover(P) : live' = r.meta /\ durable' = r.meta /\ dirty' = TRUE

Superblocks(back) == Members \ (quar \cup Absent(back))

\* A commit whose data has lost its durability is refused before any write.
Refused(by) == by = "commit" /\ quar' # {}

\* append_journal_quorum up to its first write, on the given superblocks.  bad
\* is the set of members whose journal could not be read.
TryAppend(by, s, e, superblocks, fresh, bad, lost) ==
    LET dead == superblocks \cap Dead(fresh)
        positions == {m \in superblocks \ (bad \cup dead) :
                        TipAccepts(disk[m], s, by = "event")}
        step == IF \E m \in positions : NeedsRollover(disk[m]) THEN "rollover" ELSE "append"
    IN  /\ bad \subseteq superblocks \ dead
        /\ broken' = IF fresh THEN broken ELSE broken \cup lost
        /\ IF Cardinality(superblocks) >= Need /\ Cardinality(positions) >= Need
           THEN /\ op' = [Start(step, by, s, e, positions)
                          EXCEPT !.bad = dead \cup lost, !.fresh = fresh]
                /\ UNCHANGED <<fenced, live, durable, dirty>>
           ELSE /\ fenced' = (Cardinality(superblocks) < Need \/ dead \cup lost # {})
                /\ RollBack(by, s, superblocks)
                /\ UNCHANGED op

\* The durability check that precedes it in commit_locked_with_previous and
\* commit_deferred_locked fails: the mount is fenced.
RefuseAppend(by, s, superblocks) ==
    /\ Refused(by)
    /\ fenced' = TRUE
    /\ RollBack(by, s, superblocks)
    /\ UNCHANGED <<broken, op>>

BeginAppend(by, s, e) ==
    /\ Ready
    /\ \E back \in SUBSET (Members \ (scanned \cup quar)), bad \in SUBSET Members :
         /\ incidents' = incidents + Cardinality(bad) /\ incidents' <= MaxIncidents
         /\ quar' = quar \cup Absent(back)
         /\ \/ \E lost \in Lost(bad) :
                 TryAppend(by, s, e, Superblocks(back), back # {}, bad, lost)
            \/ bad = {} /\ RefuseAppend(by, s, Superblocks(back))
    /\ UNCHANGED <<disk, phase, scanned, acked, unresolved>>

\* write_metadata_copies_quorum up to its first write, and the durability check
\* of a commit before it
TryCopies(by, s, superblocks, fresh) ==
    \/ /\ Cardinality(superblocks) >= Need
       /\ op' = [Start("copies", by, s, Torn, superblocks) EXCEPT !.fresh = fresh]
       /\ UNCHANGED <<fenced, live>>
    \/ /\ Cardinality(superblocks) < Need \/ Refused(by)
       /\ fenced' = TRUE /\ live' \in {live, s} /\ UNCHANGED op

BeginCopies(by, s) ==
    /\ Ready
    /\ \E back \in SUBSET (Members \ (scanned \cup quar)) :
         /\ quar' = quar \cup Absent(back)
         /\ TryCopies(by, s, Superblocks(back), back # {})
    /\ UNCHANGED <<disk, phase, scanned, broken, durable, dirty, acked, unresolved,
                   incidents>>

\* Mutant: the transaction counter is stepped the wrong way.
Mutated_Underflow(n) == live \o [i \in 1..n |-> txns - i]

\* The live metadata with n more transactions.
Mutated(n) == live \o [i \in 1..n |-> txns + i]

\* commit_locked_with_previous in group mode: the operation stays in memory
\* while the group is neither full nor due.
BufferTransaction ==
    /\ Deferred /\ Ready
    /\ txns < MaxTxn
    /\ Txid(live) + 1 < Txid(durable) + MaxGroup
    /\ live' = Mutated(1) /\ txns' = txns + 1
    /\ UNCHANGED <<disk, phase, scanned, quar, broken, fenced, durable, dirty, op,
                   acked, unresolved, incidents>>

\* commit_locked_with_previous
Commit ==
    /\ ~Deferred /\ txns < MaxTxn
    /\ txns' = txns + 1
    /\ \E kind \in (IF dirty THEN {"full"} ELSE {"full", "delta"}) :
         BeginAppend("commit", Mutated(1), BuildJournalEntry(kind, Mutated(1), live))

\* commit_deferred_locked, from sync or the timer, or with the operation that
\* fills the group or finds it due.
CommitGroup ==
    \E n \in 0..1 :
        /\ Deferred /\ txns + n <= MaxTxn
        /\ txns' = txns + n
        /\ Txid(durable) < Txid(Mutated(n))
        /\ BeginAppend("commit", Mutated(n), BuildJournalEntry("delta", Mutated(n), durable))

\* commit_deferred_locked with raw_uncommitted_metadata_dirty (any read sets
\* it): the group is committed by writing the checkpoint copies.
CommitCheckpoint ==
    \E n \in 0..1 :
        /\ Deferred /\ txns + n <= MaxTxn
        /\ txns' = txns + n
        /\ BeginCopies("commit", Mutated(n))

\* journal_locked: a snapshot, an autopilot run or a deferred self-heal.  The
\* first two hold the metadata lock for reading only; RawStoreEvents lets two
\* of them overlap, here they follow one another.
Event ==
    /\ EventsInGroup \/ live = durable
    /\ BeginAppend("event", live, BuildJournalEntry("full", live, live))
    /\ UNCHANGED txns

\* sync without group commit
Sync == ~Deferred /\ BeginCopies("sync", live) /\ UNCHANGED txns

\* mark_clean_unmount (from Drop): sync, then the clean flags.  In group mode
\* the group has been committed by a CommitGroup or CommitCheckpoint.
Unmount ==
    /\ Deferred => live = durable
    /\ BeginCopies("unmount", live)
    /\ UNCHANGED txns

\* Drop ignores the error of a mark_clean_unmount whose sync fails: on a fenced
\* mount, or when the group it begins with cannot be committed, which takes an
\* I/O error or a journal torn by a crash.
UnmountFails ==
    /\ phase = "up" /\ op = Idle
    /\ \/ fenced
       \/ Deferred /\ incidents > 0 /\ (unresolved \/ live # durable)
    /\ ExitCleanly

\* The journals reset_stale_journals resets, of the members in R that it can
\* read: those with an invalid tail, if no replay is pending and none of them
\* has a record newer than the live state, on members that hold the checkpoint
\* of that state (reset_journals_after_checkpoint).
StaleJournals(R) ==
    LET base == QuorumCheckpoints(R)
        invalid == {m \in R : ~ReplayMember(disk[m], base).valid}
    IN  {m \in invalid :
            /\ base # {} /\ \A r \in RecoverFrom(R, base) : ~r.replayed
            /\ \A n \in invalid : ReplayMember(disk[n], base).tip <= Txid(live)
            /\ live \in SlotStates(disk[m])}

\* reset_stale_journals, with its audit.  It holds the metadata lock for reading
\* and does not look at the write fence.
ResetStaleJournals ==
    /\ phase = "up" /\ op = Idle
    /\ \E back \in SUBSET (Members \ (scanned \cup quar)) :
         LET stale == StaleJournals(Superblocks(back) \ Dead(back # {}))
         IN  /\ stale # {}
             /\ quar' = quar \cup Absent(back)
             /\ op' = [Start("stale", "repair", live, Torn, stale)
                       EXCEPT !.fresh = ~(stale \subseteq scanned)]
    /\ UNCHANGED <<disk, phase, scanned, broken, fenced, live, durable, dirty, acked,
                   unresolved, txns, incidents>>

\* A call in progress that holds the metadata lock for reading.
SharedLock == op.by \in {"event", "repair"}

\* Mutant: the verifier decides without the metadata lock.
VerifyFails_Unlocked(m) ==
    /\ phase = "up"
    /\ "verify" \in Incidents /\ incidents < MaxIncidents
    /\ incidents' = incidents + 1
    /\ quar' = quar \cup {m}
    /\ fenced' \in FenceAfterLoss({m})
    /\ broken' \in {broken, broken \cup {m}}
    /\ UNCHANGED <<disk, phase, scanned, live, durable, dirty, op, acked, unresolved, txns>>

\* The verifier thread gives up on a shard of m: it quarantines m and may fence
\* the mount (m is also broken if it was a read that failed).  It takes the
\* metadata lock for reading, so no commit, sync or unmount is in progress.
VerifyFails(m) ==
    /\ phase = "up" /\ (op = Idle \/ SharedLock)
    /\ "verify" \in Incidents /\ incidents < MaxIncidents
    /\ incidents' = incidents + 1
    /\ quar' = quar \cup {m}
    /\ fenced' \in FenceAfterLoss({m})
    /\ broken' \in {broken, broken \cup {m}}
    /\ UNCHANGED <<disk, phase, scanned, live, durable, dirty, op, acked, unresolved, txns>>

----------------------------------------------------------------------------
(* Open, crash, and the specification.                                     *)

\* open_pool for writing with the members of P
Open(P) ==
    /\ phase = "down"
    /\ Cardinality(Members \ P) <= MaxAbsent
    /\ \E r \in Recover(P) :
         op' = Start(IF r.replayed THEN "replay" ELSE "clean", "open", r.meta, Torn, P)
    /\ Cardinality(P) >= Need
    /\ phase' = "opening" /\ scanned' = P
    /\ UNCHANGED <<disk, quar, broken, fenced, live, durable, dirty, acked, unresolved,
                   txns, incidents>>

\* Members whose last journal entry has not been flushed.
Unflushed == CASE op.step = "flush" -> op.todo
               [] op.step = "append" /\ DeferJournalFlush -> op.done
               [] OTHER -> {}

\* The unflushed entries and one write in progress are at risk.
Crash ==
    /\ phase # "down"
    /\ "crash" \in Incidents /\ incidents < MaxIncidents
    /\ incidents' = incidents + 1
    /\ \E how \in [Unflushed -> Losses], m \in Members :
       \E d \in (IF m \in op.todo \ Unflushed THEN Cut(disk[m]) ELSE {disk[m]}) :
          disk' = [n \in Members |-> IF n \in Unflushed THEN Lose(disk[n], how[n])
                                    ELSE IF n = m THEN d ELSE disk[n]]
    /\ Exit
    /\ UNCHANGED <<acked, txns>>

\* initialize_pool: both slots hold the first metadata, the journal its record
MkfsDisk ==
    [slot |-> [i \in 0..1 |-> {<< >>}], log |-> <<Entry("full", << >>, {})>>,
     clean |-> TRUE]

Init ==
    /\ disk = [m \in Members |-> MkfsDisk]
    /\ phase = "down" /\ scanned = {} /\ quar = {} /\ broken = {} /\ fenced = FALSE
    /\ live = << >> /\ durable = << >> /\ dirty = FALSE /\ op = Idle
    /\ acked = << >> /\ unresolved = FALSE
    /\ txns = 0 /\ incidents = 0

End == \/ EndAppend \/ EndFlush \/ EndRollover \/ EndCertify
       \/ EndCopies \/ EndUnmountCopies \/ EndReplay \/ EndReset \/ EndClean
       \/ EndStale

Next ==
    \/ \E P \in SUBSET Members : Open(P)
    \/ BufferTransaction \/ Commit \/ CommitGroup \/ CommitCheckpoint
    \/ Event \/ Sync \/ Unmount \/ UnmountFails \/ ResetStaleJournals
    \/ \E m \in Members : \/ MemberOk(m) \/ MemberFault(m) \/ MemberSkipped(m)
                       \/ VerifyFails(m)
    \/ End
    \/ Crash

Spec == Init /\ [][Next]_vars

----------------------------------------------------------------------------
(* Properties.                                                             *)

JournalEntry ==
    [kind : {"full", "delta", "cert", "ckpt", "torn"}, meta : Metadata,
     prev : SUBSET Metadata]

DiskState ==
    [slot : [0..1 -> SUBSET Metadata], log : Seq(JournalEntry), clean : BOOLEAN]

Operation ==
    [step : {"idle", "append", "flush", "rollover", "certify", "copies", "replay", "reset",
             "stale", "clean"},
     by : {"none", "commit", "event", "sync", "unmount", "repair", "open"},
     meta : Metadata, entry : JournalEntry, todo : SUBSET Members, done : SUBSET Members,
     bad : SUBSET Members, fresh : BOOLEAN]

\* Type invariant.
TypeOK ==
    /\ disk \in [Members -> DiskState]
    /\ phase \in {"down", "opening", "up"}
    /\ scanned \subseteq Members /\ quar \subseteq Members /\ broken \subseteq Members
    /\ fenced \in BOOLEAN /\ dirty \in BOOLEAN /\ unresolved \in BOOLEAN
    /\ live \in Metadata /\ durable \in Metadata /\ acked \in Metadata
    /\ op \in Operation
    /\ txns \in Nat /\ incidents \in Nat

\* Whatever the disks look like when the pool is down, a writable open with any
\* allowed majority of the members succeeds, and the state load_or_recover
\* selects contains every transaction a caller was told is durable.
AckedRecoverable ==
    phase = "down" =>
        \A P \in SUBSET Members :
            Cardinality(P) >= Need /\ Cardinality(Members \ P) <= MaxAbsent =>
                /\ Recover(P) # {}
                /\ \A r \in Recover(P) : Contains(r.meta, acked)

\* What a member is counted for: it has a checkpoint of s, or its journal ends
\* with a record of s and the certificate.  Whether recovery selects s is
\* AckedRecoverable: an entry further back may make the journal unreplayable.
Holds(d, s) ==
    \/ s \in SlotStates(d)
    \/ /\ Len(d.log) > 1
       /\ Tip(d).kind = "cert" /\ Tip(d).meta = s
       /\ d.log[Len(d.log) - 1].kind \in {"full", "delta"}
       /\ d.log[Len(d.log) - 1].meta = s

\* The journal ends with the record of s.
HasRecord(d, s) == d.log # << >> /\ Tip(d).kind \in {"full", "delta"} /\ Tip(d).meta = s

\* Members with a checkpoint of s.
Checkpointed(s) == {m \in Members : s \in SlotStates(disk[m])}

\* What append_journal_quorum, write_metadata_copies_quorum and open_pool know
\* about the disks at each point of a fan-out: every member counted so far has
\* what it was counted for.  A fan-out that the verifier's fence catches in
\* progress holds the metadata lock for reading, and what it writes is the live
\* state.
FanoutSound ==
    /\ op.step = "idle" => op = Idle
    /\ fenced => op = Idle \/ SharedLock
    /\ SharedLock => op.meta = live
    /\ phase = "down" => op = Idle /\ ~fenced
    /\ op.step \in {"replay", "reset"} => op.by = "open"
    /\ op.todo \cap op.done = {}
    /\ op.step \in {"append", "flush", "rollover"} =>
         op.entry.kind \in {"full", "delta"} /\ op.entry.meta = op.meta
    /\ op.step = "certify" => op.entry.kind \in {"cert", "ckpt"} /\ op.entry.meta = op.meta
    /\ op.step = "append" => \A m \in op.done : HasRecord(disk[m], op.meta)
    /\ op.step = "flush" => \A m \in op.todo \cup op.done : HasRecord(disk[m], op.meta)
    /\ op.step = "certify" /\ op.entry.kind = "cert" =>
         /\ \A m \in op.todo : HasRecord(disk[m], op.meta)
         /\ \A m \in op.done : Holds(disk[m], op.meta)
    /\ op.step = "certify" /\ op.entry.kind = "ckpt" =>
         op.todo \cup op.done \subseteq Checkpointed(op.meta)
    /\ op.step \in {"rollover", "copies", "replay"} => op.done \subseteq Checkpointed(op.meta)
    /\ op.step = "reset" \/ (op.step = "clean" /\ op.by = "open") =>
         Cardinality(Checkpointed(op.meta)) >= Need

\* A caller is told that a new state is durable (append_journal_quorum,
\* write_metadata_copies_quorum or open_pool having reached its quorum) only when
\* every majority of the members contains one with a checkpoint of that state, or
\* with its record and certificate at the end of the journal.
AckVisible ==
    [][acked' # acked =>
        \A P \in SUBSET Members :
            Cardinality(P) >= Need => \E m \in P : Holds(disk'[m], acked')]_vars

\* The states named by the certificates in the journals.
Certified ==
    {e.meta : e \in {c \in UNION {Range(disk[m].log) : m \in Members} :
                       c.kind \in {"cert", "ckpt"}}}

\* A certificate in any journal (append_quorum_commit_certificate) names a state
\* that a majority has, as a journal record or inside a checkpoint that contains
\* it.
CertificateHeld ==
    \A s \in Certified :
        Cardinality({m \in Members :
            \/ \E t \in SlotStates(disk[m]) : Contains(t, s)
            \/ \E e \in Range(disk[m].log) :
                  e.kind \in {"full", "delta"} /\ e.meta = s}) >= Need

\* When a majority of the superblocks says clean (clean_unmount_quorum), an open
\* has nothing to replay and still finds every acknowledged transaction.
CleanMeansCheckpointed ==
    phase = "down" /\ Cardinality({m \in Members : disk[m].clean}) >= Need =>
        \A r \in Recover(Members) : ~r.replayed /\ Contains(r.meta, acked)

\* After an IndeterminateCommit the mount is fenced until recovery resolves the
\* outcome (the comment in transaction_error_is_committed).
IndeterminateFences == unresolved => fenced

\* Once the write fence is up (ensure_block_backend_writable_locked), no member
\* takes up a record, a certificate or a checkpoint of any state but the live
\* one, and no other state is reported durable: an event the fence caught in
\* progress may finish, a transaction may not begin, and none is under way.
FenceStopsTransactions ==
    [][fenced =>
        /\ acked' \in {acked, live}
        /\ \A m \in Members :
             /\ SlotStates(disk'[m]) \subseteq SlotStates(disk[m]) \cup {live}
             /\ \A e \in Range(disk'[m].log) :
                  e \in Range(disk[m].log) \/ e = Torn \/ e.meta = live]_vars

\* A fenced mount writes to no member (the guide: "writes are fenced but reads
\* remain available").
FenceStopsWrites == [][fenced => UNCHANGED disk]_vars

\* A member that takes part in certifying a journal record can replay that record
\* from the selected checkpoint (the comment in journal_tip_accepts_transaction).
OlderSuffixSafe ==
    op.step = "certify" /\ op.entry.kind = "cert" =>
        \A b \in QuorumCheckpoints(Members), m \in op.todo \cup op.done :
            Txid(b) >= Txid(op.meta) \/ op.meta \in ReplayMember(disk[m], {b}).candidates

=============================================================================
