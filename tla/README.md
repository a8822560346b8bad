# ArgosFS: TLA+ models and proofs

ArgosFS is a self-healing erasure-coded file system in user space. This directory
models the parts of it whose correctness depends on the order of steps taken by
several devices, threads and mounts, checks them with TLC and proves the most
important properties with TLAPS.

## 1. The system and what is modelled

| Part of the system | Source | Model |
|---|---|---|
| Raw metadata store: slots, journal, quorum fan-outs, recovery | `storage/raw/store.rs` | `RawStore`, `RawStoreEvents` (abstract: `DurableLog`) |
| Commit path, group commit, write fence, quarantine, unmount | `volume/mod.rs` | `RawStore` |
| Per-device deadline and fencing | `storage/guard.rs` | `GuardedBackend` (abstract: `OneShotIO`) |
| Extent allocator and deferred reclamation | `storage/raw/allocator.rs`, `volume/data_plane.rs` | planned |
| Host journal | `metadata/journal.rs` | planned |
| Namespace and inode operations | `volume/namespace.rs` | planned |
| Data plane: placement, shard writes, repair | `volume/data_plane.rs`, `volume/helpers.rs` | planned |
| Verify after write | `volume/verify_after_write.rs` | its quarantine and fence in `RawStore`; the queue is planned |
| Block cache | `data/cache.rs` | planned |
| Disk lifecycle, scrub, rebalance | `volume/maintenance.rs` | planned |
| Autopilot and health | `volume/autopilot.rs`, `control/*` | planned (control only, not scoring) |
| FUSE write-back buffers and timer | `frontend/fusefs.rs` | planned |
| ACL evaluation | `security/acl.rs` | planned (pure algorithm) |
| Codecs, formats, CLI, metrics, preflight | `data/*`, `raw/format.rs`, `cli/*`, ... | not modelled: pure encoding, I/O or dispatch |

How they interact: a file operation changes the in-memory metadata under a lock
and commits it. On a raw or loop pool the commit goes through the raw store,
which writes every member device through a `GuardedBackend`. A device error
that is fatal quarantines the member for the mount; losing the quorum, or not
knowing the outcome of a commit, fences the mount against further writes.

`PROJECT.json` lists the components, the runs, the correspondence of every
definition with source lines, the findings and the hazards.

## 2. RawStore

**State.** `disk[m]` is one member: two checkpoint slots (each empty or one
state), the journal as a sequence of entries, and the clean flag of its
superblock. The volatile state of the mount is `live` (metadata in memory),
`durable` (`DeferredCommitState.durable_metadata`), `dirty`, `quar`
(`quarantined_devices`), `broken` (the `failed` map of the mount's guard),
`fenced` (`write_fence`) and `op`, the fan-out in progress. `acked` and
`unresolved` are history: the newest state a caller was told is durable, and
whether this mount returned `IndeterminateCommit`. Completing a writable open
counts as telling a caller, since it exposes the state.

**Data abstraction.** A metadata state is the sequence of the transactions it
contains. Its length is its txid (generation moves with it), equality stands
for equality of `meta_hash`, and prefix for "contains all of". A certificate
names its record by state and predecessor, which stand for the record hash.
Journal space is counted in entries. A checkpoint body is one value.

**Actions.** A fan-out (`append_journal_quorum`, `write_metadata_copies_quorum`,
`write_superblock_clean_state_quorum`, the reset after replay) visits one member
per step in any order: `MemberOk`, `MemberFault`, `MemberSkipped`; the `End...`
actions decide what follows. The operations that start one are `Commit`,
`CommitGroup`, `CommitCheckpoint`, `Event`, `Sync`, `Unmount` and `Open`.
`BufferTransaction` keeps an operation in memory in group mode.
`ResetStaleJournals` starts the fan-out of `reset_stale_journals`, on the mount's
backend or a fresh one, whether or not the mount is fenced. `VerifyFails` is the
verifier thread quarantining a member, and fencing the mount if data lost its
durability; it needs the metadata lock for reading, so it may fall into an event
or a journal reset but not into a commit, a sync or an unmount.
Recovery (`load_or_recover`) is a function of the disks, `Recover(P)`: the set
of outcomes that reading the members `P` may have, empty for an error.

**Data durability.** The model has no stripes. Whenever members are quarantined,
`validate_data_durability_snapshot` may succeed or fail (`FenceAfterLoss`). A
failure before a commit refuses it and fences the mount (`RefuseAppend`,
`TryCopies`); one after it returns `CommittedDurabilityLoss`: the state is durable
and the mount is fenced (`Acknowledge`), and a clean unmount ends without its
clean flags (`EndUnmountCopies`).

**Events.** `snapshot` and the autopilot call `journal_locked` with the metadata
lock held for reading, so two of their fan-outs may overlap. In `RawStore` events
follow one another; that is a bound of that module. `RawStoreEvents` extends it
with the second event: `parked` is the event that waits, `Interleave` switches,
`at` holds the write offsets an event read before its first write and
`AppendRecord` writes there. Its bounds: two overlapping events, neither of which
rolls a journal over, and no incident inside them. What `AckedRecoverable` says in
the passing runs is therefore said of mounts on which events do not overlap.

**Failures.** `Crash` may fall between any two steps. The member write in
progress leaves any image in `Cut`: untouched, complete, or torn half-way
(journal entries become invalid, an overwritten slot is lost even if it is
rewritten with the same state); unflushed entries of a deferred journal flush
may be kept, lost or torn independently on each member. `MemberFault` leaves the
same images while the mount goes on. `Incidents` separates fatal errors, which
fence the device off, from `DeviceBusy`, and has the verifier's quarantine as one
more kind. A member may be absent from an open
(`MaxAbsent`) and be found again later.

**Abstract specification.** `DurableLog` has a log of acknowledged transactions
that only grows, and that survives the service going down.
`ImplementsDurableLog` states the refinement with `log <- acked`.

## 3. GuardedBackend

Each element of `Calls` is one invocation of `run`, from any thread. `pc` follows
the caller through the fence check, `try_send`, the wait for the start of the
job and the wait for its result; `worker` follows the worker thread through
taking a job, sending `started`, reading the fence, the operation itself and
the result. Time is not modelled: a `recv_timeout` may expire whenever its
message has not been sent, so every relation of speeds is covered. `Panic`
models a worker that dies in an operation. `touched` and `late` are history.
Devices share nothing, so the model has one.

`OneShotIO` is what a caller may conclude: `Ok` means the operation reached the
device; `DeviceBusy` means that it never did and never will, so a retry is safe;
after any other error the operation is in doubt, and may even run later.

## 4. Runs

All on `MCRawStore`, `MCGuardedBackend` or `RawStoreEvents`. Members and calls are model values;
permutations of the members, and of the calls where no liveness is checked,
are symmetries. Deadlock is
not an error, since the bounds on transactions and calls end every behaviour.

| Run | Instance | Shows |
|---|---|---|
| `commit` | 3 members, immediate commit, 1 incident, 2 transactions, any number of events | `TypeOK`, `AckedRecoverable`, `CertificateHeld`, `CleanMeansCheckpointed`, `ImplementsDurableLog` |
| `group` | 3 members, group of 2, deferred flush, 1 incident, 2 transactions | `AckedRecoverable`, `ImplementsDurableLog` |
| `degraded` | 3 members, 1 absent, 1 I/O error or failed verification, 1 transaction | `FanoutSound`, `AckVisible`, `IndeterminateFences`, `FenceStopsTransactions` |
| `single` | 1 member, full record every 2 txids, 5 transactions, 1 incident | `AckedRecoverable`, `ImplementsDurableLog` |
| `guard` | 3 calls, queue of 2 | `TypeOK`, `OneStraggler`, `FenceHasCause`, `ImplementsOneShotIO`, `EveryCallReturns` |

An incident is a crash, a fatal I/O error, a `DeviceBusy` or a failed verification;
which ones an instance allows is its constant `Incidents`. `commit` and `degraded`
flush each record as it is appended; the order of flush and certificate is a
question for `group` and `single`, where `AckedRecoverable` answers it.

**Bounds.** Three members are the smallest pool with a minority. `mkfs` leaves
one entry in the journal and a record with its certificate takes two: a journal of
three or four entries rolls over at the second record, one of five or six at the
third. Short ones reach rollover, longer ones chains of deltas. Events are not
counted as transactions, so two transactions are enough to fall before, at and
behind a rollover. Two buffered operations
make a group whose delta spans more than one transaction. Three calls on a queue
of two fill it before the worker takes the first.

**Where AckedRecoverable stops.** It is a statement about single incidents. With
`MaxIncidents = 2` TLC refutes it for three members for every pair of a crash and
a member I/O error, and for one member with two crashes. Without any crash or
fault it refutes it for three members of which a different one is absent at each
of two successive opens. The one-member trace is typical: a crash inside a
rollover leaves one valid checkpoint slot, the next open finds nothing to replay
and does not rewrite the other slot, and the second crash falls inside a `sync`,
which overwrites that last slot first. The model lets every slot write be cut.
When `sync` writes the bytes already there a cut is harmless; a read in between
(`atime`, `raw_uncommitted_metadata_dirty`) makes them differ, and the model,
which has no `atime`, does not tell the two apart.

**Fairness.** Only `EveryCallReturns` needs any: weak fairness of every step of a thread
inside `run`, i.e. the thread is scheduled and its `recv_timeout` returns by its
deadline. Nothing is assumed of the worker or the device. The raw store has
safety properties only: nothing obliges a caller to commit or a pool to be
reopened.

### Disagreements between code and its documentation

| Run | What TLC finds |
|---|---|
| `two_members` | Two members, one crash inside a checkpoint: no state is on a quorum of slots, the deltas have no base, and recovery silently returns to an older certified state. |
| `older_suffix` | `journal_tip_accepts_transaction` accepts a member with an older divergent tail, called safe by its comment; the member cannot replay what it is then counted for. |
| `group_fence` | `commit_deferred_locked` does not fence the mount after `IndeterminateCommit`, as the comment in `transaction_error_is_committed` says. |
| `group_event` | The record of a snapshot or an autopilot run inside an uncommitted group breaks the delta chain: the next group commit is reported durable and is lost in a crash. (A self-heal is no such case: the read that begins it sets `raw_uncommitted_metadata_dirty`, and the next group commit is a checkpoint.) |
| `event_overlap` | Two events read the same write offset; one record overwrites the other, the certificate of the lost record stops replay, and a commit acknowledged behind it is lost in a crash. One member suffices; three members show the same. |
| `fence_reset` | `reset_stale_journals` does not look at the write fence: an event with an unknown outcome fences the mount and the journal it tore is then reset. `FenceStopsTransactions` is what does hold. |
| `guard_late` | The fence check and the operation are not atomic: one operation can reach the device after fencing. `OneStraggler` is what does hold. |

## 5. Proofs

The theorems hold for every set of members, every journal length and policy,
and every value of the bounds; for every set of calls and every queue length.
The only assumptions are `RawStoreAssumption` and `GuardAssumption` (types of the
constants; a finite, non-empty set of members; a queue of at least one), and
`~Deferred` in `IndeterminateTheorem`, which `group_fence` shows to be needed.

`RawStoreTypes` proves the typing of every operator and action.
`RawStoreProofs` rests on `TypeOK /\ FanoutSound`, which is inductive: a fan-out
counts a member only when its disk has what is being counted (record, then
certificate, or checkpoint), no member is both counted and still to be visited,
and a fan-out in progress on a fenced mount is an event or a journal reset, which
holds the metadata lock for reading and writes for the live state. From it follow

* `AckTheorem`: a state becomes acknowledged only when a majority has a checkpoint of
  it, or its record and certificate at the end of the journal; two majorities of a
  finite set intersect, so every majority has such a member;
* `FenceTheorem`: once the mount is fenced no transaction reaches a member and none
  is reported durable. Every write of a fan-out, complete, failed or cut by a crash,
  adds nothing to a member but its own state (`AddsOnly`); on a fenced mount that is
  the live state, and every operation that would begin with another needs `Ready`.
  The fence does not stop every write: see `fence_reset`;
* `IndeterminateTheorem`: every immediate commit that ends undecided sets the fence.

`GuardedBackendProofs` adds to the properties an invariant that ties calls, jobs
and worker together (`JobsInv`: the job state says who owns the job; a job is
queued at most once; only Running jobs have touched the device) and one about
the fence (`LateInv`: nothing is late while the worker stands between check and
operation). Together they are inductive and give `StragglerTheorem`,
`CauseTheorem` and, step by step, the refinement `OneShotTheorem`.

`RawStore` takes its sequence helpers from `Sequences` and `Functions` only:
with `SequencesExt` in scope each proof obligation becomes many times slower.
`DurableLog`, about which nothing is proved, uses it.

**Only model-checked:** `AckedRecoverable`, `CertificateHeld`,
`CleanMeansCheckpointed`, `ImplementsDurableLog` (they depend on what a replay of
a whole journal computes, a recursive function over data, beyond the induction
available here) and `EveryCallReturns` (liveness).

## 6. Not modelled in these modules

* Metadata that differs at the same txid: read-side telemetry, and extents
  reclaimed by a group commit after an event at that txid.
* `DiskFull`, membership changes, read-only opens, read errors during an open, a
  destroyed journal header, duplicate or foreign devices.
* Which data a quarantine costs its durability (see Data durability in section 2),
  the flush of deferred data before a group commit, and quarantines raised by the
  reads and writes of data.
* Between the audit of `reset_stale_journals` and its reset the metadata lock is
  free; the model takes both in one step. Read errors during the audit.
* Three overlapping events, an event that overlaps a journal reset, and two
  certificates whose offsets are read before either is written.
* A timed-out write that lands after later steps. `MemberFault` decides at once
  what the device holds; the mount never uses that member again, but a reopened
  mount might before the write lands.
* Bulk import, fault-injection points, and the wording of reports.

## 7. Plan

1. `ExtentAllocator`: allocation, coalescing and freeing with reclamation deferred to
   the group commit and crashes; no extent that the durable state references is
   handed out. Allocation disjointness to be proved.
2. `HostJournal`: append, three copies, compaction, concurrent openers and recovery,
   refining `DurableLog`.
3. `VerifyAfterWrite`, the FUSE write-back buffers and the group-commit timer:
   queues, invalidation, stop, and what `fsync` promises.
4. `Namespace`: rename, link, unlink and orphans; tree and link-count invariants.
5. Data plane: placement on distinct online disks, the durability check, repair and
   drain; composition of data flush order with the metadata commit.
6. Autopilot's confirmation and cooldown; block cache; disk lifecycle.
7. Pure algorithms against reference definitions: ACL evaluation, hole and data
   seeking.
8. Proofs: the allocator's invariant, the durable-log refinement of the host
   journal, inductive parts of `AckedRecoverable`.
