# DucklingDB in TLA+

TLA+ models of DucklingDB (`src/`), the TLC runs that check them on small
instances, and TLAPS proofs of what can be shown for every instance. `PROJECT.json`
lists the components, the runs, the source lines behind every definition, the
findings, the hazards and the theorems.

## The system

DucklingDB is a SQL database on a replicated, transactional key-value store.

| part | state | operations that change it |
| --- | --- | --- |
| HLC (`util/hlc`, `rpc/heartbeat.go`) | last timestamp handed out, per node | `Now`, `Update`; the heartbeat handler calls both |
| timestamp cache (`kv/tscache`) | map key → read timestamp, low-water mark | `Add` (evicts), `SetLowWater` |
| LSM engine (`storage/lsm`) | WAL, memtable, SSTables, two metadata slots, open readers | `Put`, `Delete`, `Commit`, `Close`, `OpenLSM`; flush and compaction inside them; `CompactLevel` |
| LSM iterators (`storage/lsm`) | reference counts, memtable copies | `NewIterator`, `Close`; `reloadLevels` under them |
| MVCC (`storage/mvcc`) | versions and intents in the engine | put, delete, resolve, push, garbage collection |
| transactions (`kv/txn`) | records, intents, priorities | begin, read, write, commit, abort, conflict resolution, retry |
| Raft (`raft`) | `RawNode`, `RaftLog`, `LSMLogStorage` | `Tick`, `Step`, `Propose`, `Ready`/`Advance` |
| replica (`kv/kvserver`) | the run loop, pending proposals, snapshots | loop iterations; `Propose`, `CreateSnapshot` |
| node (`server`) | transport, node ids, KV and SQL service | `sendRaftMessages`, bootstrap, join, `AllocateNodeID` |
| gossip, liveness | info store, liveness records | gossip exchange, heartbeat |
| SQL (`sql`) | catalog and rows, through transactions | one auto-committed transaction per statement |

A write goes SQL → node → `Replica.Propose` → Raft log → `applyEntry` → MVCC →
LSM engine. The Raft log, the hard state and snapshots live in the same engine as
the user data, under `\x00raft/`.

What is hard here: crashes between the many durable writes of `handleReady`, of
`installSnapshot`, of a flush and of a compaction; messages lost and reordered
between terms; leadership lost while proposals wait; entries read from stable
storage while newer ones are still unstable; iterators outliving the files they
read; clocks that jump and counters at their limits; a full timestamp cache.

## Modules

| module | models | notes |
| --- | --- | --- |
| `TsCache`, `TsCacheProofs` | `tscache.go` | one action per call, `Add` by its branches |
| `HLC`, `HLCProofs` | `hlc.go`, `timestamp.go`, heartbeat RPC | several nodes; the logical counter has a width |
| `Tables` | what a memtable or SSTable records | shared by the engine modules |
| `KVStore` | the promise of `storage.Engine` | abstract specification: a map that survives crashes; a call changes it by its whole batch, a crash may keep a prefix of the one in flight |
| `LSM` | `lsm.go`, `wal.go`, `metadata.go`, `compaction.go` | one action per step of a write, flush or compaction; `pc` is the step the call is at |
| `Readers` | `reloadLevels`, `SSTableReader`, iterators | one action per call under the engine lock |
| `RaftStorage` | `raft/storage.go`, `kvserver/snapshot.go` | a disk is a record, a durable write is a value, `Perform` is its effect |
| `RawNode` | `raft.go`, `log.go` | pure operators: node before the call → node after |
| `Replica` | `replica.go`, the transport of `server/node.go` | composes the two above for a set of servers, with crashes |
| `Claims` | sentences of the Raft sources | properties the code does not live up to, with the instances that refute them |
| `MC*` | — | symmetry sets and a view for TLC |

Definitions keep the source's names. A definition that starts with the comment
"A bug of X" is X with a plausible mistake; it belongs to no specification and
shows that the properties can tell the difference.

### How the models correspond to the code

*HLC.* `state[n]` is `Clock.state`. The physical clock is outside the program and
may take any value at any time. `Update` and the `Now` of the heartbeat response
are two steps, as they take the mutex twice. `MaxLogical` is the int32 limit, so
the wrap-around is reached with two-bit counters. `heard[n]` is history: the latest
timestamp a clock took in, forgotten at a `Now` that wraps, since the clock then steps
back (`hlc.go:25` promises it does not; the wrap is the one exception).

*TsCache.* `reads` and `lowWater` are the fields of `Cache`; `lastRead` is history.
Eviction picks any entry with the lowest timestamp, since Go's map order is
unspecified.

*LSM.* Writers hold the engine lock for the whole call, so calls do not interleave;
a crash may follow any step. A write is three of them: the records are appended to the
WAL (`WriteAll`), fsynced (`Sync`), and put in the memtable (`applyEntriesToMemTable`),
which may reach its threshold there; sizes are not counted, so any write may be the one.
After a crash the WAL keeps at least what was fsynced and any prefix of the rest; an
unsynced truncation may come undone; an SSTable being written may be left incomplete.
With `tornWrites` the WAL may also end in part of a record. `OpenWAL` syncs the
directory and not the file, so `Reopen` leaves `synced` and `cut` as they were. Directory
operations are taken to be durable in order, and `os.Remove` may fail (at most
`MaxStray` files of a compaction stay behind).

`levelThreshold` cuts the product to an integer at every level, as the code's
conversion does; the growth factor is the ratio `GrowthFactor`/`GrowthUnit`.
`compactLevelLocked` is shared by `WriteCompacted`, one turn of
`MaybeTriggerCompaction`'s loop, and by `CompactLevel`, which only the tests call: a
compactor alone on the directory, towards a deeper level, with nothing in the levels
passed over. It is what brings files to `levels[2]` and makes a merge happen above
older data.

*KVStore.* `Recoverable` is what `OpenLSM` would rebuild from what is fsynced; the
refinement mapping makes it `store`. A call takes effect exactly at its fsync and returns
only after it. The count of crashes is part of the abstract state, so that a call which
returns without having taken effect is not taken for a crash. A crash may keep a prefix
of the batch in flight, because that is what the log keeps (`CommitIsAtomic` below).

*Readers.* `levels` is `e.levels`, flattened to search order. A reader's contents are
available only while its handle is open, because compaction deletes the file. An
SSTable may fail to open in either `reloadLevels` of a flush, and in the compaction
between them, which reads through handles of its own and leaves the levels of the first
reload in place when it fails.

*Raft.* A replica's loop takes one event and runs `handleReady` to its end before the
next, and nothing else touches its state, so an iteration is one step. Its durable
writes form a sequence, one engine `Put` or `Delete` each, and a crash keeps a prefix
of it: messages are out if the writes that precede them are done. `CommittedEntries`
are computed when `Ready` is called, on the disk before the writes, as in the code.
Every message is an RPC of its own with a timeout: any may be lost (it then never
enters `net`) or overtaken, none is duplicated. Elections time out at any moment.
Tick counts are dropped: `electionElapsed` is below the timeout outside `Tick`, so the
lease test is "a leader is known". `sm` is the set of commands applied; entries
without data leave it alone. Applying a command twice is idempotent, as MVCC puts at a
fixed timestamp are. Engine errors, which the loop only logs, are left out.

## Runs

All bounds are constants named `Max...`; they bound guards, never properties.

| run | instance | checks |
| --- | --- | --- |
| `tscache` | 4 keys, 3 timestamps, capacity 2 | recorded reads stay covered by entry or floor; `GetMax` never sinks |
| `hlc` | 2 clocks, 1 ping, two-bit counters | a clock stands after all it heard; only a `Now` at the int32 limit moves one back |
| `lsm` | 2 keys, 3 calls, batches of 2, 3 levels, 1 crash | metadata names existing files; readers see exactly what is durable; `LSM` implements `KVStore` |
| `readers` | 2 keys, 2 iterators, 3 writes, 1 failed open | iterators are stable, handles neither leak nor close early |
| `raft_group` | 3 servers, 1 term, 2 entries, automatic snapshots, 1 crash | only committed entries are applied, acknowledgements are durable |
| `raft_pair` | 2 servers, 2 terms, 2 entries, 2 messages, automatic snapshots, 1 crash | terms move by campaigns, durable indices never regress, a leader never rewrites its log |
| `raft_live` | 1 server, 3 clients, fairness | every proposal is answered |

Why these bounds are enough to be interesting: three LSM calls give two flushes with the
compaction that threshold 2 then starts. They also give a value moved to the third level
by `CompactLevel`, and a tombstone that is flushed twice (a crash comes before the WAL is
truncated) and so compacted into the second level, above the value: an `isBottomLevel`
that overlooks a deeper level breaks `ImplementsKVStore` there. Growth 3 to 2
gives the thresholds 2, 3, 4, the last of them cut from 4.5. Capacity 2 against 4 keys
evicts. Two terms with two entries make leaders of both terms write the same index,
and a deposed one follow. Threshold 2 with a catch-up gap of 1 snapshots, truncates and
ships the snapshot to a follower that lags.

`raft_group` has one term only, but its properties are meant for any number, as those of
`raft_pair` are for any group. Random simulation of all of them with three servers, three
terms, five entries, three messages in flight, two commands and two crashes (traces of 80
steps, 40 million states) found no violation, which is evidence and not a proof.

`raft_group`, `raft_divergence` and `raft_wiped` use the view `NoElections`, which drops
the history variables `granted` and `elected`: no action reads them and no property of
these runs mentions them.

`raft_live` assumes weak fairness of the ticker and of the loop's reading of `propc`:
Go's `select` picks among ready channels at random and the ticker never stops. Nothing
is assumed about the network, so liveness is checked on one server. A proposal that a
deposed leader takes is dropped without an answer; the run says nothing about it.

Deadlock checking is off in the LSM and reader runs, where the calls run out. The
Raft, HLC and cache models never stop.

### Where the code and its own words disagree

Each run below checks one sentence of the repository and finds a behaviour of the code
that contradicts it; `PROJECT.json` quotes the sentence.

| run | property | what happens |
| --- | --- | --- |
| `tscache_under_push` | `NeverUnderPushes` | eviction raises the floor above the entry inserted next; a later read of that key, at or below the floor, is not recorded, and `GetMax` answers from the lower entry |
| `lsm_torn` | `ReadsAreDurable` | acknowledged writes behind a torn record are lost at the next restart |
| `raft_two_leaders` | `ElectionSafety` | a vote response of an earlier term is counted, and two nodes lead in one term; no crash is needed |
| `raft_divergence` | `StateMachineSafety` | a deposed leader applies its own stale command at the index of a committed entry |
| `raft_wiped` | `AppliedIsReflected` | a crash inside `installSnapshot` leaves the old applied index over a state machine already wiped, and what is missing is never replayed |

Smaller disagreements are stated as properties, each with the instance on which TLC
refuted it in its comment, and no run checks them:

| property | what happens |
| --- | --- |
| `Claims!VotesAreGranted` | a candidate counts a vote of an earlier term |
| `Claims!OneVotePerTerm` | `MsgApp` clears the vote of the term; after a crash the node votes again |
| `Claims!SnapshotLabelAgrees` | a crash between the two writes of `SaveSnapshot` pairs new data with the old label |
| `Claims!LeadIsLeader` | `leadID` names a node that does not lead |
| `Claims!LogTermsOrdered` | a stale stable suffix is never truncated |
| `Claims!RejectionBacksUp` | a rejection leaves `nextIndex` where it was |
| `Claims!TruncatesEachCycle` | the log is not truncated once the lagging follower has caught up |
| `Claims!AcksAreCovered` | a crash inside `installSnapshot` leaves an acknowledged prefix uncovered |
| `Claims!MatchIsReplicated` | a follower that crashed inside `installSnapshot` restarts with the saved commit index and acknowledges it, though it holds nothing up to there |
| `Claims!AckedOwnCommand` | a deposed leader keeps its `pendingProps`, and the next command it appends answers the wrong client |
| `Claims!AckedSurvives` | a deposed leader answers its client for an entry that is overwritten |
| `LSM!CommitIsAtomic` | a crash before the fsync keeps part of a batch |
| `Readers!GetAnswersStored` | after a failed reload `Get` reports flushed keys as missing |

## Proofs

`TsCacheProofs`, for every finite set of keys, capacity and range of timestamps, from
the assumption on the constants in `TsCache`: `TypeCorrect`; `FloorMonotone`, by one
lemma per step on what `GetMax` answers before and after; `Covered`, whose inductive
invariant is `TypeOK` with the property itself and the finiteness and size of the map
(the size is needed because eviction keeps it constant only when the evicted key is
another than the inserted one); `UnboundedNeverUnderPushes`, for capacity 0, where no
entry is below the floor.

`HLCProofs`, for any set of nodes, wall clocks and counter width: `TypeCorrect`;
`Backwards`, that a clock steps back only in a `Now` at the limit, by cases on the
switch of `Update`; `Causality`, that a clock always stands after everything it heard.
Its inductive invariant is `TypeOK` with the property itself: a `Now` below the limit
and every `Update` only move the clock up (`NowAdvances`, `UpdateAdvances`),
`UpdatePassesRemote` shows that `Update` ends after a remote timestamp below the limit,
and `LessTransitive` joins the two.

Everything else is model-checked only. Liveness is out of the prover's reach.
`Replica` folds sequences of writes, which would need induction over data.

## Not modelled

MVCC, transactions, gossip and liveness, node start, SQL: see the plan. Bloom filter,
byte formats, the skiplist, RPC plumbing, generated code and the command line: pure
data or I/O. Disk errors that the process survives: a failed flush leaves a frozen
memtable on which the next write panics.

## Plan

1. `MVCC`: versions, intents, uncertainty, resolve, push, garbage collection, against a
   reference definition of a snapshot read. Runs: two keys, three timestamps, two
   transactions. To prove: what a resolve or a collection does to a read.
2. `Txn` on `MVCC` and `TsCache`: begin to commit, pushes and aborts, SI and SSI, the
   retry loop; lost updates, dirty reads, write skew under SSI, records overwritten.
3. `Gossip` and `Liveness`: combine and delta, restarts, eventual dissemination.
4. `NodeStart`: concurrent joins and id allocation; the node's own keys under a
   snapshot installation.
5. Proofs: type correctness and `MetaRefsExist` of `LSM` (files exist below `nextID`, the
   levels being saved name files, replaced files are no longer named), then its
   refinement of `KVStore`; `HandlesAreHeld` of `Readers`; lemmas on `RawNode`'s operators.
