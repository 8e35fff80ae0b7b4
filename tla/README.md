# DistDB verification project

TLA+ models of the parts of DistDB that are hardest to test: transactions and
table locks, the write-ahead log, atomic commit over several tables, and
replication between the nodes of an affinity. TLC checks small instances of all
of them; TLAPS proves the main facts about the transaction coordinator for every
number of sessions, peers and tables. `PROJECT.json` lists components, runs,
theorems, findings and hazards, and maps each definition to the lines it models.

## The system and its parts

A node is one process. `server` holds the state (`ServerApp` behind one
read-write lock), accepts connections and runs the background tasks; `serverlib`
holds the SQL engine, the log, the catalogs and the affinity documents.

| part | code | modelled by |
|---|---|---|
| transaction coordinator: a thread owning lock and staging maps | `server/src/core/transaction_coordinator.rs` | `TableLocks`, `TransactionCoordinator` |
| session transactions: BEGIN to COMMIT, snapshots, conflicts | `server/src/core/app/control/{core,isolation}.rs`, `state.rs` | `SessionTransactions` |
| WAL stream: worker, file, memory copy, high-water mark | `serverlib/src/engine/wal.rs` | `WalStream` |
| write groups and live rows | `mappings/query/core/{wal_ops,mutation_ops}.rs`, `engine/execution/access.rs` | `WriteGroups` |
| WAL catch-up between nodes | `server/src/core/control/replication_sync.rs`, `app/control/wal.rs` | `WalCatchup` |
| affinity document, join, sync plan | `server/src/core/control/affinity.rs`, `engine/affinity`, `replication_executor.rs` | `ReplicationSync` |
| service message handler, catalog dispatcher, catalogs, schema migration, runtime indexes, constraints, routines, OLAP, accounts, startup replay | see `PROJECT.json` | not yet |
| parsing, query execution, transport, TLS, clients, protocol types, helpers | see `PROJECT.json` | no; see "Not modelled" |

A statement reaches a session; inside a transaction the coordinator stages it,
and COMMIT takes the staged statements, looks for conflicts with the high-water
marks of the WAL streams, applies them in one write group and marks the group in
each stream it touched. Readers hide groups without a commit marker. Replication
copies streams, markers included, to the other nodes.

The map covers about 5,000 of some 98,000 lines outside tests. The project is
the core of the system, not yet most of it.

## Modules

**`TableLocks`** is the lock contract: a table has at most one owner, and changes
owner only through nobody. **`TransactionCoordinator`** has one action per
command of `run_coordinator_loop`, over the state of the thread
(`active`, `staged_by_session`, `table_locks_by_table`,
`locked_tables_by_session`) and what a caller in the middle of a COMMIT holds
(`committing`, `taken`), and implements `TableLocks`. The channel to the
thread is synchronous, so a command is one step.

**`SessionTransactions`** extends it with what the server keeps per session.
A request is dispatched, evicts sessions over the snapshot limits, and is then
handled; the server's lock makes the rest of a request atomic except COMMIT,
which takes the staged statements in one step and ends in another. What a
statement computes is abstracted to the tables it touches. Peers' lock messages
and imported records arrive at any moment.

**`WalStream`** is one durable stream: `entries` is the worker's memory
(`Unloaded` before hydration), `file` the frames on disk with `Torn` for bytes
that do not decode. Each write has the outcomes of the I/O calls: success,
error with nothing written, partial write, failed fsync, crash inside the call.

**`WriteGroups`** is COMMIT as a sequence of appends: statements, then one
marker per table, or abort markers after a failure. Each append may fail, and
the process may crash between two. The four readers of a stream (forward replay,
backward scan with a limit, row count, scan of a stream not in memory) are
operators compared with each other. Tables have no primary key.

**`WalCatchup`** has a set of nodes and streams. A pull reads the cursors, asks
peers one by one and imports; clients write meanwhile. "sweep" is the WAL step of
the sync plan, "round" the continuous catch-up of a ready node.

**`ReplicationSync`** is one node against its peers: load, join, walk of the
plan, refresh, catch-up. A peer may answer with an old document.

Definitions commented "Mutant of" are deliberate errors, used to confirm that a
property notices them. `MC...` modules give TLC the constants a cfg cannot.

## What the runs show

Passing runs:

| run | instance | shows |
|---|---|---|
| `sessions` | 2 sessions, 2 tables, clock to 6, a limit of 1 snapshot holder, expiry after 5 | locks end with the transaction, an open transaction keeps its epoch, the snapshot limit holds, a COMMIT that succeeds saw no newer write |
| `sessions_peers` | the same with a remote owner and one imported record, clock to 4 | the two lock maps agree, locks and staged statements belong to open transactions, `TableLocks` is implemented, a snapshot does not change |
| `wal_stream` | 4 writes, ids to 5, imports with ids 2 and 4, one kind of fault plus restarts anywhere | see the table below |
| `write_groups` | 2 tables, 4 statements, 2 per transaction, 2 failures | markers decide each table on its own, COMMIT's answer is truthful, readers agree |
| `wal_catchup` | 3 nodes, 2 replicas, 2 streams of 2 records with one writer each, 2 faults | replicas hold prefixes, cursors skip nothing, replicas catch up |
| `replication_sync` | 2 databases, 2 schema identifiers, 2 faults | a ready node has walked the plan, is never degraded, newer schemas win, announced databases are synchronised |

Several properties have an antecedent. Each exclusion is there because the
property fails without it, so these are limits of the code, not of the model:

- `wal_stream`. "fails" was found by TLC with the antecedent removed and the
  one fault (three writes).

  | property without its antecedent | rewrite error | fsync error | partial write | crash in append | crash in rewrite |
  |---|---|---|---|---|---|
  | acknowledged writes survive a restart | holds | holds | fails | fails | fails |
  | a restart changes nothing | fails | fails | fails | fails | fails |
  | ids ascend | fails | fails | holds | holds | holds |
  | high-water mark answers like a scan | fails | fails | fails | holds | holds |

- `ColdScanAgrees` leaves out streams holding both markers of one group: the
  scan of a stream not in memory does not bring back rows the group deleted.
- `AnswerIsTruthful` says nothing of an error answer when a second append, the
  abort's, failed too.
- `sessions` has no imported records: with them `CommitsAreCurrent` fails.
- `ReplicasHoldPrefixes` and `ReplicasCatchUp` are about streams with one
  writer; with two, records are lost (`wal_divergence`).

Runs that find a disagreement between the code and a document or a comment (the
quotations are in `PROJECT.json`):

| run | the code |
|---|---|
| `sessions_import_conflict` | a record imported after BEGIN with an older timestamp is not seen as a write conflict |
| `wal_torn_tail` | a partly written frame is never removed; what is acknowledged after it is unreadable at the next restart |
| `write_groups_crash` | a crash between two commit markers publishes half a transaction |
| `write_groups_staged_reads` | without a primary key a statement misses the rows written earlier in its transaction |
| `wal_divergence` | an import skips records whose id is taken, whatever they contain |
| `replication_order` | a database added by a refresh gets its data before its schema |

## Bounds

Two sessions and two tables are the least for a conflict, a lock held by another
and a transaction over two tables. The expiry and the clock let a snapshot
outlive its limit. Four WAL writes let an import fall between two others and a
truncation be followed by a reused id. Fault kinds are counted, not their number,
and restarts are not counted. `RowCap` is 2 while a table reaches four rows, so
the default row cap of a scan is met. Three nodes let records travel through a
relay, two records leave room for a gap. Two databases let a refresh insert one
before another in the plan. Symmetry is used for the tables of `WriteGroups`
only, which has no liveness property. Deadlock is not checked where a bound ends
the behaviour.

## Fairness

`WalCatchup`: weak fairness of each replica's task, because a timer starts it
again and each request ends with an answer or a timeout. `ReplicationSync`: the
same, and strong fairness of a refresh that gets an up to date answer, because
otherwise peers might answer with old documents for ever. Faults are bounded,
so both say what happens once faults stop.

Both assume that a tick gets the locks it asks for. The code does not ensure it:
the AffinityJoinRequest handler holds the p2p runtime while it waits for the
affinity processor, and the replication task takes them the other way round.
Likewise the TableLockState handler still holds the server's write lock when the
common end of message handling asks for it again; the remote lock messages of
`SessionTransactions` describe the effect of the message only. Both are listed as
hazards, and a model of these locks is the first step of the plan.

## Proofs

`TransactionCoordinatorProofs` proves, for any sets of sessions, remote owners and
tables satisfying `CoordinatorAssumption`:

- `CoordInvariant`: `CoordSpec => []CoordInv`, where `CoordInv` joins the types, the
  agreement of the two lock maps, "locks of a session need an open transaction"
  and "staged statements need an open transaction". No part is enough alone:
  releasing locks walks one map and clears the other, so it empties both only if
  they agree, and ending a transaction keeps the third only if release is complete.
- `CoordTypesHold`, `LockMapsAlwaysAgree` and `NoLockLeak`, its consequences.
- `CoordinatorRefinesTableLocks`: `CoordSpec => ImplementsTableLocks`. A command
  takes free tables, drops an owner's tables, or leaves owners alone; each is a
  step of `TableLocks` or a stutter.

The theorems are about the coordinator on its own (`CoordSpec`). `sessions_peers`
checks the same properties with the sessions around it. Everything else is
model-checked only: sessions, log, groups and replication because their proofs
are still to be written, the two liveness properties because fairness is out of
the prover's reach.

## Assumptions and parts left out

- `WalCatchup`: clocks of writers do not step back; truncation and realignment,
  which renumber records under a peer's cursor, are left out.
- `ReplicationSync`: the checkpoint is left out (saved, never read to choose a
  step). A step whose requests failed counts as done, as in the code, so "has
  walked the plan" means tried, not received.
- Tables with a primary key, ephemeral streams and compression are left out of
  the WAL and group modules.
- Not modelled by choice: SQL parsing and query execution (functions of their
  input), transport and TLS, clients and console, protocol types, file helpers.

## Plan

Modules, in order:

1. `ServiceLocks`: handler and background tasks with the locks they hold;
   deadlock freedom. Replaces the assumption under "Fairness".
2. `CatalogDispatcher`: workers per catalog, eviction of idle ones, late requests.
3. `SchemaMigration`: ALTER TABLE rewrite, flush, cutover and crash, with object
   status; composed with `WalStream`.
4. TRUNCATE in `SessionTransactions` and `WalCatchup`.
5. `RuntimeIndexes`: incremental maintenance against a rebuild; primary keys in
   `WriteGroups`; uniqueness, foreign keys, auto-increment.
6. `StartupReplay` with accounts and privileges: order of catalogs and streams.
7. Routines and cursors, OLAP cache invalidation, peer announcements.
8. Pure algorithms of query execution against reference definitions.

New passing runs take the place of the smaller disagreement runs as needed.

Proofs, in order: `WalCatchup` (each log is the first k records of its writer,
cursors and pulls in progress do not pass what is held, fetched and held together
have no gap) for any number of nodes and streams; `ReplicationSync`
(`NeverDegraded`, `ReadyNodeHasWalkedThePlan`); `WalStream` (`IdsAscend`).

Smaller hazards met while reading, to be taken up with the module named:

- `ServiceLocks`: two nodes refreshing at once hold their affinity processors and
  wait for each other until both time out (`control/affinity.rs:198`).
- Sessions: locks are checked when a statement is staged, not at COMMIT
  (`app/control/core.rs:2611`); a write with the timestamp of BEGIN is not after
  it (`engine/wal.rs:546`); a table not found by its stream id stays in Lock
  (`core.rs:2066`); a failed transactional read does not put back the session
  variables (`isolation.rs:243`).
- Replication: a frame that cannot be decoded is skipped and the cursor moves past
  it (`replication_sync.rs:545`); checkpoint indices change meaning when the plan
  grows, which nothing reads today (`affinity/processor.rs:162`).
- Migration: the file is named by the stream id, in the WAL by a hash of it
  (`migration/executor.rs:101`).
- Log and indexes: realignment drops group ids that name no record, off by default
  (`engine/wal.rs:758`); a row id is used as a position (`access.rs:6214`).
- Accounts: several GRANTs in one request stop at the first failure and keep those
  before it (`core.rs:1223`).
