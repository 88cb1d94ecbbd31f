# TLA+ models of the neo-go snapshot

This directory holds TLA+ models of the stateful parts of this repository, the
TLC configurations that check them, and `PROJECT.json`. `PROJECT.json` lists the
components, the runs, the mutants, the mapping from every definition to source
lines, the findings and the hazards.

## The system

The repository is a slice of neo-go. It has these parts:

| Part | Source | State | Operations |
|---|---|---|---|
| Mempool | `src/unnamed/part_000` | `verifiedMap`, the list `verifiedTxes` sorted by priority, the sorted input index `inputs`, and per-sender `fees` (a balance snapshot and a fee sum) | `Add`, `Remove`, `RemoveStale`, `Verify`, plus the read-only `Count`, `ContainsKey`, `TryGetValue` and `GetVerifiedTransactions` |
| Peer session | `src/pkg/network/tcp_peer.go` | handshake bits, `done`, three bounded send queues (hp 4, p2p 16, default 32), `pingSent`, `pingTimer` | reader goroutine (`handleConn`), writer goroutine (`handleQueues`), `Enqueue*`, `SendVersion`/`HandleVersion`/`SendVersionAck`/`HandleVersionAck`, `SendPing`/`HandlePong`, `Disconnect` |
| Cached DAO | `src/pkg/core/dao/cacheddao.go` 1-247 | object caches (accounts, contracts, NEP5 balances and transfers) over an embedded DAO, `dropNEP5Cache` | `Get*`/`Put*`, `AppendNEP5Transfer`, `MigrateNEP5Balances`, `Persist`, `GetWrapped` |
| Simple DAO | `src/pkg/core/dao/cacheddao.go` 248-996 | a `MemCachedStore` over the store | blocks, transactions, conflict records, header hashes, version, `DeleteBlock`, `StoreAsTransaction`, `Persist` |
| MPT proofs | `src/pkg/core/blockchainer/state_root.go` | `t.root`, whose hash nodes `GetProof` and `Traverse` replace by the nodes they resolve | `GetProof`, `VerifyProof`, `Traverse` |
| LevelDB store | `src/pkg/core/storage/leveldb_store.go` | a pool of reusable batches | `PutBatch`, `Batch`, plus goleveldb wrappers |
| Wallet validator CLI, runtime interop stubs, BoltDB test helper | `src/cli/wallet/validator.go`, `src/unnamed/part_001`, `boltdb_store_test.go` | none of their own | sequential I/O |

### How the parts interact

- The blockchain calls `Add` for every relayed transaction. After accepting a
  block it calls `RemoveStale`. `Verify` runs from other goroutines under the
  pool's read lock.
- The network server calls `Enqueue*` on peers from many goroutines. Its message
  dispatcher runs on each peer's reader goroutine, and its ping loop calls
  `SendPing`.
- The DAOs are stacked. `NewSimple` puts a `MemCachedStore` over the store.
  `NewCached(d)` puts a `Cached` over `d.GetWrapped()`. Block processing
  writes through the top DAO and calls `Persist` to flush one level down.
  `GetWrapped` of a `Simple` is a new `Simple` over a new `MemCachedStore`.
  `GetWrapped` of a `Cached` shares the parent's object maps.

## Modules

### `Mempool.tla` (the Mempool)

Each variable is the matching `Pool` field:
- `verifiedMap` is the set of hashes in the map.
- `verifiedTxes` is the list.
- `inputs` is a bag, so the sorted slice keeps its duplicates.
- `fees` is a partial function from sender to a balance snapshot and a fee sum.

Two variables model the environment. `balance` is what the `Feer` would answer
now. `stale` means a block changed balances and `RemoveStale` has not yet run.

The actions:
- `Add(t)` is the whole of `Pool.Add` after the input-conflict check. It has one
  disjunct per outcome:
  - a rejection on balance, or `ErrDup`: only the balance snapshot is kept;
  - `ErrOOM`, returned after line 201 has already set the map entry;
  - eviction at capacity;
  - a plain insert.
- `Remove(h)` keeps the code's range loop. When the hash is not in the list, the
  loop ends on the last index and that item is removed.
- `RemoveStale(ok)` folds over the list in order, as the code does. It starts
  from an empty fee map, and the set `ok` stands for the `isOK` callback.
- `Verify` holds only the read lock, so it is two steps of a goroutine in
  `Verifiers`. `VerifyLookup(v, t)` takes the read lock, finds no input
  conflict and no entry for the sender, and asks the chain for the balance.
  `VerifyStore(v)` writes the snapshot into `mp.fees` and releases the lock.
  A conflict, or a sender already in `mp.fees`, returns without a write and
  is no step. `verifying` holds the goroutines between the two steps.
- `Add`, `Remove` and `RemoveStale` take the write lock: each is guarded by
  `NoReaders`, because `Lock()` waits for every read-lock holder.
- `ChainUpdate` is the environment step: a block changes balances.

`CompareTo` and the insertion index are operators translated from the code.
Hashes are the integers 1..4, so the hash tie-break is integer order.

### `TCPPeer.tla` (one peer session)

The model has these goroutines and actors:
- The reader: `SendVersion`, `HandleVersion`, `SendVersionAck`,
  `HandleVersionAck`, `HandlePong` and `HandleOther`. `HandleOther` is the
  server's dispatch of other commands, which is not under `src/`.
- The writer: one step per select of `handleQueues` (`PollHP`, `PollP2P`,
  `Block`) and the `Write`.
- `Producers`: server goroutines in `putPacketIntoQueue`. `Enqueue` is the
  `Handshaked()` check and `EnqueueDone` is the select.
- The pinger, `SendPing`: the accounting and timer arming, then the enqueue.
- The timer: `TimerExpires`, after which `Stop()` fails, and `TimerCallback`,
  the `AfterFunc` goroutine calling `Disconnect(errPingPong)`.
- `Disconnect` closes `done` and the connection once and records the first
  error.

The remote node and the network are the environment. `wire` is our unread
output, and a full `wire` is a `conn.Write` that blocks. `inbox` is the
remote's unread output. `Init` picks the remote's kind from `RemoteKinds`,
and `misbehave` keeps it for the whole behaviour:
- When `misbehave` is FALSE, the remote is honest. It sends Version, then VerAck
  once it has read ours, then pongs only for pings it has read, and payload
  after the handshake.
- When `misbehave` is TRUE, it sends anything at any time.

`ConnFails` breaks the connection at any point.

Abstractions:
- A message is its command name.
- `p2pSkipCounter` is kept modulo 4. This is exact, because the uint32 wraps at
  2^32, a multiple of 4.
- `pingSent` is capped by `MaxPingsOutstanding`.

### `TxnKV.tla` (what a DAO scope promises)

This is the abstract specification, taken from spec section 4.3. `db` is the
committed key/value view and `scope` is the view of an open wrapped DAO. A
scope starts as a copy of `db` and is invisible to `db` until `Commit`.
`Abort` drops it. A scope may already be open in the initial state, because
`NewCached` wraps its argument when the stack is built.

Two modules refine it:
- `SimpleDAO` (`ScopeRefinement`). `db` is the base DAO's view and `scope` the
  view of the top wrapped DAO.
- `CachedDAO` (`CachedScopeRefinement`, `Build <- MCSingle`). `db` is the
  Simple's view and `scope` is what the Cached returns for every account,
  balance, transfer log and contract. Each value is paired with the kind of
  its key.

### `SimpleDAO.tla` (the Simple DAO and its wrapped scopes)

`layers` is the stack of `MemCachedStore` overlays, and `backend` is the store
below them. An overlay maps a key to a value, to `Tomb` (deleted) or to
`Absent` (read through). `version[i]` is the `Version` field of layer i's DAO.

Each action is one whole method on the top DAO:
- `StoreAsBlock`, `StoreAsCurrentBlock` and `AppendAppExecResult`.
- `StoreAsTransaction`, including the dummy conflict records under
  `P2PSigExtensions`.
- `DeleteBlock`. Its transaction loop is `DeleteTxStep`, folded over the
  block's transactions with the `key[0]` byte carried between iterations, as
  the code does.
- `PutVersion` and `GetWrapped`.
- `Persist(i)`, the `MemCachedStore.Persist` of layer i.
- `Discard`, where a caller drops a wrapped DAO.

`HasTransaction`, `GetTransaction`, and `Version`'s `Bytes` and `FromBytes`
are operators. `Bytes` and `FromBytes` act on byte sequences with the code's
bit masks.

Values are records standing for the encoded bytes. The caller's guards are
kept:
- a transaction is stored after its block;
- a block is deleted only when all its transactions are stored.

The refinement mapping sends `db` to the view through layer 1, and `scope` to
the view through the top layer when a wrapped DAO is open.

### `CachedDAO.tla` (Cached over Simple, and stacks of them)

`Build` is a constant list of constructor calls (`NewSimple`, `NewCached(i)`,
`GetWrapped(i)`). `Init` folds it into the heap `daos`. A `Cached` refers to
its maps by id, so two objects share a map exactly when the code shares it:
`GetWrapped` of a `Cached` copies the map pointers.

The variables:
- `accH`, `balH`, `ctrH` and `trfH` are the map heaps;
- `ovl` and `backend` are the stores;
- `persisting` is the Persist call under way, with its `lowerCache`;
- `migrated` is the set of tokens that `MigrateNEP5Balances` moved away.

The actions:
- `PutAccountState`, `PutNEP5Balances` and `AppendNEP5Transfer` write the cache
  only.
- `GetContractState` caches what it reads, at every `Cached` that missed.
- `PutContractState` and `DeleteContractState` write every contract cache
  down the chain and then the store.
- `MigrateNEP5Balances` writes the balance cache and the moved trackers into
  the store and sets `dropNEP5Cache`.
- `Persist` over a `Simple` writes the three object caches and then flushes.
- `Persist` over a `Cached` is `PersistOverCached` followed by `PersistWalk`
  steps. Each `PersistWalk` step is one iteration of the code's `for` loop,
  including the `lowerCache = cd.DAO` reassignment.
- `PersistSimple` persists a `Simple`.

### `MPTProof.tla` (MPT proofs and traversal)

A node is a record: a leaf, a branch (one child per nibble plus the value
slot `lastChild`), an extension, a hash node, or the empty hash node.
- `Norm(n)` stands for `n.Bytes()`: the node with every child replaced by its
  hash node.
- A hash node holds the bytes it hashes, so hashing has no collisions.
- `store` is the set of stored node bytes. `Init` takes every node, or every
  node but one, as a store that state synchronisation is still filling.
- The trie is the one `Put` builds from the key/value map `KV` (`Build`).

The code is translated as follows:
- `getProof` and `traverse` are RECURSIVE operators returning the node to put
  back, the proof or the processed bytes, and the error. A nil node is
  `NilNode`.
- The actions `GetProof(key)` and `Traverse(stop, ignoreStorageErr)` replace
  `t.root` exactly when the code does.
- `process` returns true for the bytes of the chosen stop node.
- `VerifyProof` looks the key up from the root hash over a store made of the
  proof nodes.

Nodes that are not under `src/` are modelled from their behaviour: `splitPath`,
`getWithPath`, `Bytes`, `Hash` and `Put`. A key is its nibble path, which is
what `toNibbles` returns.

## Runs

| Run | Config | Expect | What it shows |
|---|---|---|---|
| `mempool_pressure` | `MC_Mempool_pressure.cfg` | pass | With capacity 2, every Add outcome, Remove, RemoveStale and both steps of Verify keep the list bounded and sorted by `CompareTo` (`TypeOK`, `SortedByPriority`). |
| `mempool_roomy` | `MC_Mempool_roomy.cfg` | pass | Below capacity, five invariants hold:<br>- `PoolConsistent`: map and list agree.<br>- `InputIndexExact`: the input index equals the inputs of the list.<br>- `NoDoubleSpend`: no two pooled transactions spend one input.<br>- `FeeSumExact`: fee sums equal the pooled fees.<br>- `Solvent`: between blocks, pooled fees stay within each balance. |
| `mempool_double_spend` | `MC_Mempool_double_spend.cfg` | violation | At capacity, the ErrOOM ghost and `Remove`'s range loop combine: two pooled transactions spend one input (`NoDoubleSpend`). |
| `mempool_verify_race` | `MC_Mempool_verify_race.cfg` | violation | Two `Verify` calls for a sender the pool has not seen both hold the read lock and both go on to write `mp.fees` (`FeesWrittenExclusively`). |
| `peer_honest` | `MC_TCPPeer_honest.cfg` | pass | Against an honest remote, with three producers, pings and network failure:<br>- no packet or ping reaches the remote before our VerAck (`RemoteSeesHandshakeFirst`);<br>- no handshake, dispatch or unexpected-pong error ends the session (`HonestPeersAgree`). |
| `peer_liveness` | `MC_TCPPeer_liveness.cfg` | pass | With one producer and a remote that is honest or sends anything at any time (which drives every error path of the handshake and `HandlePong`):<br>- a goroutine blocked in `putPacketIntoQueue` eventually returns when an honest remote stops reading (`EnqueueReturns`);<br>- once `done` is closed, the reader and the writer goroutine both return, whatever the remote does (`SessionWindsDown`). |
| `dao_scope` | `MC_SimpleDAO_scope.cfg` | pass | Two stacked Simple DAOs, every store operation, `PutVersion`, `Persist` at either level and discard:<br>- the layered store implements `TxnKV` (`ScopeRefinement`);<br>- every stored Version decodes back to itself (`VersionRoundTrip`). |
| `dao_delete_block` | `MC_SimpleDAO_delete_block.cfg` | violation | `DeleteBlock` of a block with two transactions leaves the second one stored (`DeletedBlockForgotten`). |
| `cached_single` | `MC_CachedDAO_single.cfg` | pass | In a Cached over a Simple, every write, read, migration and Persist keeps the contract cache equal to the store (`ContractCacheCoherent`);<br>- the Cached that `NewCached` made implements `TxnKV` over the Simple below (`CachedScopeRefinement`). Its writes stay out of the Simple until `Persist` (spec property 9), and `Persist` makes the Simple return what the Cached returned. |
| `cached_nested` | `MC_CachedDAO_nested.cfg` | pass | With an interop Cached made by `NewCached` over the block Cached, every operation and both `Persist` paths, the walk included, keep every object cache a live map (`TypeOK`; line 197 replaces the balance cache by a fresh map, never by nil). |
| `mpt_proofs` | `MC_MPTProof_proofs.cfg` | pass | Any sequence of `GetProof` and `Traverse`, over a complete store or one that lost a node:<br>- keeps the root hash (`RootStable`);<br>- yields proofs that `VerifyProof` accepts for exactly the keys in the trie (`ProofsVerify`);<br>- processes nodes in pre-order up to the stop node, skipping or stopping at a lost subtree (`TraverseOrder`). |
| `cached_migration` | `MC_CachedDAO_migration.cfg` | violation | `PutNEP5Balances`, `MigrateNEP5Balances`, then `Persist`: the stale balance cache is written back over the migrated balances (`MigrationDurable`). |

Every property of a passing run has a mutant in `PROJECT.json`. A mutant is a
plausible bug in one mapped definition, and TLC finds the property violated
under it.

### Findings

1. **Double spend** (`part_000:201` and `250`). There are two defects:
   - `Add` sets `verifiedMap` before its `ErrOOM` return, so the rejected
     transaction stays in the map as a ghost.
   - `Remove` of a hash that is missing from the list removes the last item.

   Together they give an 8-state trace: Add, Add, Add (ErrOOM, tx3 becomes
   a ghost), Remove tx1, Add tx4, Remove of the ghost tx3 (which removes tx2
   and frees tx3's input, though tx2's stays indexed), Add tx3. Nothing is
   evicted on the way. At its end two pooled transactions spend one input,
   and one sender's pooled fees exceed its balance.
2. **DeleteBlock forgets to delete** (`cacheddao.go:922`). `key[0]` is set to
   `STNotification` inside the transaction loop and never set back. From the
   second transaction on, the `DataTransaction` records survive, so
   `HasTransaction` still reports the transactions of a deleted block.
3. **Migration undone** (`cacheddao.go:220`). `Persist` over a `Simple`
   ignores `dropNEP5Cache` and writes the cached balances back over the ones
   `MigrateNEP5Balances` rewrote.
4. **Verify writes under the read lock** (`part_000:168`). The spec says
   `Verify` does not mutate, and that mutating operations hold the write
   lock. But `Verify` takes only `RLock`, and `checkBalanceAndUpdate` stores a
   balance snapshot in `mp.fees` for a sender it has not seen. Two concurrent
   `Verify` calls for such senders write the Go map together. That is a data
   race, on which the Go runtime may abort the process. The trace has two
   steps.

The modules state more properties that TLC finds violated. They are not in the
run set, which is kept small with the passing runs first. A `.cfg` naming
them reproduces each one:
- `ScopeIsolation` (spec property 9). An account write through
  `Cached.GetWrapped`, or a contract write through `NewCached` over a `Cached`,
  is visible to the parent before `Persist`, because the object maps are
  shared (`cacheddao.go:240`). Over a `Simple` it holds: it is implied by
  `CachedScopeRefinement`, which `cached_single` checks.
  - With `Build <- MCNested`, the same sharing also breaks
    `ContractCacheCoherent`: the parent's cache holds a contract its store does
    not.
- `InputIndexExact` with the constants of `mempool_pressure` (capacity 2).
  Eviction removes the last item from `verifiedMap` and `verifiedTxes` but
  keeps its inputs in `mp.inputs` and its fees in the sender's `feeSum`
  (`part_000:220`): three `Add`s, the third evicting the second, leave the
  evicted transaction's input indexed.
- `PersistReturns` with `Build <- MCNested3`. With three stacked `Cached`,
  `Persist` loops for ever, because `lowerCache = cd.DAO` never advances
  (`cacheddao.go:203`). No code under `src/` builds three levels, and with
  two the walk ends on its first step whatever line 203 does, so no passing
  run checks it.
- `SecondPersistFlushesNothing` (spec property 10). `Persist` never clears the
  object caches, so a second `Persist` re-puts every cached account.
- `ConflictRecordKept`. `DeleteBlock` deletes the conflict records of its
  transactions even when another block's transaction carries the same
  `Conflicts` hash (`cacheddao.go:919`).
- `OutstandingPingTimed`, with `MaxPingsOutstanding = 2`. `SendPing` arms
  a timer only when none exists, and any pong clears it. So after ping, ping,
  pong, the remaining ping has no timeout until the next `SendPing`
  (`tcp_peer.go:395`).
- `PongAfterTimeoutUnexpected`. A pong after the ping timeout yields
  `errPingPong`, not the unexpected-pong error of the keepalive contract.
- `EnqueueReturns` without its `~misbehave` conjunct. An unsolicited pong
  clears the timer of a ping the remote never read. A producer then stays
  blocked once the remote stops reading.
- `EnqueueReturns` with an hp and a p2p producer. The first select of
  `handleQueues` takes from `hpSendQ` whenever it holds a packet
  (`tcp_peer.go:185`), so an hp producer that refills its queue after every
  write starves the p2p producer for as long as the session lasts. The run
  takes over ten minutes, which is why the checked run has one producer.

### Bounds and why they suffice

**Mempool.** Four transactions, two senders, three inputs and balances {2, 4}
cover the cases that matter:
- low and normal priority;
- a tie broken only by hash;
- two transactions spending one input;
- a sender who can afford one transaction but not two.

One `Verify` goroutine in the passing runs interleaves its two steps with
every other action. Two goroutines make the race, so the race run has two.
Capacity 2 makes the pool fill with 4 transactions, so OOM and eviction both
happen. Capacity 4 checks the bookkeeping with the pool never full.
`FeeSumFloor` bounds how negative a fee sum may go. Sums go negative only after
the ErrOOM ghost, so the bound cuts off the unbounded ghost-removal cycle and
nothing else.

**TCPPeer.** Each channel and each direction of the socket holds one message.
That is enough for both "full" and "empty" to happen. There is one producer per
queue, so the HP priority and the P2P skip rule both fire. Two pings may be
outstanding, which is what the untimed-ping trace needs. The liveness run,
with both kinds of remote, uses one producer and one ping to stay small.

**SimpleDAO.** There is one block with two transactions, one of which has a
`Conflicts` hash. That lets `StoreAsTransaction` write a dummy and lets
`DeleteBlock` iterate twice. At most two DAOs are stacked (`MaxDepth`), which
is one wrapped scope, and there is one execution result per container. The
violation run uses two blocks and no scope.

**CachedDAO.** There is one account, one contract, one value each and two
tokens, enough for one migration. The nested run has no accounts, because the
walk of `Persist` does not depend on the objects. The single run has no
nesting.

**MPTProof.** There are two nibbles and three keys, chosen so that the trie
has every node kind:
- a root branch;
- a nested branch with a value in its `lastChild` slot;
- an extension;
- three leaves;
- empty slots.

`GetProof` is asked about all 7 paths of up to two nibbles. These are in the
trie, prefixes of keys, or off the trie. `Traverse` may stop at any node, or
at none.

### Fairness

`CachedDAO` assumes weak fairness of `PersistWalk`, the loop inside a
`Persist` call that is running; only `PersistReturns` depends on it, in the
`MCNested3` reproduction above. No other DAO action is fair, because the
caller may stop calling.

`TCPPeer` assumes this fairness:
- The reader, the writer, the timer and the ping loop are weakly fair. They are
  goroutines and tickers that run whenever they can. The ping loop belongs to
  the server, which is not under `src/`: `EnqueueReturns` assumes it keeps
  calling `SendPing` while the session lasts.
- A blocked channel send is strongly fair. The Go runtime queues blocked
  senders in FIFO order, and `close(done)` wakes all of them.
- The remote and the network get no fairness. The remote may stop reading or
  sending at any time, which is the case the ping timeout exists for.

`CHECK_DEADLOCK FALSE` is set for the peer runs because a disconnected peer
whose handshake never completed really stops. Its goroutines have all
returned.

## Not modelled, and the plan

Not modelled:
- **Fixed8 overflow** in the fee sums. `feeSum + SystemFee + NetworkFee` is
  int64 arithmetic that wraps. TLC's integers are 32-bit, so fees near 2^63
  cannot be represented. A model with a narrower width would check a
  different program.
- **The server side of the peer:** `StartProtocol`, address handling, and any
  handshake deadline, which is not in this source.
- **Simple DAO key/value helpers.** Storage items, contract ids, NEP17
  transfer logs, header hashes and state-sync points are each a put or get of
  one key, with no control of their own.
  Reading them turned up one encoding defect that no run checks:
  `getNEP17TransferLogKey` (`cacheddao.go:432-438`) puts the little-endian
  index at offset `Uint160Size`, not `1+Uint160Size`. The index overwrites
  the account's last byte and the key ends in a zero byte. Section 6 of the
  spec gives the key as `NEP17Transfers || acc.BE() || u32-LE(index)`. Two
  accounts that differ only in their last byte share transfer logs.
  `GetHeaderHashes` (`cacheddao.go:753-781`) re-slices `hashes[:key]` before
  appending each batch. If a batch is missing, `key` exceeds the slice's
  length. Within its capacity, Go then returns the zero or stale hashes of the
  backing array and reports no error: batches `{0: [a, a], 1: [b], 3: [a]}`
  give `[a, b, 0, a]`. Beyond its capacity, the call panics. This was worked
  out by evaluating a TLA+ version of the function that models the slice's
  backing array and Go's growth rule. That version is not kept: the result
  is a constant function of the stored batches, and the batches are written
  by the blockchain, which is not in this source.
- **LevelDB store.** The batch pool is a LIFO slice under one mutex. No caller
  under `src/` hands it a `leveldb.Batch`: every `Simple` sits on a
  `MemCachedStore`. The remaining methods wrap goleveldb.
- **The `StateRoot` interface** (`state_root.go` 11-35). It declares methods
  only.
- **The wallet CLI, the interop stubs and the BoltDB test helper.** These are
  sequential I/O or declarations with no state.
