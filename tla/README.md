# Verification of ruvname

ruvname is a node of a peer-to-peer name system: a small blockchain holds
registrations of domains, nodes exchange blocks and vote on them with "signing"
blocks, and each node serves the names over DNS. This directory holds TLA+
modules translated from its Rust source, the TLC instances that check them, and
proofs checked by TLAPS. Paths below are relative to the repository, which is
`src/` in PROJECT.json (so `src/blockchain/chain.rs` is `src/src/blockchain/chain.rs`).

## 1. Inventory

### Components, state and operations

| Component | State | Operations that change it |
| --- | --- | --- |
| Block, Transaction (`blockchain/block.rs`, `transaction.rs`, `hash_utils.rs`) | values | none; `is_genesis`, `is_better_than`, hashing |
| Chain (`blockchain/chain.rs`) | SQLite tables `blocks`, `domains`; caches `last_block`, `last_full_block`, `signers`; `max_height` | `new`/`init_db`, `check_chain`, `check_new_block` (fills the signers cache), `add_block`, `replace_block`, `truncate_db_from_block`, `get_sign_block`, `update_max_height` |
| Network (`p2p/network.rs`) | `future_blocks`, `seen_blocks`, listening sockets | event loop, `handle_message`, `handle_block` |
| Peers (`p2p/peers.rs`, `peer.rs`, `state.rs`) | a map of connections with state, height and counters; new and ignored addresses | connect, close, ban, exchange, `update`, `ask_blocks` |
| Miner (`miner.rs`) | `jobs`, `running`, `mining`, `miner_state` in the context, worker threads | `add_block`, `stop`, main loop, `mine_internal`, `find_hash` |
| Keystore (`keystore.rs`) | key pairs; generator threads | `create_key`, `generate_key`, load and save |
| Context (`context.rs`) | settings, keystores, chain, miner state behind one mutex | selection of the active key |
| Event bus (`commons/simplebus.rs`, `eventbus.rs`) | listeners | `register`, `unregister`, `post` |
| DNS client (`dns/client.rs`) | sequence number, pending queries | `send_udp_query`, reply thread, timeout thread |
| DNS cache, resolver and server (`dns/cache.rs`, `resolve.rs`, `server.rs`, `context.rs`) | record sets with expiry, recent request ids, the queue of requests and a queue of connections for each TCP worker | `lookup`, `store`, `store_nxdomain`, `execute_query`, `resolve_cnames`, two resolvers, worker pools |
| DNS zones and filters (`dns/authority.rs`, `hosts.rs`, `blockchain/filter.rs`) | zones and hosts read at the start; the chain | `query`, `lookup`, which may ask a domain's own name servers |
| DNS wire format (`dns/protocol.rs`, `buffer.rs`, `netutil.rs`) | a buffer with the labels written so far | `write`, `from_buffer` |
| Settings, startup, GUI, Windows service (`settings.rs`, `main.rs`, `web_ui.rs`, `win_service.rs`) | options, web view | `start_services`, GUI actions |
| Crypto, bytes (`crypto/*`, `bytes.rs`) | none | library cryptography |

### Interactions

All components share a `Context` behind one `Mutex`. The network thread and the
miner's threads take it, call `check_new_block` and then `add_block` or
`replace_block`, and release it: an operation of the chain is therefore never
interleaved with another, and only a crash can divide it. The miner's main loop
asks `get_sign_block` for work; the GUI puts registrations into the miner's
queue; the network tells the chain the heights that peers claim
(`update_max_height`). The DNS filter reads the chain; the workers of the DNS server share the cache
and the client. Events tell the GUI and
the miner about changes.

### What is hard

* **Forks.** Blocks arrive in any order and competing branches of any recent
  height. A replacement truncates two tables and must keep the caches in step.
* **Two checks of one block.** `check_new_block` accepts a block with the chain
  and the clock of that moment; `check_chain` judges it again at a restart.
* **The signer lottery.** `get_block_signers` draws keys from the history, is
  cached by height only, and its search may not end.
* **Unsigned arithmetic** on heights that a fork can move below a cached block.
* **Crossing requests.** A connection has one slot for a message to send, what waits
  in it may be overwritten, and each end acts on an old height of the other.
* **Crashes.** No SQL transaction spans the statements of an operation.
* **Mining threads** that outlive a cancelled job, locks taken in two orders.
* **Late DNS answers and timeouts** racing over one pending query.
* **DNS workers** that share a cache between its lookups and stores, follow CNAMEs and
  referrals that others wrote, and end for good on an error.
* **Compressed names** whose pointers depend on everything written before.

The hazards are listed line by line in PROJECT.json.

### What makes each component correct

* Chain: one unbroken linked chain; a domains table that says what the blocks
  say; nobody but the owner changes a living domain; caches that agree with the
  tables; signers who sign once; restarts that agree with what was accepted.
* Network: nodes that talk come to the same chain and stay with it; whatever
  order blocks come in, each node's chain stays linked; syncing ends.
* Peers: every ended connection is removed; banned addresses stay away.
* Miner: one job at a time, `mining` false only when no thread works, no
  deadlock between the queue and the context.
* DNS client: each query is answered exactly once, by its own answer or by the
  timeout.
* DNS server: nothing is served for much longer than its ttl; local names are
  answered locally; every worker comes back; what is queued is taken.
* DNS wire format: what one node writes another reads; packets keep to their limits.

## 2. Plan

1. **Chain** (done): `Block`, `ChainRules`, `Chain`, `LinkedChain`, proofs.
2. **Miner** (done): jobs, threads, cancellation and the two locks.
3. **Network** (done for two nodes): `handle_message` and `handle_block` with
   `seen_blocks` and `future_blocks` on the operators of `ChainRules`.
4. **Peers**: handshakes, the exchange of addresses, reconnection, several
   connections between the same nodes.
5. **DNS** (done): `DnsClient`; `DnsProtocol`, `DnsCache`, `DnsZones` and `DnsServer`
   for the server; `DnsWire` for packets.
6. Key generation, event bus; `check_domain`.
7. Proofs (done): every safety property of the chain, the types and the linked chains of
   the network for any number of nodes, the invariants of the miner, the DNS
   client, the DNS server and the packets. Left: `AgreementIsStable` of the network, and
   liveness, which stay with TLC.

## 3. The chain

### Modules

| Module | Models |
| --- | --- |
| `Block` | `Block` and `Transaction` as records, the difficulty constants, `is_better_than` |
| `ChainRules` | every operator of `Chain` as a function of a chain record: queries, `check_block`, the lottery, `add_block`, `replace_block`, `check_chain` |
| `Chain` | the state machine of one node |
| `LinkedChain` | abstract: a sequence that grows at its top, gives way to a better block below it, and is cut only near its top; beside it, a block of index 0 |
| `MCChain` | the tree of blocks TLC explores |
| `ChainRulesProofs` | lemmas: what each operator of `ChainRules` returns and keeps |
| `ChainProofs` | theorems: types, the linked chain, the refinement of `LinkedChain`, the domains table and who may change it |
| `AcceptanceProofs` | theorems: the caches, signers, the daily interval, panics, restarts |

A chain is one record: `blocks` and `domains` are functions from ids to rows (the
tables), the other fields are the caches of `struct Chain`. A block carries, in
place of bytes, what the checks ask about them: whether its hash and signature are
right (`hash_good`, `signature_good`), how many leading zero bits its hash has
(`hash_bits`), the order in which `is_better_than` ranks hashes (`weight`), and the
tail of its signature that seeds the lottery (`signature`). Subtractions on heights
wrap at `U64`, as in a release build. `check_block` is a `CASE` of the early returns
in the order of the code; its verdicts are `BlockQuality` plus `"Endless"`, for a
search for signers that will never finish.

| Action | Code |
| --- | --- |
| `BlockArrives` | `handle_block` in `network.rs` and the end of mining: `check_new_block`, then `AddBlock`, `ReplaceBlock`, `DropBlock`, `EndSync` or `Hang` |
| `GetSignBlock` | `get_sign_block`, which fills the signers cache |
| `update_max_height` | a peer claims a height |
| `Stop`, `Start` | end of the process; `Chain::new` and `check_chain` as `start_services` calls them |
| `CrashIn...` | the process dies between two SQL statements |
| `Tick` | the clock |

The round over `future_blocks` after a good block appears as further `BlockArrives`
steps; between them the model may do other things, which the code may not, so the
model has more behaviours than the code here.
`rewritten` is a history variable: a stored block has been removed.

**Blocks of index 0.** A node of this code numbers what it mines from 1, but a peer may
send any index, and neither `handle_block` (`network.rs:626-661`) nor `check_block`
(`chain.rs:808-956`) refuses 0. In a release build `block.index - 1` wraps; bound as
`i64` it is -1 and no row is found, so the previous hash is not compared; at the end
`get_block(0)` finds nothing and the block is `Good`. The model has this: a row 0 appears
below the first, the running node takes it for its last block (so `get_height` is 0
until the next start), and a second block
of index 0 is a fork that, if it wins, truncates the table from 0. `Stray` is the row
0, `Numbered` the rows from 1. `ChainIntact` and `LinkedChain` say what holds in
spite of it: the rows from 1 are one linked chain with at most a row 0 beside it, the cached
last block is the top row or row 0, and a block of index 0 costs the chain nothing
unless there is one already. The rules that go by the order of rows (who
owned a domain before, who signed, which full block is the last) have not seen a row
that comes in below them, so the properties that rest on them are stated for
tables without a row 0.

### Bounds

Constants of the protocol are scaled down, keeping their order: signing starts at
block 4 (`BLOCK_SIGNERS_START`, 35 in the code), 3 signers of which 2 must sign (7 and
4), `LIMITED_CONFIDENCE_DEPTH` 1, a domain lives 1 time unit and can be renewed for
1, the daily interval is 2, a restart re-checks 2 blocks (`check_blocks`, 8). The
first four blocks are fixed (four keys, three domains); above them each block has one
child of each kind in `Kinds`, up to 3 levels (2 with crashes), so that every pair
of kinds competes for each height and a fork can remove a full block, a signing
block or both. Kinds include a late-dated block, a takeover, a transfer, a
change by the old owner, a first registration, and the first block of another network (`o3`).
Beside the tree there are blocks of index 0, each with a block of index 1 above it: a
registration in `chain_forks`, two competing signing blocks in `chain_crash`, so that the
second can take the place of the first. The clock runs to 4 in `chain_forks`,
enough for a domain to expire, and to 2 in `chain_crash`, the timestamp of the
highest blocks there. `chain_forks` has 19,730 states, `chain_crash` 23,761. Deadlock is checked; nothing has to be assumed
fair, since every property here is one of safety.

### Runs

| Run | Shows |
| --- | --- |
| `chain_forks` | under forks, lag, restarts and blocks of index 0 the chain is intact and the domains table mirrors the blocks; and as long as there is no row 0: the cached last full block is current until something is removed; a cached set of signers is what a new search would find; what `get_sign_block` offers is accepted by the node itself; signers sign once; domains are changed by their owners only; a key's new domains are a day apart; a restart comes up with every accepted block. No row is in the way of a new one, so the one panic left is that of a start on a foreign first block |
| `chain_crash` | with a crash between any two statements, and with blocks of index 0, the rows from 1 are still one linked chain and implement `LinkedChain` |
| `chain_ownership_gap` | violated: the block directly above a registration may take the domain |

The violated property states what a comment of the code and the documentation say;
PROJECT.json quotes them under "findings". Seven more observations, which the
model shows and no run states:

* `is_good_sign_block` returns early for every full block (`chain.rs:961`), so a full
  block may follow another with no signing block between them.
* `replace_block` leaves `last_full_block` as it was (`chain.rs:275`): when the fork
  that wins is a signing block, a removed block stays the "last full block".
  `LastFullTracksChain` is therefore stated for chains nothing was removed from.
* A crash between the two `DELETE`s of `truncate_db_from_block` leaves a row of
  domains; the next domain block of that id panics at `chain.rs:265`.
  `PanicMeansForeignOrigin` is therefore checked without crashes.
* `check_block` compares with the origin only on an empty chain, so a fork of block 1
  may put another first block there. `check_chain` panics on it at the next start:
  the exception in `PanicMeansForeignOrigin`.
* A block of index 0 is accepted (above). The node that has it signs nothing and asks for
  blocks from 1 until it is restarted, and a better block of index 0 removes all rows.
* Without an origin in the settings `check_block` compares with none (`chain.rs:913`), but
  `check_chain` compares all the same (`chain.rs:133`) and panics at the next
  start. `RestartKeepsChain` is therefore stated for networks with an origin.
* `is_better_than` is not an order between a full block and a signing block of the same
  height with more work: each is better than the other (`block.rs:101`), the full one as
  such, the signing one by its hash.

### Proofs

For every set of blocks and every value of the constants allowed by the
assumptions of `Block`, `ChainRules` and `Chain`. Of these, the ones that matter:
a block is not one of the absent values and its index is below `U64`; some hash is not among `WRONG_HASHES`; the numbers of signers and the depths
are naturals. `ChainRulesProofs` holds the lemmas about the operators, written over a
chain record, so that each operator has one lemma saying what it keeps.

* `TypeCorrect`, `ChainStaysIntact`: `CrashSpec => []TypeOK` and `[]ChainIntact`.
  Neither is inductive alone: what `check_block` lets in depends on `last_block` being
  the top row or row 0, and what it reads on the types of the caches. The invariant
  `GInv` is `TypeOK` and `ChainIntact` together, in terms of the rows from 1 (`KeptChain`)
  and a row 0 that may be there. Blocks may have any index.
* `ChainImplementsLinkedChain`: `CrashSpec => IsALinkedChain`, from the same
  invariant: a good block extends the ledger, a winning fork reorganises it,
  a start or a crash cuts it no deeper than the code allows, and blocks of index 0 are kept
  beside it. The steps are proved as `Mapped`, which also says that a row 0
  once stored is lost only in a crash while it is being replaced (`StrayStays`): a
  table without a row 0 has therefore never had one, or has grown again from nothing. That is what lets the
  theorems below assume `Stray = NoBlock` in one state and use it in the state before.
* `DomainsAlwaysMirrorBlocks`, `OwnershipIsKept`: `Spec => []...`. The invariant
  `MInv` says that the domains mirror the blocks, with a row 0 too; `KInv`
  that without a row 0 ownership is kept, which follows from
  `is_id_available` having been evaluated on the rows below the new block. They
  are theorems of `Spec` and not of `CrashSpec`: a crash inside `add_block`
  really loses a row.
* `LastFullAlwaysTracksChain`: `CrashSpec => []LastFullTracksChain`. The invariant
  `LInv` says it of a running node; `add_block` and the walk of `check_chain` keep it,
  `replace_block` sets `rewritten`.
* `CachedSignersAreFresh`: `CrashSpec => []SignersAreFresh`. That the cache is fresh
  when it would be used is not inductive: `CInv` says that cached signers are those of a block
  *within* the chain, found by a search that ended, and that they are what a new search
  finds whenever that block is the cached last full one. The cache is keyed by height
  alone; it stays true because every change of the table clears it or appends above
  everything the search reads. The hard case is `check_chain`, whose rounds fill the
  cache for one full block after another while the loop's own `last_full_block`
  moves on (`LastAskingRound`).
* `SignOffersAreAlwaysAccepted`: `CrashSpec => []SignOffersAreAccepted`, from `CInv`:
  the signers the offer was filtered by are those the check will search or read.
* `SignersAlwaysSignOnce`: `CrashSpec => []SignersSignOnce`. The invariant `SInv`: until something
  is removed the first block is the origin, and every other row that had to be signed was, by a
  search on the rows below it that *ended*. `LInv` and `CInv` are needed to know that
  what `check_new_block` looked at was the chain and not an old cache.
* `NewDomainsStayADayApart`: `Spec => []NewDomainsAreADayApart`. The invariant `AInv`
  says of every row but the first, in terms of the rows below it, all that
  `check_block` asked when it let the block in: times, difficulty, hash and signature,
  ownership, the daily interval.
* `RestartAlwaysKeepsChain`: `Spec => RestartKeepsChain`, the action property. From
  `FullInv`, all of the above together: `check_chain` asks the same questions with a
  greater height, a later clock, its own last full block and a cache it fills as it
  goes. Each answer is shown to be as good as before: a later clock only widens the
  limit on timestamps and frees domains, the difficulty asked for does not grow with the
  height (`DiscountGrows`), the domains found are rows below the block, and the searches
  end because they ended then (`RecheckIsGood`).
* `PanicsMeanForeignOrigin`: `Spec => []PanicMeansForeignOrigin`, from `GInv` and `MInv`: the rows of
  domains are within the rows of blocks, so no insertion meets one.

`IInv` is `GInv` without a row 0. From `LastFullAlwaysTracksChain` on, the
invariants are proved of such tables (`CachesHold`, `SignedHold`, `FullHold`), `PanicsMeanForeignOrigin`
of all.

All safety properties of the passing runs of the chain are thus theorems. TLC
checked each of the invariants above on the instance of `chain_forks` before it was
proved.

### Limits

* `migrate_db`, `clear_db` and the options table are left out; so are the queries
  only the GUI and DNS use.
* `check_block` does not refuse a fork of block 1 that is not the origin; the
  start after it panics, and the model has that (`status` = "panicked").
* A transaction of an unknown class would panic in `add_block` but cannot get there: its
  difficulty is `u32::MAX`.
* `check_chain` does not restore a missing row of domains; the model neither.

## 4. The miner

`Miner` models `miner.rs` with those who disturb it: the GUI's
`action_create_domain`, the network changing the chain, and the thread of
`create_genesis_if_needed`. The point of the module is the concurrency: two mutexes
(the queue of jobs, the context), the flag `mining` that all threads of all jobs
share, and `live_threads`, one counter per call of `mine_internal`.

A step that takes and releases a mutex is one action. A mutex held over several
steps is read off the program counters: `QueueLocked` from the lock in
`run_main_loop` to its wait, the whole of `mine_internal` included; `ContextLocked`
while the genesis thread adds its job and while a thread gives up a signing block.
A job is three facts: is it a full block, is its key strong enough, is it due.

| Action | Code |
| --- | --- |
| `Top`, `TakeJob`, `CancelJob`, `ReplaceJob`, `LeaveQueue`, `Ask`, `Wait`, `WaitEnds` | `run_main_loop` |
| `Mine`, `Begin`, `Spawn` | `mine_internal`: give up a missed signing block, tell the context, spawn a thread every 100 ms |
| `Run`, `None`, `LastOut`, `Found` | the closure of a thread around `find_hash` |
| `Look`, `Choose`, `Hash`, `Drop` | `find_hash`: read the chain, wait for signers, hash, notice an outdated block |
| `CreateDomain`, `AddBlock` | the GUI, which lets go of the context before `add_block` |
| `LockForGenesis`, `AddGenesis` | `create_genesis_if_needed`, which does not |
| `StopMining`, `Quit`, `ChainChanges`, `JobIsDue` | events, the network, time |

**Bounds.** Signing from height 2 on, by 1 block; chains that start at height 0
and 2, so that genesis, waiting for signers and neither of these happen; one thread a
job, several jobs at a time; `MaxFull` jobs of the GUI, `MaxSigning`
of the chain and `MaxTip` changes of the chain. What several threads of one job do to
their common counter is left to the theorems, which hold for any number of them. Deadlock is not checked: the process may be
quit, and the genesis deadlock has a run of its own.

**Fairness.** The main loop and each thread run when they can (weak fairness);
a moment in the future comes (`JobIsDue`). `AddBlock` and `AddGenesis` get strong
fairness: the queue's mutex is released again and again for waits of up to 30
seconds, so a thread blocked on it is woken. That a hash is found, that a
user stops mining or that the network sends a block is never assumed.

| Run | Shows |
| --- | --- |
| `miner_progress` | a signing job replaces a full one, and threads of a job live on into the next: the count never passes zero, and when the last thread is gone the context does not go on saying "mining"; while the flag is up a thread of the latest job is there to lower it, so the loop is never stuck; threads end once mining is stopped, even those asleep for signers; the GUI gets its job into the queue |
| `miner_genesis` | violated: context then queue, against queue then context |

**Proofs** (`MinerProofs`), for every number of threads and jobs:
`MinerTypeCorrect`, `IdleIsAlwaysShown`, `MiningAlwaysMeansWorking`, each
`Spec => []...`. One invariant `IndInv` carries all three. The property about the
context is not inductive: that the last thread reports needs `live_threads` to
be exact, and it is not exact in general, since a thread that finds a hash is never
taken off. The invariant says what is true instead: the count of a run is never
below the number of its threads that will still be subtracted (`CountCovers`); threads not
spawned yet belong to the last run only, while the loop is at `Spawn` (`RestUnborn`); and as
long as the context says "mining" the count of the last run is exact and some thread
of it is alive or about to be spawned (`StateIsOwned`), since the first finder
withdraws it. Left to TLC: the two liveness
properties.

**Limits.** `MinerStats` and hash rates, the lock of the event bus and the
update of `settings.origin` after the genesis block are left out. `Miner::stop` has no
caller; `Quit` is the event. `Event::MinerStopped` may be posted twice for a job, and
a finder that gets the context late may lower the flag of the next
job, which is then lost; only the head of the queue is looked at while a full job is
mined, so a signing job can wait behind another full job. The model has all three,
nothing in the repository denies them. A comment ("waiting for threads to finish",
`miner.rs:133`) says that the threads of a cancelled job end; the code waits 100 ms, and
a thread asleep for 5 s survives it. The properties hold with such threads around.

## 5. The DNS client

`DnsClient` models `DnsNetworkClient` of `dns/client.rs`: any number of threads call
`send_query`, two reader threads (IPv4 and IPv6) deliver answers, and one thread
gives up on what has waited more than five seconds. The list of pending queries has a mutex, so each
visit to it is one action; the packet counter is an atomic without a mutex, so
`fetch_add` and `compare_exchange` are two actions that others may come between.
Queries are numbered in the order of their ids; the number stands for the question,
and an answer carries the number of the query it answers.

| Action | Code |
| --- | --- |
| `Ask`, `ResetSeq`, `Push`, `Send`, `Receive` | `send_udp_query`, in this order; `PushFails` is its error when the lock of the list is poisoned |
| `AskByTcp`, `TcpEnds` | the rest of `send_query` after a truncated answer, and `send_tcp_query`, which shares the counter |
| `Deliver`, `ReaderEnds` | the two reader threads of `run` |
| `Panic` | a reader discards a datagram without a question: `packet.questions[0]` panics with the lock of the list held (client.rs:270, 329). The thread is gone and the lock is poisoned |
| `Drop` | the other reader from then on: it cannot take the lock and drops what it reads |
| `Reap`, `ReaperEnds` | the timeout thread of `run` |
| `GetsLate` | five seconds have passed for a query |
| `Stop` | `stop`, which takes `&mut self`: nobody is inside a call then |

**Bounds.** Two callers, 3 ids in place of 2^16, 4 queries: the counter is set back,
or misses being set back because the other caller came between, and ids are used
again while earlier answers are still under way. Deadlock is not checked: after
the last query and `Stop` nothing is left to do.

**Fairness.** A caller's thread runs when it can, time passes for every pending query, and the
timeout thread runs. That an answer arrives, that a reader runs, or that a TCP server answers is
never assumed: `send_tcp_query` sets no timeout, so nothing is said of when it returns.

| Run | Shows |
| --- | --- |
| `dns_client` | a call that waits has one entry in the list or one message in its channel, never both or neither (so `LookupFailed` is never returned); an answer reaches a query not its own only if at least `IdLimit - 1` queries lie between the two; every wait over UDP ends, answered or not, but for the calls that stand in the list when a reader panics: nobody can take the lock again, neither the other reader nor the timeout thread has an effect, and these calls never return, while later calls get an error |

**Proofs** (`DnsClientProofs`), for every number of callers, readers, ids and queries:
`ClientTypeCorrect`, `AnswersGoAstrayOnlyAfterARound` and `NoWaiterIsEverForgotten`, each
`Spec => []...`. That two queries with one id are far apart is not
inductive, since it says nothing about the counter. `IdInv` says where the counter is:
`RoundIsKept` gives, for every earlier query, the distance between its id and the next one
(`Expected`), whether or not a reset is under way, and `IdsFarApart` follows when an id is taken; entries
and messages carry the ids of their queries. `WaitInv` adds that callers have
different queries, that a query has at most one entry, and that a channel is empty before its
query joins the list (`NewIsUnheard`, `OneEntryEach`, `Served`). `QueriesEnd` is left to TLC.

**Limits.** The counters of statistics and `HttpsDnsClient` are left out. Ids
wrap as in a release build; in a debug build `packet.header.id + 1` overflows at id
65535. A datagram that nobody asked for may come at any time when no query with its id is
pending; one with the id of a pending query is taken to be the answer of a server that was
asked. `packet.write` and `to_socket_addrs` fail as `send_to` does.

## 6. The network

`Network` models nodes that exchange blocks: the loop of `p2p/network.rs`, the
messages it handles, and what `peers.rs` and `peer.rs` decide between events. Each
node owns a chain record and works on it with the operators of `ChainRules`, so a
block is judged here by the same `check_block` as in `Chain`.

| State | Code |
| --- | --- |
| `chain`, `seen`, `future` | `context.chain`, `seen_blocks`, `future_blocks` of each node |
| `peer[n][m]` | node n's `Peer` for m: `state` (Idle, or the one message that waits to be sent), `height`, `received_block`, `sent_height`; `reads` and `armed` say what the poll was asked to report and whether it will |
| `wire[n][m]` | what n has written and m has not read |
| `ignored` | `Peers.ignored` |

| Action | Code |
| --- | --- |
| `Connect` | `connect_peers` of a node without connections, with what the Shake tells |
| `Break`, `ReadClosed` | an end fails or is stale; the other end finds out |
| `Write` | `process_writable`: the waiting message goes out, the end is idle |
| `ReadPing`, `ReadPong`, `ReadGetPeers`, `ReadPeers`, `ReadGetBlock`, `ReadBlock` | `process_readable` and the arm of `handle_message`; `ReadBlock` is the whole of `handle_block` |
| `Update` | `Peers::update`: pings, requests for missing blocks, pings to those behind, bans that end |
| `ClearSeen`, `Mine` | `seen_blocks.clear()`; the end of `mine_internal` |

Two details of the sockets matter, and are modelled. A socket with a message waiting is
registered for writing only, except after a ping of `update`, when it may also be
read; the answer to what is read then takes the place of the ping. And the poll
reports edges: after one message has been read with more in the buffer, nothing is
reported until the socket is registered again or more arrives (`armed`).

**Bounds.** Two nodes share two blocks and have mined up to three of their own;
`MaxWire` is one message in the buffers of a socket, besides the one that waits in
each end, so that requests and blocks cross in both directions; one connection may
break (`MaxFaults`), one block may be mined meanwhile (`MaxMined`). Blocks here are
signing blocks below `BLOCK_SIGNERS_START`: what the network adds to `Chain` is the
order in which blocks and heights come, not what is in them. In `net_swap` one node may
also start with a block that registers a domain (`Registrars`), made with less work than the
signing blocks. Which of two blocks of
one height is better is fixed by the miner's key. `LIMITED_CONFIDENCE_DEPTH` is 0,
1 or 2, so that a walk back both succeeds and fails.
Three nodes are beyond TLC.

**Fairness** (`FairSpec`). The loop goes round: what can be read or written is
(weak fairness of `Read`, `Write`, `ReadClosed`), a node without connections
connects again, `seen_blocks` is cleared every minute. A connection that is idle
again and again is pinged again and again (strong fairness of `PingsPeer`:
`update` runs between events and an end may be busy at any given moment), and bans are
purged after ten minutes. Neither mining nor the choice to ask for blocks
in `update`, which is random, is assumed.

| Run | Shows |
| --- | --- |
| `net_sync` | two nodes whose chains differ, the better one shorter, as long or longer, come to the same chain for good, although a connection breaks; once they agree, no late block of the fork that has lost undoes it |
| `net_forks` | orphans, future blocks, forks and bans with a block mined and peers exchanged meanwhile: each node keeps one linked chain, and a future block waits under its own index |
| `net_swap` | violated: a node gives up a block for one that is no better, since each of the two is better than the other (`ForksAreDecided`) |
| `net_sync_end` | violated: after a longer chain has lost, the node that noted its height stays "syncing" and refuses to sign, though it has every block there is |

Convergence is checked without exchange of peers: the code chooses at random between
a ping and a request for peers, and fairness that excludes choosing the same for ever
would have to speak of probabilities.

`is_better_than` prefers a full block to a signing
block before it looks at the work and has no counterpart for the other way round
(`block.rs:101`), so if the signing block has more work each is better than the other and
`network.rs:714` takes whichever comes last, while `docs/about_ru.md:47-49` says that a node that has
both can tell unambiguously which is better. `net_swap` shows it in eight steps. On its starting chains
`AgreementIsStable` and, under `FairSpec`, `NodesConverge` are violated as well: the nodes exchange
their blocks and then exchange them again. `net_sync`
is about blocks that `is_better_than` does rank. `is_waiting_signers` makes the pair rare: it takes a
node whose last full block is not the others' (see the second observation in section 3).

In `net_sync` a node that lags by `LIMITED_CONFIDENCE_DEPTH` takes the other's fork even if it is the
worse one, and the other's future blocks wait for the gap to close. That a node which has agreed still
believes it lags, and then gives way to a late block, is not reached with two nodes: what was on
the way when the height was noted is read first.

Observed while choosing the instances, without a run: if both sides have more blocks of their
own than the walk back allows, the orphan is Bad, each bans the other, and they never
agree; and a chain shorter than `LIMITED_CONFIDENCE_DEPTH` wraps the subtraction
at `chain.rs:858`, which makes any orphan Bad.

**Proofs** (`NetworkProofs`), for any finite number of nodes, any blocks, any bounds
on wires, faults and mined blocks. Assumed of the constants: each node starts with a
linked, non-empty table (what `ChainIntact` says a node leaves behind), and what
`ChainRules` assumes of blocks.

* `NetworkTypes`: `Spec => []TypeOK`; `ChainsAlwaysLinked`: `Spec => []ChainsStayLinked`.
  Neither is inductive. The invariant `NInv` says of every node that its chain is sound in the
  sense of `ChainRulesProofs` (so the lemmas about `check_block`, `add_block` and
  `replace_block` apply), is never empty, and has a true last block; that finitely many
  blocks wait in `future_blocks`, each under its own index; and that every waiting or
  sent message is well formed, since a `Block` message read later must hold a block, and one
  whose index is not 0 (`MinedBlocks`): a node numbers what it mines above its chain.
  The loop over `future_blocks` in `handle_block` is a recursive function; that it exists
  and that each of its rounds keeps the chain and the waiting blocks is shown by the least
  round that would not (`RoundsExist`, `FutureBlocksKeep`).

Only model-checked: `AgreementIsStable`, which depends on which blocks are on all wires and in
all `future_blocks` together, and `NodesConverge` and `SyncEnds`, which need fairness.

**Limits.** The handshake is one step: key exchange, versions, origins, `Loop` and
`Twin` are left out, and so is the list of addresses from an exchange, of which only
the traffic remains. Nodes follow the protocol and circulate the blocks that one of them has mined; what any other
block does to a chain, one of index 0 among them, is the subject of `Chain` (section 3).

## 7. The DNS server

| Module | Models |
| --- | --- |
| `DnsProtocol` | records and packets as values, and the questions the resolver asks of a packet (`get_unresolved_cnames`, `get_resolved_ns`, ...) |
| `DnsCache` | `dns/cache.rs` as a value: for a name and a type a set of records, each with the time it was stored, or the fact that there are none |
| `DnsZones` | what is answered locally: zones (`authority.rs`), the hosts file (`hosts.rs`), domains of the chain (`blockchain/filter.rs`) with wildcards, CNAMEs and name servers of their own |
| `DnsServer` | the threads of `dns/server.rs`, `execute_query`, `resolve_cnames`, and the two resolvers of `dns/resolve.rs` |
| `MCDnsServer` | a small world to be asked about |
| `DnsServerProofs` | theorems: types, the bound on staleness, local names |

A name is the sequence of its labels. A worker is a record: its program counter, the
question, the packet in hand, the reply so far, the CNAMEs still to be followed with
their depth, and the stack of questions a recursive resolver has put off to find
the address of a name server. The cache has a lock that is taken for each call, so
each `lookup` and each `store` is a step and everything between two of them may
interleave (two places are coarser: the lookups from which the recursive resolver starts,
`StartAtClosest`, resolve.rs:137-154, are one step, and so are its three stores of one packet in
`QueryServer`, resolve.rs:169-171 and 187-189); the clock may even move inside a `lookup`, between the test and the
collection of the answers. Records carry their origin (who said it, about which
name, when) as history; no rule reads it.

| Action | Code |
| --- | --- |
| `ReceiveUdp`, `AcceptTcp` | the two threads named `-incoming`: a repeated request is dropped, a TCP connection goes to a random worker |
| `TakeUdp`, `TakeTcp`, `ReadQuery` | a worker takes a request |
| `AnswerEarly`, `LookUp`, `LookUpCname`, `Filter`, `Store` | `DnsResolver::resolve` in the order of the code |
| `LookUpAgain`, `Ask`, `AskFails` | `ForwardingDnsResolver::perform` |
| `StartAtClosest`, `QueryServer`, `ReturnToLoop` | `RecursiveDnsResolver::perform`, with its inner call of `resolve` |
| `Return`, `Send` | `resolve_cnames`, `execute_query`, the reply |
| `WorkerEnds` | a reply cannot be sent, a TCP client is gone, or the port of the client in `lookup_from_ns` is taken: the thread ends and nobody replaces it |
| `Tick`, `ChainMoves` | time; a block changes a domain |

**Bounds.** One worker of each pool: two threads over one cache. The clock runs to 2,
with records of a ttl of 1 and 2, so that a record expires between any two steps.
`CNAME_DEPTH` is 2 (10 in the code), one place in the table of recent ids (256),
one worker may end. The world has two local zones, one within the other, a hosts file with one blocked name,
a forwarder, two CNAMEs in a circle, a domain whose data changes, one of broken
data and one with name servers of its own that answer, deny, refer with and without
an address; `Loads` are nine small sets of requests about it, each run with both
strategies. Deadlock is not checked: when the load is done nothing is left to do.

**Fairness.** A worker's thread runs: weak fairness of the steps of `Work(w)` that wait for
nobody. No fairness is given to what others must do (`Waits`): a TCP client that sends its query
(server.rs:321 reads without a timeout) or takes the reply, a forwarder or name server that answers
(the wait over UDP ends, but a truncated answer is asked for again over TCP, without a timeout).
Nor is it assumed that referrals end: the world of the run has two name servers that refer to each
other for ever. That requests come, time passes or the chain changes is not assumed either.

| Run | Shows |
| --- | --- |
| `dns_server` | a record is cached once, under its own name and type, stamped in the past; a record found by a second look into the cache is stored as if it were new, but this happens at most once for each other worker, so staleness is bounded, and reached: a record is served for twice its ttl in this instance; about a name of the local zones, the hosts file or the chain nobody else is believed when asked for it; a worker comes back again and again, also from CNAMEs in a circle that it has to ask for each time, unless one call of others never ends or one run of the referral loop goes on for ever; what is queued is taken unless every worker that could take it is kept like that or has ended |

**Proofs** (`DnsServerProofs`), for any finite pools of workers, any sets of requests, both
strategies, any zones, hosts file, forwarders and answers of other servers, and any
sequence of versions of the chain. Assumed of these (`DnsServerAssumption`,
`WorldAssumption`): what is read from them is made of records, with a ttl that is a natural
number and names in CNAME and NS records; the hosts file gives addresses only; no
server is named "hosts", a mark that records its origin alone.

* `ServerTypes`, `StalenessIsAlwaysBounded`, `FilteredNamesAlwaysStayLocal`: `Spec => []...`
  of `TypeOK`, `StalenessIsBounded` and `FilteredNamesStayLocal`. None is inductive; all
  three follow from `SInv` (`ServingIsInductive`).
* Staleness. That a record is at most `|Workers| - 1` ttls old when it is stored says
  nothing of the next store. `SInv` counts the *waiters* of a key: workers that have missed it
  and may still look a second time (from `cname` to `perform`). A valid record's age is at
  most the number of workers that are neither the storer nor waiters, times its ttl
  (`Room`, `Fits`): each second look that finds the record turns a waiter into the storer and
  makes room for one more ttl. A worker can become a waiter only by a miss, that is when
  no record of the key is valid (`MissIsStale`), and a packet in hand that comes from the
  cache is stored before the clock moves, while its key is still fresh (`InHand`).
  Records of the hosts file never get that far, since `perform` is reached only for names
  that are not in it.
* Local names. `SInv` says for each point of `resolve` what the code has established
  about the question (`WorkPoint`): past the zones from `cname` on, and *vetted* by zones,
  hosts file and a version of the chain from `perform` on, also for the questions put off
  on the stack of the recursive resolver; every record from a server in the cache, in a
  result or on a stack says about which vetted name it was asked. A version of the chain
  that left the name to others stays one of those seen.
* `ServerTypes` needs, besides, that queued requests are well formed, that the names in
  CNAMEs to be followed are names, and the capacity and uniqueness of `working_ids` as the
  table is rotated and cut (`RemovedAt`, `FirstsOf`).

TLC checked `SInv` on the instance of `dns_server` with a third worker before it was
proved. Only model-checked: `WorkersComeBack` and `RequestsAreTaken`, which need fairness.

**Assumptions and limits.** The thread is not held up for a
whole tick between having a packet and storing it.
Several hosts files are one file, the first line of a name counting. `allow_recursive`
is true in `dns_utils.rs`. Left out: statistics, hits and updates of entries,
authorities and resources of the reply, PTR records of a domain, EDNS,
`Zones::load` as reading of files, and `Zones::save`, `add_zone` and
`delete_record`, which nobody calls.

Observed, and kept by the model:

* What comes along with an answer is cached unseen: a forwarder that answers a CNAME
  together with the address of its target fills the cache for the target, and since
  the cache is asked first (`resolve.rs:45`), a line of the hosts file for the target is
  not used until that record expires. `FilteredNamesStayLocal` therefore speaks of
  records that were asked for.
* Without forwarders the recursive resolver starts from the cache alone; nothing
  puts root servers there (a comment, `resolve.rs:114`, speaks of them), so on an empty
  cache it fails with `NoServerFound` until a domain of the chain has left an NS
  record and its address in the cache.
* `ends_with` compares strings, so a zone `p.lan` also answers for `xp.lan`
  (`authority.rs:198`).
* An entry that expires between `get_cache_state` and `fill_queryresult` gives an answer
  without records and code NOERROR.
* Two servers that refer to each other keep `RecursiveDnsResolver` in its loop, which has
  no bound (`resolve.rs:159`, `:201`); a TCP client that sends nothing keeps its worker, and
  connections go on being queued for that worker (`server.rs:321`). `WorkersComeBack` and
  `RequestsAreTaken` name both as the only ways to lose a live worker.
* A TCP worker that has ended is still picked; its share of connections is dropped.

## 8. DNS on the wire

`DnsWire` follows one packet: `DnsPacket::write` measures its records on a buffer of their
own (`MeasureRecord`), writes header, question and the records that fit
(`WriteHeader`, `WriteRecord`); `from_buffer` reads them at the other end (`ReadHeader`,
`ReadRecord`), and what was read goes into a reply of the reader (`PassOn`). A buffer maps positions to what
begins there (a label, a pointer, the end of a name, the numbers and bytes of a
record), with lengths in bytes, so positions, sizes and pointers are those of the
code; the letters are not kept. Two conversions change lengths and are kept: `to_lowercase`
of a label (`Lower`), and `from_utf8_lossy` of a text behind its length byte. A reply leaves
out a record its section already has (`Pushed`). The flags of the header are packed into
their two bytes and unpacked bit by bit.

**Bounds.** `MCDnsWire`: every type of record, up to two answers, one authority and one
resource, names with common endings, in two cases, and the root; a label of 63 bytes that
has 66 in lower case, and so is sound on the first hop and not on the second; a text that
leaves room for few other records in a datagram and one beyond the 14 bits of a pointer;
every combination of flags; two further hops. Both transports: 480 bytes into the
512-byte buffer, 65535 bytes over TCP. Deadlock is not checked, as the packet has arrived.

| Run | Shows |
| --- | --- |
| `dns_wire` | whatever names are written as pointers to which others, the records that fit are read in their sections, in order and unchanged but for two things: names become lower case and a TXT record grows by one byte or by three; flags survive; a packet exceeds its limit by at most the four bytes per question that `binary_len` leaves out, and nothing is cut that would have fitted; pointers lead back to a label; the header counts what is there |

**Observed, and kept by the model:**

* A TXT record is written with a length byte, which the reader takes as part of the text: it
  grows with each hop (`protocol.rs:272`, `:435`), by one byte if the length byte is below 128 and
  by the three bytes of U+FFFD if not (`from_utf8_lossy`, `Longer`).
* Of a label's length one byte is written (`buffer.rs:75`); 64 or more is read as a jump
  (`buffer.rs:115`) or as the length of a shorter label. Names of such labels can come from domain
  data of the chain, from hosts files, and from packets: `from_utf8_lossy` (`buffer.rs:139`)
  makes three bytes of an invalid one, `to_lowercase` lengthens some letters. The model writes
  them; reading one ends in "garbage". `Clean` packets have none.
* Records of unknown types are counted and not written (`protocol.rs:466`): the
  reader of a datagram reads zeros in their place, one over TCP fails. `Clean` packets have none.
* The root is written as two zero bytes (`"".split('.')` has one, empty, label), so a
  reader is one byte off after a question about the root or a SOA record of it.
* Behind 2^14 bytes a pointer loses bits: TCP packets that long may be misread
  (`buffer.rs:64`).
* The limit 65535 and the four bytes of the question: a reply of 65536 to 65539 bytes has a length
  prefix that wrapped (`netutil.rs:13`).
* A `BytePacketBuffer` refuses a range that ends with its last byte (`buffer.rs:339`); with
  480 bytes written this is not reached.

**Proofs** (`DnsWireProofs`), for every set of packets, labels, bodies and hops that
`WireAssumption` allows: lengths are naturals, the empty label is its own lower case, a packet
has at most one question. All four properties
of the run are theorems.

* `BuffersAreSound`: `Spec => []TypeInv`. A buffer is *sound* (`Sound`) if its cells end where
  it ends, saved labels are at cells that begin a label, and pointers lead back. Each writer has a
  lemma that it keeps a buffer sound and only adds to it (`SoundName`, `SoundRecord`,
  `Grows`), each reader one that it returns what its type says whatever it meets.
  `PointersLeadBack` follows: a pointer is written where the buffer ends, to a saved label.
* `CountsAreTrue`: `CountInv` says that the counts of the header describe a prefix of the
  records (`CountedTo`) as long as what was measured, and relates the records in the buffer to
  the ones written so far.
* `PacketsAreCutToSize`: the limit is checked on the measuring buffer, the property speaks of
  the one that is sent. `SizeInv` says the two are *in step* (`InStep`): the same names are
  saved in both, so the same ones become pointers, and their ends are always the header apart
  (`InStepName`, `InStepRecord`). `Trace` is the measuring buffer after k records.
* `PacketsArrive`: `Spec => []WhatIsWrittenIsRead`. The invariant `TripInv` needs a
  *reading* of the buffer: two functions S and E that say of each cell which name begins there
  and where reading goes on behind it (`Spells`). They exist because `write_qname`
  extends them by the labels it writes and points only to places where the rest of the name is
  what S says (`SpellsName`, `SpellsRecord`); nothing written later changes them
  (`Keeps`, `RecordKept`). The loop of `read_qname` then collects S of where it started
  (`RoundOn`, `NameIsRead`); it ends within its rounds since what remains of the name gets shorter
  with each label and only labels follow a pointer (`Weight`, `Above`). Record
  by record the sections of the packet are read in order (`ReadOneMore`), and a datagram is short
  enough for `BytePacketBuffer` to hand out its ranges (`SentIsShort`).

The flags come back bit by bit (`FlagsReturn`). Recursive definitions (`Positions`,
`read_qname`, `Trace`) are recursive functions; that they exist and unfold is shown by an
induction over a set of naturals (`LeastNatural`, `UpTo`), which the provers can do.

**Limits.** What a reader makes of a label of 64 bytes or more is not followed beyond "garbage".
EDNS sizes (`server.rs:210-215`) and the id are left out: the reader of
a longer datagram is another program. A question is not measured: one whose name alone
is longer than a datagram, which DNS does not allow and the code does not refuse, is left out
of `WhatIsWrittenIsRead`.
## Other components

PROJECT.json lists each with the reason it is not modelled or when it is planned.
