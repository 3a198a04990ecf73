# CommonFoundry Devnet-0 in TLA+

This directory models the stateful core of CommonFoundry: the devnet node with
its peers and its pool (`crates/cmfd-node`), the consensus rules it applies
(`crates/cmfd-consensus`), the inference payment channels
(`crates/cmfd-marketplace`), the standalone miner (`crates/cmfd-miner`) and the
wallet with its mining manager and its hosted services (`apps/wallet`). TLC
checks the modules on small instances; TLAPS proves most of the safety results
for every value of the constants.

## 1. The system

| Component | State it keeps | Operations | Interacts with |
|---|---|---|---|
| Consensus ledger (`chain.rs`) | UTXO set, next height, tip, timestamps, active and retired channel outputs | `validate_block`, `commit_validated`, `validate_transactions_for_next_block` | called by the node for every block and transaction |
| Fork index and chain (`BlockIndex`, `prepare_block`, `commit_prepared`) | indexed blocks with cumulative work and acceptance time, active chain | `submit_block` | ledger, block log |
| Block log (`encode_record`, `replay_log`) | append-only `blocks.log` | append, `sync_all`, replay in `Node::open` | fork index |
| Mempool | transactions by txid, byte counter | `submit_transaction`, `revalidate_mempool`, `build_template` | ledger state, mining, peers |
| Peer synchronization (`p2p.rs`) | one polling thread per node, bounded inbound listener | pull (headers, blocks, mempool), relay, responder | two nodes, each behind its own mutex |
| Peer session (`peer.rs`) | handshake phase, message, byte and time budgets | frames in and out | every connection |
| Pool (`pool.rs`) | current job with its seen nonces, session and payout ledger, connection threads | hello, register, submit share, rotate, credit, stop | node, wallet miners |
| Payment channel (`cmfd-marketplace`) | signed states and receipts (off chain), one channel output (on chain) | `initial_state`, `next_state`, `verify_state`, `verify_receipt`, `Settlement`, `refund` | ledger's channel transactions |
| Data directory | metadata, wallet key, lock file | lock, load, migrate, create | `Node::open` |
| Standalone miner (`cmfd-miner`) | template, GPU threads, message channel, found block; in full-node mode also an own node | fetch, search, monitor, join, submit, retry; synchronize, poll, relay | one of several nodes |
| Wallet (`send_from_dev_wallet`, `consolidate_dev_wallet`, history) | none of its own: computed from UTXO set, active chain and mempool | send, consolidate, snapshot, history | ledger, mempool |
| Wallet mining manager (`apps/wallet`, `mining.rs`) | control slot, status, worker thread, pool connection | start, stop, shutdown, reconnect | own node or a pool |
| Peer services (`p2p.rs` listener and poller, `runtime.rs`) | inbound slots, worker handles, table of observed peers | start, accept, reap, poll, stop | sessions, node |
| RPC service (`lib.rs`) | one thread, one connection at a time | read, route under the node's mutex, write | node |
| Wire codec (`wire.rs`, `peer.rs`) | none | encode and decode transactions, blocks, messages, frames | log, peers, RPC |
| Emission and difficulty (`economics.rs`, `difficulty.rs`) | none | subsidy, allocation, supply, next target, work | ledger |
| Proof of work (`forgematrix*`, `sumcheck`, `model_bank`, CUDA) | none | pure functions | ledger |

What is hard in it:

* blocks arrive in any order and on any branch; the fork index, the chain state
  and the mempool are separate structures that one handler updates together;
* the block log is written before memory is changed, and a crash, a failed
  write or a failed sync can fall between any two of those steps;
* a restart has to reach the same tip from the log, validating old blocks under
  the clock of the day they were accepted;
* a peer session holds the node's lock for one request at a time, so both
  chains can change between any two messages, and a session can break anywhere;
* every request is bounded, and what does not fit must be reached by later ones;
* a channel is closed by whichever of many signed states is submitted, possibly
  an old one, racing with the refund;
* a pool share is evaluated under no lock, while other sessions credit, rotate
  and move the tip;
* the miner's GPU threads and its coordinator talk over a bounded channel and
  wait for each other at the end of every job;
* the wallet's stop waits for a worker that may be failing, reconnecting or
  ending by itself, and both write the status;
* a block is validated into a token and committed later, when the chain may have
  moved; only the block's delta is applied;
* a peer or an RPC client may send its bytes in any pieces, at any pace, and stop
  anywhere; budgets and deadlines are all that bounds it;
* key, metadata and log of a data directory are created by separate writes, each
  of which a crash may tear or a power loss take back;
* threads of the listener, the poller and the miners have to be told to stop and
  joined on every way out.

What makes each component correct:

| Component | Properties (parts of a merged property in parentheses) |
|---|---|
| Fork index, chain, ledger state | `TipHasMostWork`, `ForkIndexSound` (`ActiveChainAgrees`, `StateMatchesReplay`, `FirstSeenTip`), `TipOnlyImproves` |
| Block log and restart | `AckedNeverLost`, `OnlyTornLogFails`, `FaultedIsFrozen`, `DurableBestChain` |
| Mempool | `MempoolSound` (`MempoolMineable`, `MempoolBytesExact`), `MempoolIndependent` |
| Consensus ledger, emission | `LedgerIsReplay` (`ChainLinked`, `SpentOnce`, `StateIsReplay`), `LedgerConserved` (`ValueConserved`, `SupplyOnSchedule`) |
| Difficulty | `HeadersGoOn` (`TargetDerivable`, `WorkCounted`) |
| Peer synchronization | `SyncSound` (`HonestSessionsSucceed`, `IndexConsistent`), `AnswersTruthful` (`UpToDateSawAll`, `VerdictFresh`, `VerdictLasts`), `EventuallyDone` (with `Converges`) |
| Peer session, wire codec | `SessionSound` (`InOrderDelivery`, `MutualHandshake`, `CleanEndAtBoundary`), `ResourcesBounded` (`BudgetsExact`, `LifetimeBounded`), `AcceptedIsCanonical`, `EveryConnectionEnds` |
| Listener, poller, observations | `ConnectionsAccounted` (`SlotsExact`, `ObservationsExact`, `StoppedMeansQuiet`), `RequestsAnswered` |
| RPC service | `RpcSound` (`ReadBounded`, `NodeNotHeld`, `WholeRequests`, `ResponseTruthful`), `RequestsAnswered` |
| Pool | `CreditedOnce`, `OneBlockPerJob`, `StaleIsRefreshed`, `RecordsSound` (`NeverAtCapacity`, `LiveSessionsRecorded`, `TalliesNest`), `StopDrains` |
| Payment channel | `PayoutBalanced`, `CustomerProtected` (`NeverOverpaid`, `OldStatesPayLess`), `ProviderCovered`, `AcceptedOnlyGrows` |
| Data directory | `DirectorySound` (`KeepsOutputs`, `CurrentHasKey`, `RefusalsExplained`) |
| Wallet | `WalletSound` (`HistoryAddsUp`, `OwnSendsAdmitted`, `InputLimitTruthful`) |
| Standalone miner | `CountedBlocksLanded`; `MinerAccountable` (`CountedBlocksWereTips`, `ExitIsQuiet`) and `EventuallyDone` in full-node mode; `FoundIsRetained` and `MineWorkReturns` do not hold (section 5) |
| Wallet mining manager | `WorkerAccounted` (`OneWorker`, `SettledStatus`, `CreditNotInvented`), `ShutdownIsFinal`, `RequestsAnswered` |

## 2. Modules

| Module | Models | Form |
|---|---|---|
| `BlockTree` | the tree of blocks a node may be offered; `path_to`, cumulative work | constants and operators |
| `ChainRules` | the ledger rules as `Node` needs them: spending, maturity, height, median time, block commit | operators over `BlockTree` |
| `BestChain` | what a node promises: an append-only set of blocks whose tip is left only for more work | abstract specification |
| `Node` | `Node` of `cmfd-node/src/lib.rs`: fork index, ledger state, mempool, block log, crashes, restart | state machine; implements `BestChain` |
| `Retarget` | `difficulty.rs`, median time, work | operators |
| `Headers` | a chain of headers with any admissible times | state machine over `Retarget` |
| `Ledger` | `chain.rs` with amounts: overlay, delta, channels, coinbase, emission (`economics.rs`), validation tokens, reorganization | state machine over `Retarget` |
| `Wallet` | coin selection, send, consolidation, history (`lib.rs`) | state machine |
| `DataDir` | lock, metadata, wallet key and log in `Node::open` | state machine |
| `Codec` | results and object limits that the codecs share | operators |
| `Wire` | `wire.rs`: layouts of transactions, proofs and blocks, one writer and one reader for all of them | operators over `Codec` |
| `PeerFrame` | the frames of `peer.rs`: header, limits, checks; how a payload is laid out is a constant | operators over `Codec` |
| `PeerWire` | the messages of `peer.rs` and their payloads | operators over `Wire` and `PeerFrame` |
| `PeerSession` | `PeerSession` and `PeerConnection` at both ends of a byte stream | state machine over `PeerFrame` |
| `PeerSync` | polling threads of several nodes, pull and relay (`p2p.rs`) | state machine over `BlockTree` |
| `PeerRequests` | mempool pull, template and submission requests (`p2p.rs`) | state machine |
| `Host` | listener, poller, runtime start and stop, peer observations | state machine |
| `Rpc` | the HTTP service of the node | state machine |
| `PaymentChannel` | customer, provider and chain around one channel (`cmfd-marketplace`, `chain.rs`) | state machine, two kinds of customer |
| `Pool` | the pool server: listener, session threads, jobs, ledger (`pool.rs`) | state machine |
| `Miner` | the thin miner's coordinator and GPU threads (`cmfd-miner`) | state machine |
| `FullMiner` | `run_full_node_miner` between its peers (`cmfd-miner`) | state machine |
| `WalletMiner` | the wallet's mining manager and its worker (`mining.rs`) | state machine |
| `FiniteSums`, `LeftFolds` | what the sums and folds of the models amount to, for every finite set and every sequence | lemmas |
| `NodeProofs`, `PoolProofs` | theorems about one module each | TLAPS |
| `LedgerProofs` | theorems about `Ledger` and `Headers` | TLAPS |
| `ProtocolProofs` | theorems about `PaymentChannel`, `PeerSync`, `PeerRequests` and `FullMiner` | TLAPS |
| `StateProofs` | theorems about `DataDir`, `Miner` and `PeerSession` | TLAPS |
| `ServicesProofs` | theorems about `WalletMiner`, `Host` and `Rpc` | TLAPS |
| `MCNode`, `MCPeerSync`, `MCPool`, `MCLedger` | instances for TLC | |
| `MCProtocols`, `MCPeers`, `MCState`, `MCServices` | components that share no state, checked in one run each | |

Definitions keep the source's names where they can; `PROJECT.json` gives the
lines each definition stands for. A definition whose comment starts with
"Mutant" is not part of the model: it is the variation of a definition that shows
a property can fail. Modules that are checked or proved together share one name
space, so the initial state, the next-state relation and the specification carry
the component's name in some of them (`HostInit`, `RpcNext`,
`MinerSpec`, `SyncSpec`, `RequestsNext`).

How the modules fit together: `Ledger` is the detailed form of `ChainRules`, which
keeps of it what fork choice and the mempool can tell apart; `Node` is built on
`ChainRules`, and its properties are what the others assume of a node:
`PeerSync` and `FullMiner` use that a submitted block is indexed and the tip only
improves, `Pool` that a tip never comes back, `Rpc` that the handlers return a
verdict. `PeerSync`, `PeerRequests` and `Host` take from `PeerSession` that a
session delivers whole messages in order and ends.

### State and actions

**Node.** `index`, `active_chain`, `active_work` and `state` are the fields of
`Node` and `BlockIndex`; `log`, `synced` and `torn` are the file, the part of it
known to be on the medium, and whether its last record is incomplete. A block
submission is two actions, because the handler can fail or the machine can stop
between them: `WriteRecord` (validate, append) and `SyncAndCommit` (sync, commit,
revalidate the pool), with `WriteFails` and `SyncFails` for the error returns
that set `storage_faulted`. `ProcessExit` keeps what was written, `PowerLoss`
any prefix from `synced` on. `Open` and the `Replay...` actions are the restart,
one record at a time. Everything else in `submit_block` happens under the node's
mutex and is one step. Signatures, amounts, Merkle roots, targets and proofs of
work are one Boolean per block, `Sound`; the order of transactions inside a block
is part of it.

**Ledger.** `state` is `ChainState`; `token` is the `ValidatedBlock` a caller
holds between `validate_block` (`Validate`) and `commit_validated`
(`CommitValidated`). In between, `ValidateAndApply` and `Reorganize` may move the
chain, also to another block of the same height. A block is identified by all of
itself: its record is its hash, as the code's hash covers header, parent and
transactions; an outpoint is `OfTransaction` or `OfCoinbase` of an index. A block
is validated in an
overlay (`Stage...`, `ApplyTransaction`) whose delta is what is committed. The
catalogue `MCTx` has ordinary spends, a spend of an output of the same block, a
channel funded twice, settled, refunded and reopened, and transactions each of
which one rule alone refuses.

**Retarget, Headers.** Integers scaled down, with the truncating divisions, the
clamps and the floor of `next_work_target`. The median of the block times is the
one whose rank is in the middle. `ExtendHeaders` takes any time the median and
future rules let through, for a clock that also goes back.

**Wallet.** The wallet has no state: `Send`, `Consolidate` and the two histories
compute from `utxos`, `mempool` and `chain`, which foreign transactions, blocks
and reorganizations change between its calls. `Refusal` is what `submit_transaction`
answers, in its order: the mempool's count and byte limits, the coins, then the
aggregate and the signature limits of the block the whole mempool is to fit in; an
input or an output stands for one byte. `OwnSendsAdmitted` says that the wallet's
own transactions are refused for one of these limits only, never for a coin that
is spent, promised to a pending transaction or immature. In the instance the count,
the byte and the signature limit are reached. The aggregate limits of a block never
are, as in the code: a key input is one input and one signature check, and 2048
checks come before 4096 inputs.

**DataDir.** A process's `pc` goes through `Node::open` write by write;
`dirty` names the files with unsynced bytes; `Kill` leaves them, `PowerLoss`
keeps, tears or loses them. `StorageError` is an error that `write_all` or
`sync_all` of key or metadata returns: the open fails and the file stays as far as
it was written. `hit` records what a crash or an error struck, so that a refused
open has to be explained by it. One history is excepted from the properties
(`hit` contains `"orphan"`): a process is killed, or its sync fails, after writing
key or metadata and before `sync_all` succeeded, the next open reads the bytes and never syncs them, and a later
power loss takes them. The code has no answer to it.

**Wire, PeerFrame, PeerWire.** A byte string is a sequence of cells, one per
fixed-width field; lengths, counts, tags and limits are kept. An object's layout
is a schema that one writer and one reader interpret, as the code's `Writer` and
`Reader` do. A frame is a header and a payload; the payload's writer and reader
are the constants `EncodePayload` and `DecodePayload`, which `Protocols.cfg` gives
the `EncodeMessage` and `DecodeMessage` of `PeerWire`.

**PeerSession.** Each endpoint has its session record, a stream of arrived cells
and the frame it is writing. Frames arrive in pieces; a faulty peer is a bounded
number of changes to what it writes (a cell altered, a frame dropped, repeated or
swapped); either application may close between messages. `now` drives the idle
and the total deadline.

**PeerSync.** A node is its indexed blocks and its active chain. A polling
thread goes through hello, headers, fetch, submit, and then the relay session;
each action is one stretch under the peer's or its own lock.

**PeerRequests.** One action per request, since the responder locks its node
once per request. Transactions the client's policy refuses are asked for again in
every pull: `OnOffer` says when a transaction is reached nevertheless.
A submission is answered `AlreadyKnown` (`Known`), `Accepted` (`Store`) or, for any
error of `submit_block`, `Rejected`: before the write (`Refuse`: faulted storage, a
duplicate, a lost parent, a rule), by a failed append (`WriteFailed`) or a failed
sync (`SyncFailed`), of which the last leaves a whole record in the log. `record`
and `durable_tip` say what of the log is known to be on the medium; `Restart`
replays it after a process end or a power loss, and a log that ends in half a
record does not open. `VerdictFresh` is about the moment of the answer,
`VerdictLasts` about all that follows: accepted is for good. A record whose sync
failed is the exception for the other two answers. A restart indexes it although
the miner was told `Rejected`; `open` does not sync it, so a power loss after that
restart may take back what was then answered `AlreadyKnown`. A power loss keeps all
of an unsynced record or none of it here, half of it is the torn log of module
`Node`; records of other people's blocks whose append fails (`StorageFault`) are not
followed further.

**Host.** `reserved` connections, worker handles and guards of
`spawn_inbound_listener`; the poller and its condition variable; `start` and
`stop_services` of the runtime, step by step; the observation table with its
eviction. The table holds 64 records and at most 16 inbound sessions and one
outbound one are live, so a live session always has a record: the instance keeps
`MaxPeers + 1 <= MaxObserved`.

**Rpc.** One thread with its phases; the client's bytes, window and disappearance
are the environment's actions; `lock` is the node mutex, shared with other
threads and possibly poisoned.

**PaymentChannel.** The variable `customer` is fixed at the start: a customer
that uses the library (`initial_state`, `next_state`), or a foreign one that
signs anything. Token counts, sequence numbers, receipts and rounding are kept;
keys are not: a party signs only for itself.

**Pool.** A connection thread's `pc` names the points of `handle_connection` and
`process_share` at which it holds no lock. The share targets are sets of nonces.
`node_tip` counts tip changes: a tip never comes back, by `TipOnlyImproves` of
`Node`.

**Miner.** The channel between GPU threads and coordinator is a bounded queue of
message kinds; a batch is exhausted, found or failed by choice. The configured
nodes are one node that is reachable or not.

**FullMiner.** `pc` goes through `synchronize_before_mining`, the mining loop and
the ways out. A session with a peer takes effect at once and one job's search is
one step, `SearchReturns`, which may never come: `mine_work` waits for workers that
may be blocked on their channel (finding 5). Forks are within one page of blocks: beyond it the miner meets the
defect of finding 3, with the same cause.

**WalletMiner.** `start` holds the control mutex from its first check to its end
and is one step; `stop_inner` is three, since the worker's status updates fall
between them. A panic leaves the status as it was.

## 3. Runs

| Run | Instance | Shows |
|---|---|---|
| `node` | five blocks on three branches with a tie, a longer lighter and a shorter heavier branch; four transactions, one conflicting pair, one immature on one branch; two clock values; two stops | fork choice, agreement of index, chain and ledger, mempool validity, durability, replay; the synced log implements `BestChain` |
| `pool` | two sessions, two block nonces, a nonce set of one, two tip changes, a stop at any point | one block per job; stale answers come with a new job; stop drains |
| `pool_ledger` | four sessions on three connection slots, two live at a time, tables of two, nonces below and above the share target, a nonce set of one | pruning and tallies; no share credited twice |
| `protocols` | channel: either customer, deposit 3, chunks of 1, rounding on every price, two arbitrary signed states, refund from height 2; connection: hellos of another network, another fingerprint and the same process, four kinds of message, one fault per behaviour, deadlines of 1 and 2 | payouts are exact, nobody is overpaid, the provider is safe from any customer; what an endpoint accepts was sent, in order and canonically, within budgets and lifetime; every connection ends |
| `peers` | branches of 2 and 5 blocks of which one and three exist at the start and the rest may be mined at any point, request bound 4, a locator whose step doubles after its first entry, one drop; three transactions and two per pull, two restarts of the responder at any point, storage faults at any write or sync; a full-node miner with two peers, pages of 2, five blocks | sessions survive interleaving and converge; reports and answers are true, and stay so over restarts; offered transactions arrive; counted blocks were tips; the miner gets to a search, and ends after Ctrl+C unless it is inside one |
| `state` | ledger of height 3 with a declining subsidy, a tail and one channel; six headers; two transaction inputs, three mempool entries, seven mempool bytes, three signature checks and two entries of wallet history; two processes, three crashes and any number of write errors on a data directory; two GPUs, two jobs, two tip changes | ledger, header, wallet, directory and miner invariants |
| `services` | two callers and two workers of the wallet manager; three inbound workers on two slots, a table of three, every kind of peer list; two RPC clients and ten requests at the limits of the reader | accounting of workers and connections, truthful and bounded RPC, stops and requests that come to an end |
| `channel_exposure`, `channel_progress` | a library customer, four and three output tokens | findings 1 and 2 |
| `sync_long_fork` | the code's 16 and 10; branches of 16 and 17 | finding 3 |
| `miner_found`, `miner_join` | two GPUs; one GPU | findings 4 and 5 |

`protocols`, `peers`, `state` and `services` each check several components that
share no state. A variable `part` is chosen initially; the component it names
runs, the others keep their initial state. The states of such a run are the sum,
not the product, of the components', and nothing is lost: without shared state
an interleaving of two components shows a property of one of them nothing new.
`EventuallyDone` and `RequestsAnswered` state, for the component that runs, what
has to come about there.

The bounds are chosen so that the case a property is about happens, which the
mutants confirm: each property, and most parts of a merged one, fail when a
definition they depend on is varied the way a plausible mistake would vary it.
`MaxCrashes`, `MaxRestarts`, `MaxLost`, `MaxDrops`, `MaxFaults`, `MaxFlips`, `MaxTip`, `MaxJobs`,
`MaxStarts`, `MaxShares`, `MaxSessions`, `MaxSigned`, `MaxSequence`, `MaxTime`,
`MaxLength`, `MaxBlocks`, `MaxOutpoints` and `MaxHeight` are bounds of the
exploration; all other numbers are limits of the code, made small. In `peers` a branch that has
to yield is shorter than the request bound of 4;
`sync_long_fork` uses the code's own 16 and 10 because the question is about them.
Deadlock is not checked where the system may stop (a stopped miner, a settled
channel, a node with nothing to receive).

### Fairness

* `PeerSync`: weak fairness of each polling thread; the loop in
  `static_peer_poll_loop` runs until the process ends. No fairness of mining, and
  drops are bounded, so that a connection eventually holds.
* `PeerRequests`: weak fairness of the steps of a session under way, strong
  fairness of starting a pull: the poller starts one in every round, whatever
  other sessions use the responder in between. Storage faults, restarts and
  submissions are not fair, and lost connections and restarts are bounded.
* `PeerSession`: time passes (`Tick`), an application takes its next step, and a
  socket whose timeout has expired returns. Nothing is assumed of the peer's bytes.
* `Host`: weak fairness of every thread's own steps and of the end of a session,
  which is `EveryConnectionEnds`.
* `Rpc`: weak fairness of the service thread and of time; other threads release
  the node's mutex, and strong fairness of `Lock`: a waiting thread gets a mutex
  that is released again and again.
* `FullMiner`: weak fairness of the main thread's steps outside a search.
  That `mine_work` returns is not assumed, not even after Ctrl+C or on a stale tip:
  run `miner_join` shows that it may not. So `EventuallyDone` promises what the code
  keeps without it: once the peers no longer change and one of them is reachable,
  the miner gets to give its GPUs a job; after Ctrl+C it ends, unless it is inside
  `mine_work`. That a pressed Ctrl+C always ends it is what finding 5 refutes.
* `Pool`: weak fairness of each session thread's own steps. Waiting for a client
  is not assumed to end, except by the read timeout of the handshake.
* `Miner`: weak fairness of the coordinator and of each worker: operating-system
  threads are scheduled, and a GPU batch ends. Nothing is assumed of the node or
  of the user.
* `WalletMiner`: weak fairness of the stop command and of those worker steps that
  end by themselves: polled flags, socket timeouts, calls into the own node.
* `PaymentChannel` (`channel_progress`): a customer and a provider that both go
  on as long as the library lets them.

## 4. Proofs

TLAPS proves the following, each for every value of the constants. No listed
property is inductive by itself; the second column names the inductive invariant
the proof goes through and the third what it adds.

| Theorem | Inductive invariant | Why it is needed |
|---|---|---|
| `ForkChoice`, `Durability`, `Replayable`, `TypeCorrect`; the action properties `TipImproves`, `FaultFreezes` (`NodeProofs`) | `Inv` | the log holds no block twice, each record's parent is an earlier record and it was valid at the recorded time; the index is the replayed prefix of the log or, while the node is up, all of it but a record being written |
| `ForkIndex` | `Inv`, `SeenInv` | of branches of equal work the one logged first is active: what the order of records says of the order of indexing, through a crash in between |
| `PoolIndependent`, `PoolSound` | `Inv`, `PoolSumInv` | the pool is finite, so that the byte counter is a sum; each pool entry was admitted on the state of the tip, and independent entries stay admissible when others are applied |
| `DurableRefinement` | `Inv` | the refinement mapping takes the replay of the synced log to `BestChain`: initial states to initial states, every step to a step or a stutter |
| `ReplayedLedger` (`LedgerProofs`) | `IInv` | the state is the replay of the chain and a token is what `validate_block` returned on the replay of some valid chain; as a block is identified by all of itself, its parent included, the tip tells the whole chain, so a token that passes the tip check of `commit_validated` was made for this very state |
| `ConservedLedger` (`LedgerConserved`), through the lemma `ClosedForm` | `PolicyInv` (`IInv` and a valid policy) | what the replay made also pays: every transaction of the chain leaves no more than it takes of what was created, and every coinbase shares out its subsidy to the last unit |
| `NoDoubleCredit`, `SingleBlock`; the action property `StaleRefreshed` (`PoolProofs`) | `Inv` | each credited nonce is still in its job's duplicate set or the tip has left the job's parent, for a block the latter; a share in progress names an installed job and, once called stale, one that is behind |
| `LedgerSound` | `Inv`, `LedgerInv` | one holder per session id, every live session recorded and labelled; live sessions are fewer than the table holds, so pruning finds another; the tallies are nested sums |
| `Balanced`, `Covered`; the action property `AcceptedGrows` (`ProtocolProofs`) | `ChannelInv` | delivery stays within the accepted authorization, the accepted state closes the channel; the rounded charge is monotonic |
| `CustomerIsProtected` | `ChannelInv`, `CustomerInv` | the customer's newest state is the dearest it signed, and whatever closes the channel was signed by it |
| `SessionsSucceed` | `SyncInv` | an inventory under way is a stretch of a chain, whose first item extends a block the receiver has; indexes are closed under parents and only grow |
| `RequestsAnswered` | `RequestsInv` | what a pull listed and what it knew then; the first `MaxPerSync` wanted ones are all of them if there are fewer. A block that is indexed has a record and one with a durable record is indexed; an accepted one has a durable record, which no fault, restart or power loss takes; a block once refused whose record now is in the log, or once known whose record is gone, had an unsynced record when it was answered |
| `MinerAccounted` | `FullMinerInv` | where the main thread is tells which services run and when a block found is that of the current tip |
| `ChainCanGoOn` (`HeadersGoOn`) | `HeadersInv` | the times kept for the retarget are medians, and medians never go back: a lower one would put more than half of the new window before the middle of the old one. So `next_work_target` finds its times in order, and its sums, clamps and divisions leave a target in `1..PowLimit`, whose work adds up |
| `DirectoryTypes`, `DirectoryKept` (`StateProofs`) | `DirectoryInv` | only the holder of the lock writes, so what a process read stands until its later writes; current metadata stands beside the one key the log pays; a crash that spared other processes' unsynced bytes keeps this |
| `MinerTypes`, `CountedLanded` | `MinerInv` | a job under way is not counted yet; a retained block, and one being submitted, may have landed by an answer that was lost |
| `SessionTypes`, `SessionIsSound`, `SessionWithinLimits` | `ConnectionInv` | as long as no fault has struck the sender, what has arrived and was not decoded yet is whole frames of the other end, in the order it sent them, and the written part of its last one; so the next frame decoded is one that was sent, and its sequence number is the number of messages surfaced before it |
| `WorkerIsAccounted`; the action property `ShutdownFinal` (`ServicesProofs`) | `MiningInv` | a thread that has not finished is the one in the control slot or the one a stop joins, so a settled status has no writer left; what was shown plus what a session owes is within what servers credited |
| `ConnectionsCounted` | `HostInv` | records that are not idle are those of live sessions, at most the reserved slots and the poller's, so a full table has an idle one to evict; a running listener holds a handle of every worker |
| `RpcAnswersTruthfully` | `RpcInv` | a connection has no effect and no answer until the response begins; what was read is within the limits of the reader's phase |

How the arguments are built:

* **Node.** The replay validates each record against the same state as the first
  time, so only a torn tail can stop it, and the tip is a function of the log:
  memory after a restart is memory before it. `PathTo`, `TotalWork` and `StateAt`,
  which the code computes by walking parents, are constants with their defining
  equations as the only assumption.
* **Ledger.** A history is what was created and what was spent. Each operation on
  the overlay adds to the history the overlay reads as; a commit of the delta
  turns that into the new UTXO set. `LeftFolds` unfolds the folds over inputs,
  outputs and transactions: it is a module whose step is a constant operator, and
  each fold of the model is an instance of it.
* **Value.** Everything created is what transactions left and coinbases paid;
  everything spent is what transactions took; the coins are the difference. The
  three are sums over disjoint families, so coins plus fees are the subsidies. That
  the subsidies of the declining phase add up to the closed form is arithmetic: each
  height is paired with its opposite, the two truncated divisions lose one unit
  together unless they are exact, and the exact ones are the multiples of a number
  that Bezout's identity gives (`IsGcd`, `ExactAt`, `SharesInPairs`). The function
  `GreatestCommonDivisor` is shown to compute that divisor from its equation.
* **Sums.** `FiniteSums` proves, once, that the library's fold over a finite set
  exists, does not depend on the order of picking, and changes by one term with
  one element, and adds up over disjoint families and one-to-one images.
  `MempoolSound`, `RecordsSound` and `LedgerConserved` rest on it.
* **Induction.** Where a fact is about every element of a sequence, the proof takes
  the least counterexample, or states the invariant for every prefix.

Assumptions. Those of the modules `BlockTree`, `ChainRules`, `Node`, `Pool`,
`PaymentChannel`, `PeerSync`, `PeerRequests`, `PeerSession` and `FullMiner` are
named `ASSUME`s there. The others are operators that the theorems assume and the instances
`MCServices` and `MCState` assert (`CallersAssumption`, `HostAssumption`,
`RpcAssumption`, `KeysAssumption`, `ProcessesAssumption`, `MinerAssumption`,
`LedgerAssumption`, `RetargetAssumption`). TLC evaluates every one of them. They say that limits are numbers, and positive where
the code's constant is; that the absence of a value is none of the values; that
the tree is a tree and lists are lists; that the ledger's amounts, heights and
percentages are unsigned; for `Pool`, that tables have room for the
sessions live at a time; for `Host`, that the table of observed peers has a
record more than the listener has slots (64 and 16 in the code); and for the
retarget, that windows and spacing are positive and the limit of the target is
below the size of the hash space. `PeerSession` assumes of payloads
(`PayloadAssumption`) that the reader accepts of what the writer wrote only the
message written, a hello only on its own network, and that no payload is as long
as a frame's header: the round trip is what `AcceptedIsCanonical` asks of the
codec, the header has 20 bytes, and no payload of `peer.rs` can have 20.

What stays with TLC, and why:

* liveness: `EventuallyDone`, `EveryConnectionEnds`, `RequestsAnswered`,
  `StopDrains`, and the two liveness findings;
* `AcceptedIsCanonical` and the payload assumption: they are about the recursive
  reader and writer of `Wire`, of which the installed provers cannot reason;
* `WalletSound`: selections, sortings and folds over a wallet's whole history, which
  the installed provers cannot unfold;
* the type invariants of the merged runs, `ProtocolsTypeOK` and `StateTypeOK`, as a
  whole; the parts about proved components are parts of their inductive
  invariants.

## 5. Findings

1. `channel_exposure`: `next_state` measures one chunk from the previous
   authorization, not from the receipt, against
   `docs/marketplace/payment-channels.md:15-16`.
2. `channel_progress`: `next_state` accepts only a first state as `previous`, so
   a session ends at sequence 1.
3. `sync_long_fork`: a lighter branch of 16 or more blocks never yields, against
   the comments at `p2p.rs:28-29` and `p2p.rs:430-431`.
4. `miner_found`: a found block still in the channel is dropped when the node is
   lost, against `docs/standalone-miner.md:102-103`.
5. `miner_join`: `mine_work` can wait for ever for a worker that waits for room in
   a channel nobody reads.

## 6. Not modelled, and the plan

Not modelled, and not planned:

* proof-of-work arithmetic (`forgematrix*`, `sumcheck`, `model_bank`) and the CUDA
  loader and kernels: pure computation over large fields; a valid proof is part of
  `Sound`, the outcome of a batch is a choice;
* network parameters and the fingerprint: constants and a hash of them;
* TLS and certificates of the pool, JSON bodies and command-line printing: text and
  I/O that no property here tells apart;
* the wallet's user interface.

Partly modelled: block templates (what they select is `MempoolMineable`; search
ranges are arithmetic), the pool client (as the wallet's worker sees it), the RPC
service (without its JSON), the wallet runtime (its services, not its status
commands).

Open, in the order of worth:

1. Proof: `InputLimitTruthful` of the wallet, with its selection as a function.
2. `ChainRules` as the abstraction of `Ledger`, by a refinement mapping.
