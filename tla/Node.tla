--------------------------------- MODULE Node ---------------------------------
(***************************************************************************)
(* One Devnet-0 node: the fork index, the active chain state, the volatile *)
(* mempool and the append-only block log, across storage faults, process   *)
(* kills, power loss and restarts (crates/cmfd-node/src/lib.rs).           *)
(*                                                                         *)
(* The node is behind one mutex, so a handler is one step, except that     *)
(* submit_block writes to disk in the middle: a crash may fall between the *)
(* write, the sync and the commit in memory.  That handler is two steps    *)
(* (WriteRecord, SyncAndCommit) with `inflight` standing for the held lock.*)
(***************************************************************************)
EXTENDS ChainRules, FiniteSetsExt

CONSTANTS
    Times,          \* clock readings (unix_time_seconds) a submission may see
    PaysRelayFee,   \* transactions whose burned fee meets required_relay_fee
    TxBytes,        \* canonical encoded length of each transaction
    MaxMempoolTransactions,
    MaxMempoolBytes,
    MaxCrashes,     \* bound: restarts explored in one behaviour
    None            \* no record in flight

ASSUME NodeAssumption ==
    /\ Times \subseteq Nat
    /\ PaysRelayFee \subseteq Txs
    /\ TxBytes \in [Txs -> Nat]
    /\ MaxMempoolTransactions \in Nat /\ MaxMempoolBytes \in Nat
    /\ MaxCrashes \in Nat
    /\ None \notin [block : Blocks, accepted_at : Times]

VARIABLES
    (* blocks.log *)
    log,        \* whole records in the file, in append order
    torn,       \* the file ends in part of a record
    synced,     \* number of leading records a sync_all has made durable
    (* memory of the process *)
    status,     \* "down", "replaying" (inside open), "up" or "corrupt" (open failed)
    index,      \* BlockIndex.blocks: cumulative work and accepted_at
    active_chain,
    active_work,
    state,      \* ChainState of the active tip
    mempool,
    mempool_bytes,
    storage_faulted,
    inflight,   \* the record submit_block has written and not yet synced
    replayed,   \* records replay_log has restored so far
    (* history *)
    acked,      \* blocks for which submit_block has returned Ok
    crashes

disk == <<log, torn, synced>>
chain == <<index, active_chain, active_work, state>>
pool == <<mempool, mempool_bytes>>
vars == <<disk, status, chain, pool, storage_faulted, inflight, replayed,
          acked, crashes>>

Records == [block : Blocks, accepted_at : Times]
Known == DOMAIN index \cup {Genesis}
LoggedBlocks(n) == {log[i].block : i \in 1..n}
Running == status = "up" /\ inflight = None

EmptyIndex == [b \in {} |-> None]

Init ==
    /\ log = <<>> /\ torn = FALSE /\ synced = 0
    /\ status = "down"
    /\ index = EmptyIndex
    /\ active_chain = <<Genesis>> /\ active_work = 0 /\ state = GenesisState
    /\ mempool = {} /\ mempool_bytes = 0
    /\ storage_faulted = FALSE /\ inflight = None /\ replayed = 0
    /\ acked = {} /\ crashes = 0

(* Mutant: a restarted node remembers how far it had replayed.             *)
ResetMemoryKeepsPosition ==
    /\ index' = EmptyIndex
    /\ active_chain' = <<Genesis>> /\ active_work' = 0 /\ state' = GenesisState
    /\ mempool' = {} /\ mempool_bytes' = 0
    /\ storage_faulted' = FALSE /\ inflight' = None /\ replayed' = replayed

(* Memory of a node that has replayed nothing: BlockIndex::new,            *)
(* ChainState::new and the empty fields Node::open starts with.            *)
ResetMemory ==
    /\ index' = EmptyIndex
    /\ active_chain' = <<Genesis>> /\ active_work' = 0 /\ state' = GenesisState
    /\ mempool' = {} /\ mempool_bytes' = 0
    /\ storage_faulted' = FALSE /\ inflight' = None /\ replayed' = 0

-----------------------------------------------------------------------------
(* BlockIndex::work_at *)
WorkAt(b) == IF b = Genesis THEN 0 ELSE index[b].work

(* rebuild_state_to replays the branch from genesis, validating each block *)
(* at the time it was accepted.                                            *)
RebuildValid(tip) ==
    \A i \in 1..Len(PathTo[tip]) :
        LET c == PathTo[tip][i] IN
        /\ c \in DOMAIN index
        /\ ValidBlock(StateAt[Parent[c]], c, index[c].accepted_at)

(* prepare_block: validation against the active state when b extends the   *)
(* tip, otherwise against the rebuilt branch.                              *)
PrepareBlock(b, accepted_at) ==
    /\ b \notin Known
    /\ Parent[b] \in Known
    /\ \/ /\ Parent[b] = state.tip
          /\ ValidBlock(state, b, accepted_at)
       \/ /\ Parent[b] # state.tip
          /\ RebuildValid(Parent[b])
          /\ ValidBlock(StateAt[Parent[b]], b, accepted_at)

(* Mutants: one that needs a margin, one that also switches on a tie.      *)
ActivatesLate(w) == w > active_work + 1
ActivatesOnTie(w) == w >= active_work

Activates(w) == w > active_work

(* Mutant: the delta of a side branch applied to the active state.         *)
BranchStateActive(b) == state

(* PreparedState::Active takes the state of the tip, Branch a rebuilt one. *)
BranchState(b) ==
    IF Parent[b] = state.tip THEN state ELSE StateAt[Parent[b]]

BranchChain(b) == Append(ChainTo(Parent[b]), b)

(* commit_prepared.  Its error for an active extension that does not       *)
(* increase the work cannot occur: ActiveChainAgrees and BlockWork > 0.    *)
CommitPrepared(b, accepted_at) ==
    LET w == WorkAt(Parent[b]) + BlockWork[b]
    IN /\ index' = [x \in DOMAIN index \cup {b} |->
                       IF x = b THEN [work |-> w, accepted_at |-> accepted_at]
                                ELSE index[x]]
       /\ IF Activates(w)
          THEN /\ active_chain' = BranchChain(b)
               /\ active_work' = w
               /\ state' = ApplyBlock(BranchState(b), b)
          ELSE UNCHANGED <<active_chain, active_work, state>>

(* validate_mempool_transaction against the inputs already spent.          *)
ValidMempoolTransaction(s, t, spends) ==
    /\ Inputs[t] \subseteq s.utxos
    /\ Inputs[t] \cap spends = {}
    /\ TransactionsValid(s, {t})
    /\ t \in PaysRelayFee

(* Mutant: only confirmed transactions leave the pool.                     *)
RetainedUnlessConfirmed(s, confirmed, kept) ==
    \A t \in mempool : t \in kept <=> t \notin confirmed

(* revalidate_mempool walks the old pool in txid order: kept is the set it *)
(* retains, each member admissible after the smaller ones that were kept.  *)
Retained(s, confirmed, kept) ==
    \A t \in mempool :
        LET before == {u \in kept : u < t} IN
        t \in kept <=> /\ t \notin confirmed
                       /\ ValidMempoolTransaction(s, t, SpentBy(before))
                       /\ TransactionsValid(s, before \cup {t})

(* retained_bytes: revalidate_mempool counts the pool it keeps anew.       *)
BytesOf(txs) == MapThenSumSet(LAMBDA t : TxBytes[t], txs)

(* Mutant: revalidation against the state before the switch.               *)
RevalidateAgainstOldState(confirmed) ==
    \E kept \in SUBSET mempool :
        /\ Retained(state, confirmed, kept)
        /\ mempool' = kept
        /\ mempool_bytes' = BytesOf(kept)

RevalidateMempool(confirmed) ==
    \E kept \in SUBSET mempool :
        /\ Retained(state', confirmed, kept)
        /\ mempool' = kept
        /\ mempool_bytes' = BytesOf(kept)

-----------------------------------------------------------------------------
(* Mutants: a record stamped with a time of its own, a log opened without  *)
(* append mode, a sync that is skipped, a fault that is not latched.       *)
RecordWithOldTime(b, accepted_at) == [block |-> b, accepted_at |-> Min(Times)]
OverwriteRecord(record) == log' = <<record>>
SyncSkipped == UNCHANGED synced
AcceptsBlocksWhenFaulted == Running

(* encode_record: the block with the clock reading it was validated at.    *)
RecordOf(b, accepted_at) == [block |-> b, accepted_at |-> accepted_at]

(* The log file is opened in append mode.                                  *)
AppendRecord(record) == log' = Append(log, record)

(* sync_all makes every record written so far durable.                     *)
SyncAll == synced' = Len(log)

AcceptsBlocks == Running /\ ~storage_faulted

(* submit_block up to write_all: the record is in the file, not yet synced. *)
WriteRecord(b, accepted_at) ==
    /\ AcceptsBlocks
    /\ PrepareBlock(b, accepted_at)
    /\ AppendRecord(RecordOf(b, accepted_at))
    /\ inflight' = RecordOf(b, accepted_at)
    /\ UNCHANGED <<torn, synced, status, chain, pool, storage_faulted,
                   replayed, acked, crashes>>

(* write_all fails after writing some bytes of the record or none.         *)
WriteFails(b, accepted_at) ==
    /\ AcceptsBlocks
    /\ PrepareBlock(b, accepted_at)
    /\ storage_faulted' = TRUE
    /\ torn' \in BOOLEAN
    /\ UNCHANGED <<log, synced, status, chain, pool, inflight, replayed,
                   acked, crashes>>

(* sync_all succeeds and submit_block commits, then revalidates the pool   *)
(* if the tip has changed.                                                 *)
SyncAndCommit ==
    /\ status = "up" /\ inflight # None
    /\ SyncAll
    /\ CommitPrepared(inflight.block, inflight.accepted_at)
    /\ IF state'.tip # state.tip
       THEN RevalidateMempool(BlockTxs[inflight.block])
       ELSE UNCHANGED pool
    /\ inflight' = None
    /\ acked' = acked \cup {inflight.block}
    /\ UNCHANGED <<log, torn, status, storage_faulted, replayed, crashes>>

(* sync_all fails: the record is in the file, nothing is known of the disk. *)
SyncFails ==
    /\ status = "up" /\ inflight # None
    /\ storage_faulted' = TRUE
    /\ inflight' = None
    /\ UNCHANGED <<disk, status, chain, pool, replayed, acked, crashes>>

(* submit_transaction; a faulted node still admits transactions.           *)
SubmitTransaction(t) ==
    /\ Running
    /\ t \notin mempool
    /\ Cardinality(mempool) < MaxMempoolTransactions
    /\ mempool_bytes + TxBytes[t] <= MaxMempoolBytes
    /\ ValidMempoolTransaction(state, t, SpentBy(mempool))
    /\ TransactionsValid(state, mempool \cup {t})
    /\ mempool' = mempool \cup {t}
    /\ mempool_bytes' = mempool_bytes + TxBytes[t]
    /\ UNCHANGED <<disk, status, chain, storage_faulted, inflight, replayed,
                   acked, crashes>>

-----------------------------------------------------------------------------
Stop ==
    /\ status # "down" /\ crashes < MaxCrashes
    /\ status' = "down"
    /\ crashes' = crashes + 1
    /\ ResetMemory
    /\ UNCHANGED acked

(* The process ends; what it wrote stays in the file.                      *)
ProcessExit ==
    /\ Stop
    /\ UNCHANGED disk

(* The machine loses power: records after the last sync may be lost, and   *)
(* the first lost one may leave some of its bytes behind.                  *)
PowerLoss ==
    /\ Stop
    /\ \E n \in synced..Len(log) :
          /\ log' = SubSeq(log, 1, n)
          /\ torn' \in IF n < Len(log) \/ torn THEN BOOLEAN ELSE {FALSE}
          /\ synced' = n

(* Node::open up to replay_log; a failed open may be tried again.          *)
Open ==
    /\ status \in {"down", "corrupt"}
    /\ status' = "replaying"
    /\ ResetMemory
    /\ UNCHANGED <<disk, acked, crashes>>

(* replay_log: one whole record passes prepare_block and commit_prepared   *)
(* with the time stored in it.                                             *)
ReplayRecord ==
    /\ status = "replaying" /\ replayed < Len(log)
    /\ LET r == log[replayed + 1] IN
       /\ PrepareBlock(r.block, r.accepted_at)
       /\ CommitPrepared(r.block, r.accepted_at)
    /\ replayed' = replayed + 1
    /\ UNCHANGED <<disk, status, pool, storage_faulted, inflight, acked, crashes>>

ReplayStuck ==
    \/ replayed = Len(log) /\ torn
    \/ /\ replayed < Len(log)
       /\ ~PrepareBlock(log[replayed + 1].block, log[replayed + 1].accepted_at)

(* A truncated record, or one that no longer validates, is CorruptLog.     *)
ReplayFails ==
    /\ status = "replaying" /\ ReplayStuck
    /\ status' = "corrupt"
    /\ ResetMemory
    /\ UNCHANGED <<disk, acked, crashes>>

ReplayDone ==
    /\ status = "replaying" /\ replayed = Len(log) /\ ~torn
    /\ status' = "up"
    /\ UNCHANGED <<disk, chain, pool, storage_faulted, inflight, replayed,
                   acked, crashes>>

Next ==
    \/ \E b \in Blocks, a \in Times : WriteRecord(b, a) \/ WriteFails(b, a)
    \/ SyncAndCommit
    \/ SyncFails
    \/ \E t \in Txs : SubmitTransaction(t)
    \/ ProcessExit
    \/ PowerLoss
    \/ Open
    \/ ReplayRecord
    \/ ReplayFails
    \/ ReplayDone

Spec == Init /\ [][Next]_vars

-----------------------------------------------------------------------------
DiskTypeOK ==
    /\ log \in Seq(Records)
    /\ synced \in 0..Len(log) /\ replayed \in 0..Len(log)

ChainTypeOK ==
    /\ DOMAIN index \subseteq Blocks
    /\ index \in [DOMAIN index -> [work : Nat, accepted_at : Times]]
    /\ active_chain \in Seq(Tree) /\ active_work \in Nat
    /\ state \in ChainStates

FlagTypeOK ==
    /\ status \in {"down", "replaying", "up", "corrupt"}
    /\ torn \in BOOLEAN /\ storage_faulted \in BOOLEAN

ProcessTypeOK ==
    /\ mempool \subseteq Txs
    /\ inflight \in Records \cup {None}
    /\ acked \subseteq Blocks /\ crashes \in 0..MaxCrashes

(* Every field keeps its type; in particular synced and replayed stay      *)
(* within the log through truncation by a power loss.                      *)
TypeOK == DiskTypeOK /\ ChainTypeOK /\ FlagTypeOK /\ ProcessTypeOK

(* Fork choice: no indexed block, on the active chain or on a side branch, *)
(* has more cumulative work than the active tip (commit_prepared).         *)
TipHasMostWork == \A b \in DOMAIN index : index[b].work <= active_work

(* The fork index and the chain state, two structures commit_prepared      *)
(* updates separately, agree: active_chain is the parent path of the tip   *)
(* the state has, and active_work is the work of exactly those blocks.     *)
ActiveChainAgrees ==
    /\ active_chain = ChainTo(state.tip)
    /\ active_work = TotalWork[state.tip]
    /\ \A b \in DOMAIN index : index[b].work = TotalWork[b]

(* Applying deltas block by block, with reorganizations in between, leaves *)
(* the UTXO set, height and timestamps a replay of the active branch from  *)
(* genesis would produce (Active versus Branch in commit_prepared).        *)
StateMatchesReplay == state = StateAt[state.tip]

(* Among branches of equal work the first accepted one stays active, and a *)
(* restart must choose the same: the tip is the earliest log record with   *)
(* maximal work, or genesis for an empty log.                              *)
FirstSeenTip ==
    LET n == Cardinality(DOMAIN index)
    IN \/ n = 0 /\ state.tip = Genesis
       \/ \E i \in 1..n :
             /\ log[i].block = state.tip
             /\ \A j \in 1..n :
                   LET w == TotalWork[log[j].block] IN
                   IF j < i THEN w < active_work ELSE w <= active_work

(* submit_block's Ok is a promise: through crashes, failed syncs and       *)
(* restarts, an acknowledged block stays in the synced part of the log and *)
(* is indexed whenever the node is up.                                     *)
AckedNeverLost ==
    /\ acked \subseteq LoggedBlocks(synced)
    /\ status = "up" => acked \subseteq DOMAIN index

(* A record that validated when it was written validates on every replay,  *)
(* whatever the clock says then: open fails only on a torn tail.           *)
OnlyTornLogFails == status = "corrupt" => torn

(* build_template puts the whole mempool in the next block and fails if    *)
(* that set is invalid: after any reorganization it never is.              *)
MempoolMineable ==
    status = "up" => TransactionsValid(state, mempool)

(* Members of the pool spend confirmed, pairwise distinct outpoints, so    *)
(* the pool never holds a dependent or a conflicting pair.                 *)
MempoolIndependent ==
    /\ \A t \in mempool : Inputs[t] \subseteq state.utxos
    /\ \A t, u \in mempool : t # u => Inputs[t] \cap Inputs[u] = {}

(* The running byte counter equals the pool's real size through admission  *)
(* and revalidation, so the limit it guards is the limit that holds.       *)
MempoolBytesExact ==
    /\ mempool_bytes = BytesOf(mempool)
    /\ mempool_bytes <= MaxMempoolBytes

(* Every structure commit_prepared leaves behind says the same of the      *)
(* active branch: index and chain, the replayed state, the log's order.    *)
ForkIndexSound == ActiveChainAgrees /\ StateMatchesReplay /\ FirstSeenTip

(* What submit_transaction and revalidate_mempool leave can go into a      *)
(* block, and is as large as the counter says.                             *)
MempoolSound == MempoolMineable /\ MempoolBytesExact

(* A running node leaves its tip only for strictly more cumulative work.   *)
TipOnlyImproves ==
    [][status = "up" /\ status' = "up" /\ state'.tip # state.tip
         => active_work' > active_work]_vars

(* A node whose storage has failed changes neither chain nor log until it  *)
(* is restarted: nothing is committed that the log might not hold.         *)
FaultedIsFrozen ==
    [][storage_faulted /\ status' = "up"
         => /\ UNCHANGED <<chain, log, acked>>
            /\ storage_faulted']_vars

(* What the node offers the rest of the system: a durable best chain.      *)
DurableTip ==
    LET best == {i \in 1..synced : \A j \in 1..synced :
                    TotalWork[log[j].block] <= TotalWork[log[i].block]}
    IN IF synced = 0 THEN Genesis ELSE log[Min(best)].block

BC == INSTANCE BestChain WITH
          Work <- TotalWork,
          known <- LoggedBlocks(synced),
          tip <- DurableTip

(* The synced log implements an append-only set of blocks whose tip is     *)
(* left only for more work, through every crash and restart.               *)
DurableBestChain == BC!Spec
=============================================================================
