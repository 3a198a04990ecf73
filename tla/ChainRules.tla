------------------------------ MODULE ChainRules ------------------------------
(***************************************************************************)
(* Contextual consensus rules of one block on one chain state, as the node *)
(* sees them: ChainState::validate_block, commit_validated and             *)
(* validate_transactions_for_next_block.                                   *)
(*                                                                         *)
(* A transaction has one output here, and a block one coinbase output, so  *)
(* an outpoint is named by what created it: a transaction or a block.      *)
(* Amounts and locks are in module Ledger; rules of a block that need no   *)
(* context (version, network, encoding, Merkle root, proof of work, the    *)
(* expected target, the coinbase split, the order of dependent             *)
(* transactions) are the set Sound of blocks that satisfy them.            *)
(***************************************************************************)
EXTENDS BlockTree

CONSTANTS
    Txs,             \* transaction ids, ordered like the byte order of txids
    Inputs,          \* outpoints each transaction spends
    SpendableHeight, \* spendable_height of each transaction's output
    BlockTxs,        \* transactions of each block's body
    Sound,           \* blocks that pass every context-free rule
    CoinbaseMaturity,
    MaxFutureOffset, \* max_future_offset_secs
    MedianTimeWindow,
    MaxBlockInputs,  \* MAX_BLOCK_AGGREGATE_INPUTS
    StateAt          \* state after each block's whole branch

Coins == Txs \cup Blocks

ASSUME RulesAssumption ==
    /\ Txs \subseteq Nat
    /\ Txs \cap Tree = {}
    /\ Inputs \in [Txs -> (SUBSET Coins) \ {{}}]
    /\ SpendableHeight \in [Txs -> Nat]
    /\ BlockTxs \in [Blocks -> SUBSET Txs]
    /\ Sound \subseteq Blocks
    /\ CoinbaseMaturity \in Nat /\ MaxFutureOffset \in Nat
    /\ MedianTimeWindow \in Nat \ {0} /\ MaxBlockInputs \in Nat

-----------------------------------------------------------------------------
(* ChainState: tip, next_height, raw_timestamps and the UTXO set.          *)
ChainStates ==
    [tip : Tree, next_height : Nat, stamps : Seq(Nat), utxos : SUBSET Coins]

GenesisState ==
    [tip |-> Genesis, next_height |-> 1, stamps |-> <<Stamp[Genesis]>>,
     utxos |-> {}]

SpentBy(txs) == UNION {Inputs[t] : t \in txs}

MaturesAt(coin) ==
    IF coin \in Txs THEN SpendableHeight[coin]
                    ELSE BlockHeight[coin] + CoinbaseMaturity

(* median_timestamp over the last MEDIAN_TIME_WINDOW timestamps: element   *)
(* number len/2, counted from zero, of the sorted window.                  *)
MedianTimePast(stamps) ==
    LET n == Len(stamps)
        w == IF n > MedianTimeWindow THEN n - MedianTimeWindow + 1 ELSE 1
        mid == (n - w + 1) \div 2
    IN CHOOSE m \in {stamps[i] : i \in w..n} :
          /\ Cardinality({i \in w..n : stamps[i] < m}) <= mid
          /\ Cardinality({i \in w..n : stamps[i] <= m}) > mid

(* validate_transactions_for_next_block, and the same rules inside         *)
(* validate_delta: every input exists in the UTXO set or is created by the *)
(* same set, is mature at the next height, is spent once, and the          *)
(* aggregate input limit holds.                                            *)
TransactionsValid(s, txs) ==
    /\ \A t \in txs : \A c \in Inputs[t] :
          /\ c \in s.utxos \cup txs
          /\ MaturesAt(c) <= s.next_height
    /\ \A t, u \in txs : t # u => Inputs[t] \cap Inputs[u] = {}
    /\ Cardinality(SpentBy(txs)) <= MaxBlockInputs

(* ChainState::validate_block against state s with the clock at now.       *)
ValidBlock(s, b, now) ==
    /\ b \in Sound
    /\ BlockHeight[b] = s.next_height
    /\ Parent[b] = s.tip
    /\ Stamp[b] > MedianTimePast(s.stamps)
    /\ Stamp[b] <= now + MaxFutureOffset
    /\ TransactionsValid(s, BlockTxs[b])

(* ChainState::commit_validated of a block validated against s: the delta  *)
(* removes what the body spends, adds what it and the coinbase create.     *)
ApplyBlock(s, b) ==
    [tip |-> b,
     next_height |-> s.next_height + 1,
     stamps |-> Append(s.stamps, Stamp[b]),
     utxos |-> ((s.utxos \cup BlockTxs[b]) \ SpentBy(BlockTxs[b])) \cup {b}]

(* rebuild_state_to: a replay of the whole branch from genesis yields       *)
(* StateAt, given by its defining equations.                               *)
ASSUME StateAtAssumption ==
    /\ StateAt \in [Tree -> ChainStates]
    /\ StateAt[Genesis] = GenesisState
    /\ \A b \in Blocks : StateAt[b] = ApplyBlock(StateAt[Parent[b]], b)
=============================================================================
