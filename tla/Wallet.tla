------------------------------- MODULE Wallet --------------------------------
(***************************************************************************)
(* The built-in wallet of a node: coin selection, sending, consolidation   *)
(* and the history it reconstructs from the active chain, over a UTXO set  *)
(* and mempool that other people's transactions, blocks and                *)
(* reorganizations change between its calls.  Outpoints are numbers in the *)
(* order of their txids; the rules of module Ledger reduce here to: inputs *)
(* confirmed, mature and unreserved.  The limits of the mempool and of a   *)
(* block it is to fit in are those of the code.                            *)
(***************************************************************************)
EXTENDS Integers, Sequences, FiniteSets, FiniteSetsExt, SequencesExt

CONSTANTS Own,             \* wallet_destination
          Foreign,         \* somebody else's key
          Amounts, Fees,   \* what the user asks for
          Reward,          \* a coinbase's miner output
          Maturity,        \* COINBASE_MATURITY
          MaxInputs,       \* MAX_TRANSACTION_INPUTS
          MaxMempoolTransactions, MaxMempoolBytes,
          MaxBlockInputs, MaxBlockOutputs,  \* MAX_BLOCK_AGGREGATE_INPUTS, _OUTPUTS
          MaxSignatureChecks,               \* MAX_BLOCK_SIGNATURE_CHECKS
          RelayUnit,       \* encoded bytes one unit of the relay fee pays for
          MaxHistory,      \* MAX_WALLET_HISTORY
          MaxHeight,       \* bound on the chain
          MaxOutpoints     \* bound on the outputs ever made

VARIABLES utxos,    \* outpoint -> [owner, value, spendable_height]
          mempool,  \* transactions in txid order: [inputs, outputs: outpoint -> output]
          chain,    \* blocks: [coinbase: outpoint -> output, transactions]
          fresh,    \* the next outpoint
          reply     \* what the wallet's last call returned

vars == <<utxos, mempool, chain, fresh, reply>>

Coin(owner, value, height) == [owner |-> owner, value |-> value, spendable_height |-> height]
NoReply == [status |-> "none", required |-> 0, candidates |-> {}]
NextHeight == Len(chain) + 1

(* Coins are single outputs at consecutive outpoints. *)
Outputs(first, coins) == [o \in first..(first + Len(coins) - 1) |-> coins[o - first + 1]]

(* What the chain before the first modelled block left unspent. *)
Endowment ==
    Outputs(1, <<Coin(Own, 3, 1), Coin(Own, 1, 1), Coin(Own, 2, 2), Coin(Foreign, 3, 1)>>)

Init ==
    /\ utxos = Endowment
    /\ mempool = <<>>
    /\ chain = <<>>
    /\ fresh = Cardinality(DOMAIN Endowment) + 1
    /\ reply = NoReply

ValueOf(u, S) == MapThenSumSet(LAMBDA o : u[o].value, S)
Reserved == UNION {mempool[i].inputs : i \in DOMAIN mempool}
Owned == {o \in DOMAIN utxos : utxos[o].owner = Own}
Mature == {o \in Owned : NextHeight >= utxos[o].spendable_height}

(* Mutant of Candidates: outputs a pending transaction spends are offered again. *)
CandidatesUnreserved == Mature

Candidates == Mature \ Reserved

(***************************************************************************)
(* submit_transaction.                                                     *)
(***************************************************************************)
(* encode_transaction(..).len(): one byte stands for what an input or an   *)
(* output takes.                                                           *)
EncodedBytes(inputs, outputs) == inputs + outputs

RequiredRelayFee(bytes) == Max({(bytes + RelayUnit - 1) \div RelayUnit, 1})

(* The sums over the mempool that its limits, and a block's, are about.    *)
PoolInputs == MapThenSumSet(LAMBDA i : Cardinality(mempool[i].inputs), DOMAIN mempool)
PoolOutputs == MapThenSumSet(LAMBDA i : Cardinality(DOMAIN mempool[i].outputs), DOMAIN mempool)

(* A key input is one signature check.                                     *)
PoolSignatureChecks == PoolInputs

(* validate_mempool_transaction: why its coins cannot be spent, if so.     *)
CoinError(u, height, spends, inputs) ==
    CASE ~(inputs \subseteq DOMAIN u) -> "MempoolUnconfirmedInput"
      [] inputs \intersect spends # {} -> "MempoolInputConflict"
      [] \E o \in inputs : height < u[o].spendable_height -> "ImmatureInput"
      [] OTHER -> "none"

(* validate_transactions_for_next_block, which takes the mempool and the   *)
(* transaction together: the aggregate limits, then the signature limit.   *)
BlockError(inputs, outputs) ==
    CASE PoolInputs + inputs > MaxBlockInputs -> "BlockAggregateLimit"
      [] PoolOutputs + outputs > MaxBlockOutputs -> "BlockAggregateLimit"
      [] PoolSignatureChecks + inputs > MaxSignatureChecks -> "BlockSignatureLimit"
      [] OTHER -> "none"

(* The error of a transaction with the relay fee, in the order of checks.  *)
Refusal(inputs, outputs) ==
    LET bytes == EncodedBytes(PoolInputs, PoolOutputs)
                 + EncodedBytes(Cardinality(inputs), outputs)
        coins == CoinError(utxos, NextHeight, Reserved, inputs)
    IN  CASE Len(mempool) >= MaxMempoolTransactions -> "MempoolTransactionLimit"
          [] bytes > MaxMempoolBytes -> "MempoolByteLimit"
          [] coins # "none" -> coins
          [] OTHER -> BlockError(Cardinality(inputs), outputs)

Submit(inputs, coins) ==
    /\ mempool' = Append(mempool, [inputs |-> inputs, outputs |-> Outputs(fresh, coins)])
    /\ fresh' = fresh + Len(coins)

(***************************************************************************)
(* The wallet.                                                             *)
(***************************************************************************)

(* select_send_utxos: largest first, until the amount is covered, at most  *)
(* MaxInputs.                                                              *)
LargestFirst(a, b) ==
    utxos[a].value > utxos[b].value \/ (utxos[a].value = utxos[b].value /\ a < b)
SmallestFirst(a, b) ==
    utxos[a].value < utxos[b].value \/ (utxos[a].value = utxos[b].value /\ a < b)

(* Mutant of SelectSendUtxos: the smallest outputs are taken first. *)
SelectSmallestFirst(candidates, required) ==
    LET order == SetToSortSeq(candidates, SmallestFirst)
        limit == IF Len(order) < MaxInputs THEN Len(order) ELSE MaxInputs
        prefix(n) == {order[i] : i \in 1..n}
        enough == {n \in 1..limit : ValueOf(utxos, prefix(n)) >= required}
    IN  prefix(IF enough = {} THEN limit ELSE Min(enough))

SelectSendUtxos(candidates, required) ==
    LET order == SetToSortSeq(candidates, LargestFirst)
        limit == IF Len(order) < MaxInputs THEN Len(order) ELSE MaxInputs
        prefix(n) == {order[i] : i \in 1..n}
        enough == {n \in 1..limit : ValueOf(utxos, prefix(n)) >= required}
    IN  prefix(IF enough = {} THEN limit ELSE Min(enough))

(* What send_from_dev_wallet and consolidate_dev_wallet do with the        *)
(* transaction they have signed: the relay fee, then submission.           *)
Finish(inputs, coins, fee, required) ==
    LET answer(status) == [status |-> status, required |-> required, candidates |-> Candidates]
        paid == fee >= RequiredRelayFee(EncodedBytes(Cardinality(inputs), Len(coins)))
        refusal == Refusal(inputs, Len(coins))
    IN  \/ /\ ~paid
           /\ reply' = answer("FeeTooLow")
           /\ UNCHANGED <<mempool, fresh>>
        \/ /\ paid /\ refusal = "none"
           /\ reply' = answer("submitted")
           /\ Submit(inputs, coins)
        \/ /\ paid /\ refusal # "none"
           /\ reply' = answer(refusal)
           /\ UNCHANGED <<mempool, fresh>>

(* The payment, and change where some is left. *)
PaymentOutputs(amount, change) ==
    SelectSeq(<<Coin(Foreign, amount, NextHeight), Coin(Own, change, NextHeight)>>,
              LAMBDA c : c.value > 0)

Send(amount, fee) ==
    LET required == amount + fee
        selected == SelectSendUtxos(Candidates, required)
        value == ValueOf(utxos, selected)
        available == ValueOf(utxos, Candidates)
        immature == ValueOf(utxos, Owned \ Mature)
        change == value - required
        error == CASE available >= required -> "InputLimit"
                   [] available + immature >= required -> "FundsImmature"
                   [] OTHER -> "InsufficientFunds"
    IN  /\ fresh + 1 <= MaxOutpoints
        /\ \/ /\ value < required
              /\ reply' = [status |-> error, required |-> required, candidates |-> Candidates]
              /\ UNCHANGED <<mempool, fresh>>
           \/ /\ value >= required
              /\ Finish(selected, PaymentOutputs(amount, change), fee, required)
        /\ UNCHANGED <<utxos, chain>>

Consolidate(fee) ==
    LET order == SetToSortSeq(Candidates, SmallestFirst)
        selected == {order[i] : i \in 1..(IF Len(order) < MaxInputs THEN Len(order) ELSE MaxInputs)}
        value == ValueOf(utxos, selected)
    IN  /\ fresh <= MaxOutpoints
        /\ \/ /\ Cardinality(selected) < 2 \/ value <= fee
              /\ reply' = [status |-> "NothingToConsolidate", required |-> fee,
                           candidates |-> Candidates]
              /\ UNCHANGED <<mempool, fresh>>
           \/ /\ Cardinality(selected) >= 2 /\ value > fee
              /\ Finish(selected, <<Coin(Own, value - fee, NextHeight)>>, fee, fee)
        /\ UNCHANGED <<utxos, chain>>

(***************************************************************************)
(* The rest of the network.                                                *)
(***************************************************************************)

(* Somebody pays the wallet one of his coins. *)
Receive ==
    /\ fresh <= MaxOutpoints
    /\ \E o \in DOMAIN utxos :
        /\ utxos[o].owner = Foreign /\ utxos[o].value > 1
        /\ Refusal({o}, 1) = "none"
        /\ Submit({o}, <<Coin(Own, utxos[o].value - 1, NextHeight)>>)
    /\ UNCHANGED <<utxos, chain, reply>>

Without(f, S) == [o \in DOMAIN f \ S |-> f[o]]
Plus(f, g) == [o \in DOMAIN f \union DOMAIN g |-> IF o \in DOMAIN g THEN g[o] ELSE f[o]]

ApplyBlock(u, block) ==
    LET txs == ToSet(block.transactions)
        spent == UNION {t.inputs : t \in txs}
    IN  Plus(FoldSet(LAMBDA t, acc : Plus(acc, t.outputs), Without(u, spent), txs),
             block.coinbase)

(* A block of the whole mempool, mined by the wallet's owner or another. *)
Mine(miner) ==
    /\ Len(chain) < MaxHeight
    /\ fresh <= MaxOutpoints
    /\ LET block == [coinbase |-> Outputs(fresh, <<Coin(miner, Reward, NextHeight + Maturity)>>),
                     transactions |-> mempool]
       IN  /\ chain' = Append(chain, block)
           /\ utxos' = ApplyBlock(utxos, block)
    /\ fresh' = fresh + 1
    /\ mempool' = <<>>
    /\ reply' = NoReply

(* A branch with an empty block in place of the last one becomes active;   *)
(* the mempool keeps what is still valid.                                  *)
Reorganize ==
    /\ chain # <<>>
    /\ Last(chain).transactions # <<>>
    /\ fresh <= MaxOutpoints
    /\ LET empty == [coinbase |-> Outputs(fresh, <<Coin(Foreign, Reward, Len(chain) + Maturity)>>),
                     transactions |-> <<>>]
           branch == Append(Front(chain), empty)
           u == FoldLeft(ApplyBlock, Endowment, branch)
       IN  /\ chain' = branch
           /\ utxos' = u
           /\ mempool' = SelectSeq(mempool,
                            LAMBDA t : CoinError(u, NextHeight, {}, t.inputs) = "none")
    /\ fresh' = fresh + 1
    /\ reply' = NoReply

Next ==
    \/ \E amount \in Amounts, fee \in Fees : Send(amount, fee)
    \/ \E fee \in Fees : Consolidate(fee)
    \/ Receive
    \/ \E miner \in {Own, Foreign} : Mine(miner)
    \/ Reorganize

Spec == Init /\ [][Next]_vars

(***************************************************************************)
(* wallet_snapshot.                                                        *)
(***************************************************************************)
Spendable == ValueOf(utxos, Mature \ Reserved)
Immature == ValueOf(utxos, Owned \ Mature)
ReservedValue == ValueOf(utxos, Mature \intersect Reserved)

OwnValue(outs, S) == ValueOf(outs, {o \in S : outs[o].owner = Own})

Entry(kind, net) == [kind |-> kind, net |-> net]

(* retain_newest_wallet_history *)
Retain(history, limit, entry) ==
    CASE limit = 0 -> history
      [] Len(history) = limit -> Append(Tail(history), entry)
      [] OTHER -> Append(history, entry)

(* Mutant of HistoryStep: what a transaction returns to the wallet is lost. *)
HistoryStepInputsKept(acc, t, limit) ==
    LET outs == Plus(acc.outs, t.outputs)
        debit == OwnValue(acc.outs, t.inputs)
        credit == OwnValue(t.outputs, DOMAIN t.outputs)
    IN  [outs |-> outs,
         history |-> CASE debit > 0 -> Retain(acc.history, limit, Entry("sent", -debit))
                       [] credit > 0 -> Retain(acc.history, limit, Entry("received", credit))
                       [] OTHER -> acc.history]

(* One transaction of the history, from the outputs made so far. *)
HistoryStep(acc, t, limit) ==
    LET outs == Plus(Without(acc.outs, t.inputs), t.outputs)
        debit == OwnValue(acc.outs, t.inputs)
        credit == OwnValue(t.outputs, DOMAIN t.outputs)
    IN  [outs |-> outs,
         history |-> CASE debit > 0 -> Retain(acc.history, limit, Entry("sent", credit - debit))
                       [] credit > 0 -> Retain(acc.history, limit, Entry("received", credit))
                       [] OTHER -> acc.history]

(* confirmed_wallet_history, newest last. *)
ConfirmedHistory(limit) ==
    LET block(acc, b) ==
            LET mined == OwnValue(b.coinbase, DOMAIN b.coinbase)
                start == [outs |-> Plus(acc.outs, b.coinbase),
                          history |-> IF mined > 0
                                      THEN Retain(acc.history, limit, Entry("mined", mined))
                                      ELSE acc.history]
            IN  FoldLeft(LAMBDA a, t : HistoryStep(a, t, limit), start, b.transactions)
    IN  FoldLeft(block, [outs |-> Endowment, history |-> <<>>], chain).history

(* pending_wallet_history: what the mempool will change, newest first. *)
PendingHistory ==
    LET entry(t) == LET debit == OwnValue(utxos, t.inputs \intersect DOMAIN utxos)
                        credit == OwnValue(t.outputs, DOMAIN t.outputs)
                    IN  CASE debit > 0 -> <<Entry("sent", credit - debit)>>
                          [] credit > 0 -> <<Entry("received", credit)>>
                          [] OTHER -> <<>>
    IN  FlattenSeq([i \in DOMAIN mempool |-> entry(mempool[Len(mempool) - i + 1])])

(* wallet_snapshot.history: the pending entries, then the newest confirmed *)
(* ones, cut to MaxHistory.                                                *)
SnapshotHistory ==
    LET pending == SubSeq(PendingHistory, 1, IF Len(PendingHistory) < MaxHistory
                                             THEN Len(PendingHistory) ELSE MaxHistory)
    IN  pending \o Reverse(ConfirmedHistory(MaxHistory - Len(pending)))
-----------------------------------------------------------------------------

(* Outputs are numbered below the counter and hold value.                  *)
TypeOK ==
    /\ \A o \in DOMAIN utxos : o \in 1..(fresh - 1) /\ utxos[o].value > 0
    /\ fresh \in 1..(MaxOutpoints + 2)
    /\ Len(chain) <= MaxHeight

Net(history) == FoldLeft(LAMBDA acc, e : acc + e.net, 0, history)

(* The history the wallet shows adds up to what it owns, confirmed entries *)
(* to the UTXO set and pending ones to what the mempool will make of it,   *)
(* after any sequence of sends, receipts, blocks and reorganizations; a    *)
(* full history loses its oldest entries only.                             *)
HistoryAddsUp ==
    LET all == ConfirmedHistory(MaxOutpoints)
        kept == MaxHistory - Len(PendingHistory)
        future == ValueOf(utxos, Owned \ Reserved)
                  + MapThenSumSet(LAMBDA i : OwnValue(mempool[i].outputs, DOMAIN mempool[i].outputs),
                                  DOMAIN mempool)
    IN  /\ OwnValue(Endowment, DOMAIN Endowment) + Net(all) = Spendable + Immature + ReservedValue
        /\ OwnValue(Endowment, DOMAIN Endowment) + Net(all) + Net(PendingHistory) = future
        /\ kept > 0 => SnapshotHistory =
                PendingHistory \o Reverse(SubSeq(all, 1 + Max({0, Len(all) - kept}), Len(all)))

(* The node's own mempool refuses a transaction the wallet has made only   *)
(* where one of its limits, or of a block's, is reached, whatever else is  *)
(* pending and however often the chain has reorganized: never because a    *)
(* coin of it is gone, promised to another transaction or immature.        *)
OwnSendsAdmitted ==
    reply.status \notin {"MempoolUnconfirmedInput", "MempoolInputConflict", "ImmatureInput"}

(* When the wallet says that too many inputs would be needed, no choice of *)
(* MaxInputs coins covers the amount.                                      *)
InputLimitTruthful ==
    reply.status = "InputLimit" =>
        \A S \in SUBSET reply.candidates :
            Cardinality(S) <= MaxInputs => ValueOf(utxos, S) < reply.required
=============================================================================
