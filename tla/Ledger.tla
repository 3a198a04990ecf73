------------------------------- MODULE Ledger --------------------------------
(***************************************************************************)
(* The consensus ledger: amounts, locks and channels of the UTXO set, the  *)
(* block-local overlay a block is validated in, coinbase and emission, the *)
(* median time rule and the retarget, and the two-step validate_block and  *)
(* commit_validated of ChainState (chain.rs, economics.rs, difficulty.rs). *)
(*                                                                         *)
(* Transactions come from a catalogue and are named by their txid.  A      *)
(* block_id hashes all of a block, its parent's id included: a block is    *)
(* its own id here.  Signatures are their signer; network, version,        *)
(* encoding, Merkle root and proof of work are the flag "sound".           *)
(***************************************************************************)
EXTENDS Retarget

CONSTANTS Tx,                \* catalogue: txid -> transaction
          Terms,             \* channel id -> [customer, provider, deposit, refund_height, close_fee]
          Miners,            \* payout keys
          Steward, Community,  \* FixedRewardDestinations
          Policy,            \* MonetaryPolicy
          CoinbaseMaturity,
          MaxAmount,         \* largest u64
          MaxInputs, MaxOutputs, MaxBlockTxs, MaxBlockInputs, MaxBlockOutputs,
          MaxCoinbaseOutputs, MaxSignatureChecks,
          Now,               \* now_unix_seconds of the validation context
          MaxHeight          \* bound on the height of the chain

(* Transactions have lists of inputs and outputs, an output one of the two *)
(* locks of OutputLock, and a channel input the terms of its channel.      *)
(* Amounts, heights and percentages are unsigned.                          *)
TransactionAssumption(tx) ==
    /\ tx.inputs \in Seq(ToSet(tx.inputs))
    /\ tx.outputs \in Seq(ToSet(tx.outputs))
    /\ \A out \in ToSet(tx.outputs) :
          /\ out.lock = <<out.lock[1], out.lock[2]>> /\ out.lock[1] \in {"key", "channel"}
          /\ out.value \in Nat
    /\ \A in \in ToSet(tx.inputs) :
          in.witness.kind # "key" =>
              in.witness.key \in DOMAIN Terms /\ in.witness.payment \in Nat

LedgerAssumption ==
    /\ \A t \in DOMAIN Tx : TransactionAssumption(Tx[t])
    /\ \A c \in DOMAIN Terms : Terms[c].deposit \in Nat /\ Terms[c].close_fee \in Nat
    /\ Policy.initial_subsidy \in Nat /\ Policy.tail_height \in Nat
    /\ Policy.tail_subsidy \in Nat
    /\ Policy.steward_percent \in Nat /\ Policy.community_percent \in Nat

VARIABLES state,   \* ChainState
          chain,   \* the blocks of the active chain
          body,    \* transactions chosen for the next block
          token    \* the ValidatedBlock a caller holds

vars == <<state, chain, body, token>>

(* checked_add over a list: the total, or Overflow. *)
Overflow == -1
CheckedTotal(Value(_), seq) ==
    LET total == SumOf(Value, seq) IN IF total > MaxAmount THEN Overflow ELSE total

(***************************************************************************)
(* Emission.                                                               *)
(***************************************************************************)
DecliningSubsidy(height) ==
    LET blocks == Policy.tail_height - 1
        elapsed == LesserOf(IF height = 0 THEN 0 ELSE height - 1, blocks)
    IN  (Policy.initial_subsidy * (blocks - elapsed)) \div blocks

Subsidy(height) == IF height >= Policy.tail_height THEN Policy.tail_subsidy
                   ELSE DecliningSubsidy(height)

Share(percent, amount) == (amount * percent) \div 100

Allocation(height, fees) ==
    LET tail == height >= Policy.tail_height
        subsidy == Subsidy(height)
        steward == IF tail THEN 0 ELSE Share(Policy.steward_percent, subsidy)
        community == IF tail THEN 0 ELSE Share(Policy.community_percent, subsidy)
    IN  [miner |-> subsidy - steward - community, steward |-> steward,
         community |-> community, fees_burned |-> fees]

PolicyValid ==
    LET last == DecliningSubsidy(Policy.tail_height - 1)
        steward == Share(Policy.steward_percent, last)
        community == Share(Policy.community_percent, last)
    IN  /\ Policy.initial_subsidy > 0 /\ Policy.tail_height > 1 /\ Policy.tail_subsidy > 0
        /\ Policy.steward_percent + Policy.community_percent <= 100
        /\ last > 0
        /\ last - steward - community > 0
        /\ Policy.steward_percent = 0 \/ steward > 0
        /\ Policy.community_percent = 0 \/ community > 0

GreatestCommonDivisor[pair \in Nat \X Nat] ==
    IF pair[2] = 0 THEN pair[1] ELSE GreatestCommonDivisor[<<pair[2], pair[1] % pair[2]>>]

(* Mutant of LinearSupply: the lattice points on the line are not counted. *)
LinearSupplyNoGcd(subsidy, blocks) == (subsidy * blocks + subsidy - blocks) \div 2

LinearSupply(subsidy, blocks) ==
    (subsidy * blocks + subsidy - blocks + GreatestCommonDivisor[<<subsidy, blocks>>]) \div 2

(***************************************************************************)
(* The UTXO set and the overlay.                                           *)
(***************************************************************************)
KeyLock(k) == <<"key", k>>
ChannelLock(c) == <<"channel", c>>
Output(value, lock, height) == [value |-> value, lock |-> lock, spendable_height |-> height]
None == Output(0, KeyLock(""), 0)
IfPositive(out) == IF out.value > 0 THEN <<out>> ELSE <<>>

EmptyUtxos == [outputs |-> << >>, active |-> {}, retired |-> {}]
BaseGet(u, o) == IF o \in DOMAIN u.outputs THEN u.outputs[o] ELSE None

(* The overlay of a block: changes to outputs and to the two channel sets, *)
(* each with the value found in the base, and the inputs spent so far.     *)
NewOverlay(u) == [base |-> u, outputs |-> << >>, active |-> << >>, retired |-> << >>,
                  spent |-> {}, fees |-> 0, ok |-> TRUE]
Failed(ov) == [ov EXCEPT !.ok = FALSE]

Drop(f, x) == [y \in DOMAIN f \ {x} |-> f[y]]
Put(f, x, v) == [y \in DOMAIN f \union {x} |-> IF y = x THEN v ELSE f[y]]

(* stage_output, stage_membership: a change back to the base is no change. *)
Stage(changes, key, previous, next) ==
    IF previous = next THEN Drop(changes, key)
    ELSE Put(changes, key, [previous |-> previous, next |-> next])

StageOutput(ov, o, next) ==
    [ov EXCEPT !.outputs = Stage(@, o, BaseGet(ov.base, o), next)]
StageActive(ov, c, next) == [ov EXCEPT !.active = Stage(@, c, c \in ov.base.active, next)]
StageRetired(ov, c, next) == [ov EXCEPT !.retired = Stage(@, c, c \in ov.base.retired, next)]

Get(ov, o) == IF o \in DOMAIN ov.outputs THEN ov.outputs[o].next ELSE BaseGet(ov.base, o)
IsActive(ov, c) == IF c \in DOMAIN ov.active THEN ov.active[c].next ELSE c \in ov.base.active
IsRetired(ov, c) == IF c \in DOMAIN ov.retired THEN ov.retired[c].next ELSE c \in ov.base.retired

(* Mutant of MayOpen: the channels closed earlier are not looked up. *)
MayOpenAgain(ov, c) == ~IsActive(ov, c)

MayOpen(ov, c) == ~IsActive(ov, c) /\ ~IsRetired(ov, c)

InsertOutput(ov, o, out) ==
    IF \/ ~ov.ok
       \/ out.value = 0
       \/ out.lock[1] = "channel" /\ ~MayOpen(ov, out.lock[2])
       \/ Get(ov, o) # None
    THEN Failed(ov)
    ELSE StageOutput(IF out.lock[1] = "channel" THEN StageActive(ov, out.lock[2], TRUE) ELSE ov,
                     o, out)

(* The txid of an outpoint: a transaction's, or coinbase_outpoint_id.      *)
OfTransaction(txid) == <<"transaction", txid>>
OfCoinbase(block) == <<"coinbase", block>>

InsertOutputs(ov, txid, outputs) ==
    Folded(LAMBDA acc, i : InsertOutput(acc, <<txid, i - 1>>, outputs[i]),
             ov, [i \in 1..Len(outputs) |-> i])

Value(out) == out.value
Previous(tx) == {tx.inputs[i].previous : i \in DOMAIN tx.inputs}

(***************************************************************************)
(* Transactions.                                                           *)
(***************************************************************************)
KeyInputValid(ov, in, height) ==
    LET previous == Get(ov, in.previous)
    IN  /\ previous # None
        /\ height >= previous.spendable_height
        /\ previous.lock = KeyLock(in.witness.key)
        /\ in.witness.signer = in.witness.key

(* Mutant of FreshInputs: only earlier transactions of the block are looked at. *)
FreshInputsPerTransaction(ov, tx) == Previous(tx) \intersect ov.spent = {}

(* spent.insert: no outpoint twice in the block, the transaction included. *)
FreshInputs(ov, tx) ==
    /\ Previous(tx) \intersect ov.spent = {}
    /\ Cardinality(Previous(tx)) = Len(tx.inputs)

(* The inputs leave the overlay and the outputs enter it. *)
Spend(ov, txid, fee) ==
    InsertOutputs([Folded(LAMBDA acc, i : StageOutput(acc, i.previous, None), ov,
                            Tx[txid].inputs)
                      EXCEPT !.spent = @ \union Previous(Tx[txid]), !.fees = @ + fee],
                  OfTransaction(txid), Tx[txid].outputs)

ApplyKeyTransaction(ov, txid, height) ==
    LET tx == Tx[txid]
        InputValue(in) == Get(ov, in.previous).value
        Balanced(in, out) == in # Overflow /\ out # Overflow /\ out <= in
    IN  IF /\ FreshInputs(ov, tx)
           /\ \A i \in DOMAIN tx.inputs : KeyInputValid(ov, tx.inputs[i], height)
           /\ Balanced(CheckedTotal(InputValue, tx.inputs), CheckedTotal(Value, tx.outputs))
        THEN Spend(ov, txid, SumOf(InputValue, tx.inputs) - SumOf(Value, tx.outputs))
        ELSE Failed(ov)

(* The outputs of a channel close, zero amounts left out. *)
ChannelOutputs(provider_value, customer_value, terms, height) ==
    IfPositive(Output(provider_value, KeyLock(terms.provider), height))
    \o IfPositive(Output(customer_value, KeyLock(terms.customer), height))

(* A settlement pays what its state says (module PaymentChannel); a refund *)
(* pays the customer from refund_height on.                                *)
CloseValid(w, terms, height) ==
    \/ w.kind = "settlement" /\ w.signer = "both" /\ w.payment <= terms.deposit - terms.close_fee
    \/ w.kind = "refund" /\ height >= terms.refund_height

CloseBalanced(previous, tx, w, terms, height) ==
    LET paid == IF w.kind = "settlement" THEN w.payment ELSE 0
    IN  /\ previous # None
        /\ height >= previous.spendable_height
        /\ previous.lock = ChannelLock(w.key)
        /\ terms.deposit = previous.value
        /\ CloseValid(w, terms, height)
        /\ tx.outputs = ChannelOutputs(paid, terms.deposit - terms.close_fee - paid, terms, height)
        /\ CheckedTotal(Value, tx.outputs) + terms.close_fee = previous.value

ApplyChannelTransaction(ov, txid, height) ==
    LET tx == Tx[txid]
        in == tx.inputs[1]
        terms == Terms[in.witness.key]
        Closed(after) == StageRetired(StageActive(after, in.witness.key, FALSE),
                                      in.witness.key, TRUE)
    IN  IF /\ Len(tx.inputs) = 1
           /\ FreshInputs(ov, tx)
           /\ CloseBalanced(Get(ov, in.previous), tx, in.witness, terms, height)
        THEN Spend(Closed(ov), txid, terms.close_fee)
        ELSE Failed(ov)

ApplyTransaction(ov, txid, height) ==
    LET tx == Tx[txid]
    IN  IF ~(/\ ov.ok /\ tx.sound
             /\ tx.inputs # <<>> /\ tx.outputs # <<>>
             /\ \A i \in DOMAIN tx.outputs : tx.outputs[i].value > 0)
        THEN Failed(ov)
        ELSE IF \E i \in DOMAIN tx.inputs : tx.inputs[i].witness.kind # "key"
             THEN ApplyChannelTransaction(ov, txid, height)
             ELSE ApplyKeyTransaction(ov, txid, height)

SignatureChecks(tx) ==
    LET Checks(in) == CASE in.witness.kind = "key" -> 1
                        [] in.witness.kind = "settlement" -> 2
                        [] OTHER -> 0
    IN  SumOf(Checks, tx.inputs)

(* validate_transaction_resources, per transaction and over the set. *)
ResourcesValid(txids) ==
    LET Inputs(t) == Len(Tx[t].inputs)
        Outputs(t) == Len(Tx[t].outputs)
        Checks(t) == SignatureChecks(Tx[t])
    IN  /\ Len(txids) <= MaxBlockTxs
        /\ \A i \in DOMAIN txids : /\ Inputs(txids[i]) <= MaxInputs
                                   /\ Outputs(txids[i]) <= MaxOutputs
        /\ SumOf(Inputs, txids) <= MaxBlockInputs
        /\ SumOf(Outputs, txids) <= MaxBlockOutputs
        /\ SumOf(Checks, txids) <= MaxSignatureChecks

ApplyAll(u, txids, height) ==
    Folded(LAMBDA ov, t : ApplyTransaction(ov, t, height), NewOverlay(u), txids)

ValidateTransactionsForNextBlock(s, txids) ==
    ResourcesValid(txids) /\ ApplyAll(s.utxos, txids, s.next_height).ok

(***************************************************************************)
(* Blocks.                                                                 *)
(***************************************************************************)

(* Coinbase::new: fees are burned, only the miner's output matures late. *)
Coinbase(height, allocation, miner) ==
    <<Output(allocation.miner, KeyLock(miner), height + CoinbaseMaturity)>>
    \o IfPositive(Output(allocation.steward, KeyLock(Steward), height))
    \o IfPositive(Output(allocation.community, KeyLock(Community), height))

ValidateCoinbase(block, allocation) ==
    /\ block.coinbase[1].lock[1] = "key"
    /\ block.coinbase = Coinbase(block.height, allocation, block.coinbase[1].lock[2])

(* UtxoSet::validate_delta: the overlay after the whole block. *)
InsertCoinbase(ov, block) ==
    IF /\ ov.ok
       /\ ov.fees <= MaxAmount
       /\ ValidateCoinbase(block, Allocation(block.height, ov.fees))
    THEN InsertOutputs(ov, OfCoinbase(block), block.coinbase)
    ELSE Failed(ov)

ValidateDelta(u, block) ==
    IF /\ ResourcesValid(block.txids) /\ Len(block.coinbase) <= MaxCoinbaseOutputs
       /\ block.sound
    THEN InsertCoinbase(ApplyAll(u, block.txids, block.height), block)
    ELSE Failed(NewOverlay(u))

Genesis == [height |-> 0]

NewChainState ==
    [utxos |-> EmptyUtxos, history |-> <<[timestamp |-> GenesisTime, target |-> PowLimit]>>,
     raw_timestamps |-> <<GenesisTime>>, tip |-> Genesis, next_height |-> 1]

ExpectedTarget(s) == NextWorkTarget(s.history)
MedianTimePast(s) == MedianTimestamp(s.raw_timestamps)

HeaderValid(s, block) ==
    /\ block.height = s.next_height
    /\ block.previous = s.tip
    /\ TimestampValid(s.raw_timestamps, block.timestamp, Now)
    /\ ExpectedTarget(s) # NoTarget /\ block.target = ExpectedTarget(s)

NoToken == [ok |-> FALSE]

(* ChainState::validate_block: a token with the state it was made for. *)
Token(s, block, delta) ==
    IF ~delta.ok THEN NoToken
    ELSE [ok |-> TRUE, block |-> block,
          base |-> [tip |-> s.tip, next_height |-> s.next_height,
                    target |-> ExpectedTarget(s), median |-> MedianTimePast(s),
                    history |-> Len(s.history)],
          delta |-> [outputs |-> delta.outputs, active |-> delta.active,
                     retired |-> delta.retired],
          effective |-> EffectiveTime(s.raw_timestamps, block.timestamp)]

ValidateBlock(s, block) ==
    IF HeaderValid(s, block) THEN Token(s, block, ValidateDelta(s.utxos, block)) ELSE NoToken

Matches(delta, u) ==
    /\ \A o \in DOMAIN delta.outputs : BaseGet(u, o) = delta.outputs[o].previous
    /\ \A c \in DOMAIN delta.active : (c \in u.active) = delta.active[c].previous
    /\ \A c \in DOMAIN delta.retired : (c \in u.retired) = delta.retired[c].previous

(* Mutant of Members: a channel that left the set stays. *)
MembersAdded(set, changes) == set \union {c \in DOMAIN changes : changes[c].next}

Members(set, changes) ==
    (set \ DOMAIN changes) \union {c \in DOMAIN changes : changes[c].next}

ApplyDelta(delta, u) ==
    LET kept == DOMAIN u.outputs \ DOMAIN delta.outputs
        made == {o \in DOMAIN delta.outputs : delta.outputs[o].next # None}
    IN  [outputs |-> [o \in kept \union made |->
                        IF o \in made THEN delta.outputs[o].next ELSE u.outputs[o]],
         active |-> Members(u.active, delta.active),
         retired |-> Members(u.retired, delta.retired)]

(* Mutant of NotStale: the tip is not compared. *)
NotStaleNoTip(s, t) ==
    /\ t.base.next_height = s.next_height /\ t.base.history = Len(s.history)
    /\ t.base.median = MedianTimePast(s) /\ t.base.target = ExpectedTarget(s)
    /\ Matches(t.delta, s.utxos)

NotStale(s, t) ==
    /\ t.base.tip = s.tip
    /\ t.base.next_height = s.next_height /\ t.base.history = Len(s.history)
    /\ t.base.median = MedianTimePast(s) /\ t.base.target = ExpectedTarget(s)
    /\ Matches(t.delta, s.utxos)

Committed(s, t) ==
    [utxos |-> ApplyDelta(t.delta, s.utxos),
     raw_timestamps |-> Append(s.raw_timestamps, t.block.timestamp),
     history |-> Append(s.history, [timestamp |-> t.effective, target |-> t.block.target]),
     tip |-> t.block, next_height |-> s.next_height + 1]

(* rebuild_state_to: a replay from genesis. *)
Rebuild(blocks) ==
    Folded(LAMBDA s, b : Committed(s, ValidateBlock(s, b)), NewChainState, blocks)

(***************************************************************************)
(* The specification.                                                      *)
(***************************************************************************)
Init ==
    /\ PolicyValid
    /\ state = NewChainState
    /\ chain = <<>>
    /\ body = <<>>
    /\ token = NoToken

(* The blocks somebody may offer on s: with two proofs, and a coinbase     *)
(* that burns the fees or keeps them.                                      *)
Candidates(s, txids) ==
    LET Coinbases(a) ==
            UNION {{Coinbase(s.next_height, a, m),
                    Coinbase(s.next_height, [a EXCEPT !.miner = @ + a.fees_burned], m)} :
                       m \in Miners}
    IN  {[height |-> s.next_height, previous |-> s.tip,
          timestamp |-> MedianTimePast(s) + 1, target |-> ExpectedTarget(s),
          txids |-> txids, coinbase |-> cb, proof |-> v, sound |-> TRUE] :
            v \in {0, 1},
            cb \in Coinbases(Allocation(s.next_height,
                                        ApplyAll(s.utxos, txids, s.next_height).fees))}

(* A transaction joins the set for the next block. *)
Choose(t) ==
    /\ ~token.ok /\ Len(chain) < MaxHeight
    /\ ~\E i \in DOMAIN body : body[i] = t
    /\ ValidateTransactionsForNextBlock(state, Append(body, t))
    /\ body' = Append(body, t)
    /\ UNCHANGED <<state, chain, token>>

Validate(b) ==
    /\ ~token.ok
    /\ \E t \in {ValidateBlock(state, b)} : t.ok /\ token' = t
    /\ body' = <<>>
    /\ UNCHANGED <<state, chain>>

(* commit_validated: the token is consumed either way. *)
CommitValidated ==
    /\ token.ok
    /\ token' = NoToken
    /\ \/ /\ NotStale(state, token)
          /\ state' = Committed(state, token)
          /\ chain' = Append(chain, token.block)
       \/ /\ ~NotStale(state, token)
          /\ UNCHANGED <<state, chain>>
    /\ UNCHANGED body

(* validate_and_apply of another block while a token is held. *)
ValidateAndApply(b) ==
    /\ b # token.block
    /\ \E t \in {ValidateBlock(state, b)} : t.ok /\ state' = Committed(state, t)
    /\ chain' = Append(chain, b)
    /\ UNCHANGED <<body, token>>

(* The node moves to a branch that replaces the last block. *)
Reorganize(parent, b) ==
    /\ b # Last(chain)
    /\ \E t \in {ValidateBlock(parent, b)} : t.ok /\ state' = Committed(parent, t)
    /\ chain' = Append(Front(chain), b)
    /\ UNCHANGED <<body, token>>

Grow ==
    /\ Len(chain) < MaxHeight
    /\ \/ \E b \in Candidates(state, body) : Validate(b)
       \/ /\ token.ok
          /\ \E txids \in {<<>>, token.block.txids} :
                \E b \in Candidates(state, txids) : ValidateAndApply(b)

Replace ==
    /\ chain # <<>> /\ body = <<>>
    /\ \E parent \in {Rebuild(Front(chain))}, txids \in {<<>>, Last(chain).txids} :
        \E b \in Candidates(parent, txids) : Reorganize(parent, b)

Next ==
    \/ \E t \in DOMAIN Tx : Choose(t)
    \/ Grow
    \/ CommitValidated
    \/ Replace

Spec == Init /\ [][Next]_vars
-----------------------------------------------------------------------------

(* Chain, header history and block times grow together; outputs hold       *)
(* amounts.                                                                *)
TypeOK ==
    /\ state.next_height = Len(chain) + 1
    /\ Len(state.history) = Len(chain) + 1 /\ Len(state.raw_timestamps) = Len(chain) + 1
    /\ body \in Seq(DOMAIN Tx)
    /\ token.ok \in BOOLEAN
    /\ \A o \in DOMAIN state.utxos.outputs : state.utxos.outputs[o].value \in 1..MaxAmount

(* What transactions and coinbases create and spend, read off directly.    *)
Included(blocks) == UNION {ToSet(blocks[n].txids) : n \in DOMAIN blocks}
OutputsOf(txid, outputs) ==
    {[at |-> <<txid, i - 1>>, out |-> outputs[i]] : i \in DOMAIN outputs}
CreatedBy(txids, blocks) ==
    (UNION {OutputsOf(OfTransaction(t), Tx[t].outputs) : t \in txids})
    \union (UNION {OutputsOf(OfCoinbase(b), b.coinbase) : b \in blocks})
SpentBy(txids) == UNION {Previous(Tx[t]) : t \in txids}

Created == CreatedBy(Included(chain), ToSet(chain))
ChannelsOf(created) == {r.out.lock[2] : r \in {q \in created : q.out.lock[1] = "channel"}}

(* The UTXO set that commits of block-local deltas arrive at, through      *)
(* stale tokens and reorganizations, is what a plain reading of the active *)
(* chain gives: everything created and not spent, channels with it.        *)
StateIsReplay ==
    LET created == Created
        spent == SpentBy(Included(chain))
        unspent == {r \in created : r.at \notin spent}
    IN  /\ {[at |-> o, out |-> state.utxos.outputs[o]] : o \in DOMAIN state.utxos.outputs}
            = unspent
        /\ state.utxos.active = ChannelsOf(unspent)
        /\ state.utxos.retired = ChannelsOf(created) \ state.utxos.active

(* No input is spent twice, no channel is funded twice, not even after it  *)
(* was closed, in whatever order blocks bring the transactions.            *)
SpentOnce ==
    LET funding == {r \in Created : r.out.lock[1] = "channel"}
    IN  /\ \A t, u \in Included(chain) :
              t # u => Previous(Tx[t]) \intersect Previous(Tx[u]) = {}
        /\ \A r, q \in funding : r.out.lock = q.out.lock => r.at = q.at

(* Each block of the chain extends the one before: a token validated for   *)
(* another state never commits, even at the same height.                   *)
ChainLinked ==
    \A i \in DOMAIN chain : chain[i].previous = IF i = 1 THEN Genesis ELSE chain[i - 1]

(* Through stale tokens and reorganizations, blocks extend one another,    *)
(* nothing is spent or funded twice, and the committed state is what a     *)
(* plain reading of the active chain gives.                                *)
LedgerIsReplay == ChainLinked /\ SpentOnce /\ StateIsReplay

(* The sum of f over a finite set.                                         *)
TotalOf(f, S) == MapThenSumSet(LAMBDA x : f[x], S)

(* What a transaction takes of what was created, and what it leaves over.  *)
SpentValue(created, t) ==
    TotalOf([r \in created |-> r.out.value], {r \in created : r.at \in Previous(Tx[t])})
FeePaid(created, t) == SpentValue(created, t) - SumOf(Value, Tx[t].outputs)

(* The coins in the UTXO set are the scheduled subsidies less what fees    *)
(* burned: no transaction, channel close or coinbase makes or loses value. *)
ValueConserved ==
    LET fees == [t \in Included(chain) |-> FeePaid(Created, t)]
        coins == [o \in DOMAIN state.utxos.outputs |-> state.utxos.outputs[o].value]
        issued == [i \in 1..Len(chain) |-> Subsidy(i)]
    IN  /\ \A t \in Included(chain) : fees[t] >= 0
        /\ TotalOf(coins, DOMAIN coins) + TotalOf(fees, DOMAIN fees)
             = TotalOf(issued, DOMAIN issued)

(* The declining phase issues exactly the closed form of                   *)
(* scheduled_supply_before_tail.                                           *)
SupplyOnSchedule ==
    LET declining == 1..(Policy.tail_height - 1)
        paid == [i \in declining |-> SumOf(Value, chain[i].coinbase)]
    IN  Len(chain) >= Policy.tail_height - 1 =>
            TotalOf(paid, declining)
                = LinearSupply(Policy.initial_subsidy, Policy.tail_height - 1)

(* Coins and burned fees together are the subsidies, and those of the      *)
(* declining phase add up to the closed form.                              *)
LedgerConserved == ValueConserved /\ SupplyOnSchedule
=============================================================================
