---------------------------- MODULE PaymentChannel ----------------------------
(***************************************************************************)
(* One inference payment channel: the off-chain states the customer signs, *)
(* the receipts the provider signs (crates/cmfd-marketplace/src/lib.rs)    *)
(* and the on-chain settlement or refund that closes the channel           *)
(* (apply_channel_transaction in crates/cmfd-consensus/src/chain.rs).      *)
(*                                                                         *)
(* Signed messages travel over an unreliable medium: once signed they are  *)
(* in `states` or `receipts` and may be used late, twice or never.  A      *)
(* receipt digest stands for its receipt, channel_id for the only channel. *)
(***************************************************************************)
EXTENDS Integers, FiniteSets

CONSTANTS
    Deposit, BasePrice, InputPricePer1000, OutputPricePer1000,
    OutputChunkTokens, MaxInputTokens, MaxOutputTokens, CloseFeeBurn,
    RefundHeight,   \* ChannelTerms
    MaxSequence,    \* bound: sequence numbers a foreign client may sign
    MaxSigned,      \* bound: states a foreign client may sign
    MaxHeight,      \* bound: block heights explored
    None

Receipts ==
    [sequence : 0..MaxSequence, input : 0..MaxInputTokens,
     delivered : 0..MaxOutputTokens]

PaymentStates ==
    [sequence : 0..MaxSequence, input : 0..MaxInputTokens,
     authorized : 0..MaxOutputTokens, payment : 0..Deposit, refund : 0..Deposit,
     fee : 0..Deposit, receipt : Receipts \cup {None}]

ASSUME TermsAssumption ==
    /\ Deposit \in Nat /\ BasePrice \in Nat
    /\ InputPricePer1000 \in Nat /\ OutputPricePer1000 \in Nat
    /\ OutputChunkTokens \in Nat \ {0}
    /\ MaxInputTokens \in Nat \ {0} /\ MaxOutputTokens \in Nat \ {0}
    /\ CloseFeeBurn \in Nat /\ CloseFeeBurn < Deposit
    /\ RefundHeight \in Nat /\ MaxSequence \in Nat \ {0} /\ MaxSigned \in Nat
    /\ MaxHeight \in Nat
    /\ None \notin PaymentStates

VARIABLES
    customer,   \* "library": signs with this library; "foreign": signs anything
    states,     \* PaymentStates with a valid customer signature
    receipts,   \* InferenceReceipts with a valid provider signature
    held,       \* the customer's newest state
    accepted,   \* the newest state the provider has verified
    delivered,  \* output tokens the provider has streamed
    closes,     \* close transactions in the nodes' pools
    height,     \* height of the last block
    payout      \* None while the channel output is unspent, else what it paid

vars == <<customer, states, receipts, held, accepted, delivered, closes, height,
          payout>>

-----------------------------------------------------------------------------
(* rounded_token_charge: price per thousand tokens, rounded up.  The u64   *)
(* overflow errors reject only amounts far above any deposit, which        *)
(* DepositExceeded rejects too.                                            *)
RoundedTokenCharge(tokens, price) == (tokens * price + 999) \div 1000

(* quoted_payment within its limits *)
QuotedPayment(input, output) ==
    BasePrice + RoundedTokenCharge(input, InputPricePer1000)
              + RoundedTokenCharge(output, OutputPricePer1000)

(* Mutant: the close fee is not reserved.                                  *)
StateForOkNoFee(input, output) ==
    /\ input <= MaxInputTokens /\ output <= MaxOutputTokens
    /\ QuotedPayment(input, output) <= Deposit

(* state_for succeeds: token limits and the deposit cover payment and fee. *)
StateForOk(input, output) ==
    /\ input <= MaxInputTokens /\ output <= MaxOutputTokens
    /\ QuotedPayment(input, output) + CloseFeeBurn <= Deposit

StateFor(sequence, input, output, receipt) ==
    LET payment == QuotedPayment(input, output) IN
    [sequence |-> sequence, input |-> input, authorized |-> output,
     payment |-> payment, refund |-> Deposit - payment - CloseFeeBurn,
     fee |-> CloseFeeBurn, receipt |-> receipt]

(* "signed.state != expected": payment, refund and fee are the quoted ones. *)
ExactState(s) ==
    /\ StateForOk(s.input, s.authorized)
    /\ s = StateFor(s.sequence, s.input, s.authorized, s.receipt)

(* verify_state with no previous state *)
VerifyFirstState(s) ==
    /\ s.sequence = 0 /\ s.receipt = None
    /\ s.authorized \in 1..OutputChunkTokens
    /\ ExactState(s)

(* verify_receipt of a provider-signed receipt for state s *)
VerifyReceipt(s, r) ==
    /\ r.sequence = s.sequence
    /\ r.input = s.input
    /\ r.delivered <= s.authorized

(* Mutant: an authorization may also go down.                              *)
WithinChunkEitherWay(prior, authorized) ==
    authorized - prior.authorized <= OutputChunkTokens

(* the step in authorized tokens that next_state and verify_state allow    *)
WithinChunk(prior, authorized) ==
    /\ authorized >= prior.authorized
    /\ authorized - prior.authorized <= OutputChunkTokens

(* Mutant: the amounts are not compared with the quoted ones.              *)
VerifyNextStateUnquoted(prior, s, r) ==
    /\ s.sequence = prior.sequence + 1
    /\ s.input = prior.input
    /\ WithinChunk(prior, s.authorized)
    /\ VerifyReceipt(prior, r)
    /\ s.receipt = r

(* verify_state with a previous state and the receipt that links them      *)
VerifyNextState(prior, s, r) ==
    /\ s.sequence = prior.sequence + 1
    /\ s.input = prior.input
    /\ WithinChunk(prior, s.authorized)
    /\ VerifyReceipt(prior, r)
    /\ s.receipt = r
    /\ ExactState(s)

(* Mutant: a later state is not checked at all.                            *)
VerifySettlementUnquoted(s) == VerifyFirstState(s) \/ s.sequence # 0

(* Settlement::verify: a first state in full, a later one by its amounts   *)
(* (verify_close_state), since the receipt chain is not on chain.          *)
VerifySettlement(s) ==
    \/ VerifyFirstState(s)
    \/ s.sequence # 0 /\ ExactState(s)

-----------------------------------------------------------------------------
Init ==
    /\ customer \in {"library", "foreign"}
    /\ states = {} /\ receipts = {}
    /\ held = None /\ accepted = None /\ delivered = 0
    /\ closes = {} /\ height = 0 /\ payout = None

Sign(s) ==
    /\ states' = states \cup {s}
    /\ held' = s
    /\ UNCHANGED <<receipts, accepted, delivered, closes, height, payout>>

(* initial_state and SignedPaymentState::sign *)
InitialState(input, output) ==
    /\ held = None
    /\ output \in 1..OutputChunkTokens
    /\ StateForOk(input, output)
    /\ Sign(StateFor(0, input, output, None))

(* next_state verifies `previous` as a first state, whatever its sequence. *)
NextStateOk(previous, r, output) ==
    /\ VerifyFirstState(previous)
    /\ VerifyReceipt(previous, r)
    /\ WithinChunk(previous, output)
    /\ StateForOk(previous.input, output)

(* Mutant: a state pays for its own chunk only.                            *)
NextStateNotCumulative(r, output) ==
    /\ held # None
    /\ NextStateOk(held, r, output)
    /\ Sign(StateFor(held.sequence + 1, held.input, output - held.authorized, r))

NextState(r, output) ==
    /\ held # None
    /\ NextStateOk(held, r, output)
    /\ Sign(StateFor(held.sequence + 1, held.input, output, r))

(* A customer program other than this library signs any state: amounts     *)
(* that balance or do not, any sequence, any receipt link.                 *)
ForeignState(sequence, input, output, payment, refund) ==
    /\ Cardinality(states) < MaxSigned
    /\ \E r \in receipts \cup {None} :
          Sign([sequence |-> sequence, input |-> input, authorized |-> output,
                payment |-> payment, refund |-> refund, fee |-> CloseFeeBurn,
                receipt |-> r])

(* The provider verifies a state it received and adopts it.                *)
AcceptState(s) ==
    /\ \/ accepted = None /\ VerifyFirstState(s)
       \/ /\ accepted # None
          /\ \E r \in receipts : VerifyNextState(accepted, s, r)
    /\ accepted' = s
    /\ UNCHANGED <<states, receipts, held, delivered, closes, height, payout>>

(* The provider streams one more authorized token.                         *)
DeliverToken ==
    /\ accepted # None /\ delivered < accepted.authorized
    /\ delivered' = delivered + 1
    /\ UNCHANGED <<states, receipts, held, accepted, closes, height, payout>>

(* SignedInferenceReceipt::sign over what has been delivered so far        *)
SignReceipt ==
    /\ accepted # None
    /\ receipts' = receipts \cup
          {[sequence |-> accepted.sequence, input |-> accepted.input,
            delivered |-> delivered]}
    /\ UNCHANGED <<states, held, accepted, delivered, closes, height, payout>>

-----------------------------------------------------------------------------
(* channel_outputs fixes the outputs' spendable_height to the height of    *)
(* the block that includes the close, so a close is built for one height.  *)
CloseValid(tx, h) ==
    /\ payout = None
    /\ tx.height = h
    /\ \/ tx.kind = "settlement" /\ VerifySettlement(tx.state)
       \/ tx.kind = "refund" /\ h >= RefundHeight

(* Settlement::close by the provider over its newest accepted state, or    *)
(* over any other state the customer has signed, and admission to a pool.  *)
(* A node's pool admits one close of the channel, different nodes' pools   *)
(* may hold different ones.                                                *)
SubmitSettlement(s) ==
    LET tx == [kind |-> "settlement", state |-> s, height |-> height + 1] IN
    /\ height < MaxHeight /\ tx \notin closes
    /\ CloseValid(tx, height + 1)
    /\ closes' = closes \cup {tx}
    /\ UNCHANGED <<states, receipts, held, accepted, delivered, height, payout>>

(* ChannelTerms::refund, open to the customer from refund_height on.       *)
SubmitRefund ==
    LET tx == [kind |-> "refund", state |-> None, height |-> height + 1] IN
    /\ height < MaxHeight /\ tx \notin closes
    /\ CloseValid(tx, height + 1)
    /\ closes' = closes \cup {tx}
    /\ UNCHANGED <<states, receipts, held, accepted, delivered, height, payout>>

(* What apply_channel_transaction pays out of the channel output.          *)
PaidBy(tx) ==
    IF tx.kind = "settlement"
    THEN [provider |-> tx.state.payment, customer |-> tx.state.refund,
          burned |-> tx.state.fee]
    ELSE [provider |-> 0, customer |-> Deposit - CloseFeeBurn,
          burned |-> CloseFeeBurn]

(* The next block contains one of the closes or none; every other one is   *)
(* invalid after it, and the pool that held it drops it                    *)
(* (revalidate_mempool).                                                   *)
MineBlock ==
    /\ height < MaxHeight
    /\ height' = height + 1
    /\ closes' = {}
    /\ \/ \E tx \in closes : CloseValid(tx, height + 1) /\ payout' = PaidBy(tx)
       \/ UNCHANGED payout
    /\ UNCHANGED <<states, receipts, held, accepted, delivered>>

-----------------------------------------------------------------------------
LibraryCustomer ==
    /\ customer = "library"
    /\ \/ \E i \in 0..MaxInputTokens, o \in 0..MaxOutputTokens : InitialState(i, o)
       \/ \E r \in receipts, o \in 0..MaxOutputTokens : NextState(r, o)

(* The provider and the chain may face a customer that follows no rules.   *)
ForeignCustomer ==
    /\ customer = "foreign"
    /\ \E q \in 0..MaxSequence, i \in 0..MaxInputTokens, o \in 0..MaxOutputTokens,
          p \in 0..Deposit, c \in 0..Deposit : ForeignState(q, i, o, p, c)

Provider ==
    \/ \E s \in states : AcceptState(s)
    \/ DeliverToken
    \/ SignReceipt

Chain ==
    \/ \E s \in states : SubmitSettlement(s)
    \/ SubmitRefund
    \/ MineBlock

Next ==
    /\ LibraryCustomer \/ ForeignCustomer \/ Provider \/ Chain
    /\ UNCHANGED customer

Spec == Init /\ [][Next]_vars

(* A session without a wasted step: the customer authorizes more output    *)
(* whenever the library lets it, and nobody closes the channel.            *)
Authorizes ==
    \/ \E i \in 0..MaxInputTokens, o \in 0..MaxOutputTokens : InitialState(i, o)
    \/ /\ held # None
       /\ \E r \in receipts, o \in 0..MaxOutputTokens :
             o > held.authorized /\ NextState(r, o)

SessionSpec ==
    /\ Init /\ customer = "library"
    /\ [][(Authorizes \/ Provider) /\ UNCHANGED customer]_vars
    /\ WF_vars(Authorizes /\ UNCHANGED customer)
    /\ WF_vars(Provider /\ UNCHANGED customer)

-----------------------------------------------------------------------------
Closes ==
    [kind : {"settlement"}, state : PaymentStates, height : Nat]
        \cup [kind : {"refund"}, state : {None}, height : Nat]

Payouts == [provider : 0..Deposit, customer : 0..Deposit, burned : 0..Deposit]

(* Every signed state, receipt, close and payout is within the terms.      *)
TypeOK ==
    /\ customer \in {"library", "foreign"}
    /\ states \subseteq PaymentStates /\ receipts \subseteq Receipts
    /\ held \in PaymentStates \cup {None}
    /\ accepted \in PaymentStates \cup {None}
    /\ delivered \in 0..MaxOutputTokens
    /\ closes \subseteq Closes /\ height \in 0..MaxHeight
    /\ payout \in Payouts \cup {None}

(* The channel output is fully accounted for by whatever close is mined,   *)
(* for any signed state and for a refund: apply_channel_transaction's      *)
(* "output_total + fee = previous.value" never has to reject a close that  *)
(* Settlement::verify let through.                                         *)
PayoutBalanced ==
    payout # None => payout.provider + payout.customer + payout.burned = Deposit

(* However late or old the state is that closes the channel, it never pays *)
(* the provider more than a library customer's newest authorization.       *)
NeverOverpaid ==
    customer = "library" /\ payout # None /\ payout.provider > 0 =>
        held # None /\ payout.provider <= held.payment

(* The library's states are cumulative: one with a higher sequence never   *)
(* pays the provider less, so closing with an old one cannot hurt the      *)
(* customer.                                                               *)
OldStatesPayLess ==
    customer = "library" => \A s, t \in states : s.sequence < t.sequence => s.payment <= t.payment

(* A customer that uses the library loses no more than it authorized,      *)
(* whichever of its states is mined.                                       *)
CustomerProtected == NeverOverpaid /\ OldStatesPayLess

(* What a provider has verified is enough to be paid for all it streamed:  *)
(* its newest state closes the channel on chain and covers every delivered *)
(* token, whatever else the customer has signed.                           *)
ProviderCovered ==
    accepted # None =>
        /\ VerifySettlement(accepted)
        /\ accepted.payment >= QuotedPayment(accepted.input, delivered)

(* Adopting a newer state never lowers what the provider can claim.        *)
AcceptedOnlyGrows ==
    [][accepted # None => accepted'.payment >= accepted.payment]_accepted

LatestDelivered ==
    IF receipts = {} THEN 0
    ELSE CHOOSE d \in {r.delivered : r \in receipts} :
            \A r \in receipts : r.delivered <= d

(* A library customer authorizes at most one chunk beyond the provider's   *)
(* latest signed receipt.                                                  *)
OneChunkAhead ==
    customer = "library" /\ held # None => held.authorized - LatestDelivered <= OutputChunkTokens

(* A session in which both parties keep going reaches the output limit.    *)
SessionCompletes ==
    <>(held # None /\ held.authorized = MaxOutputTokens)
=============================================================================
