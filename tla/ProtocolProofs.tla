---------------------------- MODULE ProtocolProofs ----------------------------
(***************************************************************************)
(* Proofs about what parties do with one another: PaymentChannel, PeerSync, *)
(* PeerRequests and FullMiner.                                             *)
(*                                                                         *)
(* PaymentChannel, for all terms, against a customer that uses the library *)
(* and against one that signs anything at all: ProviderCovered is not      *)
(* inductive, that the accepted state is worth the delivered tokens needs  *)
(* that delivery never passes the authorization, and that a rounded charge *)
(* grows with the tokens.                                                  *)
(*                                                                         *)
(* PeerSync, for every block tree, network and bound: that no session step *)
(* is refused needs that every inventory under way is a stretch of a chain *)
(* (each item extends the one before) whose first item extends a block the *)
(* receiver has, which stays so because indexes only grow; and that an     *)
(* index is closed under parents, so that it holds the whole chain to      *)
(* whatever it holds.                                                      *)
(*                                                                         *)
(* PeerRequests, for any set of transactions and any responder, and        *)
(* FullMiner, for any peers and chains: what a pull has listed and known,  *)
(* and where the main thread is while which services run.                  *)
(***************************************************************************)
EXTENDS PaymentChannel, PeerSync, PeerRequests, FullMiner, FiniteSums, FunctionTheorems,
        SequenceTheorems, TLAPS

-----------------------------------------------------------------------------
(***************************************************************************)
(* PaymentChannel.                                                         *)
(***************************************************************************)

(* Delivery stays within the accepted authorization, and the accepted      *)
(* state closes the channel.                                               *)
AcceptedCloses ==
    /\ accepted = None => delivered = 0
    /\ accepted # None => VerifySettlement(accepted) /\ delivered <= accepted.authorized

ChannelInv == TypeOK /\ AcceptedCloses /\ PayoutBalanced

-----------------------------------------------------------------------------
(* rounded_token_charge is a natural number and monotonic in the tokens.   *)
LEMMA ChargeMonotonic ==
  ASSUME NEW m \in Nat, NEW n \in Nat, m <= n, NEW price \in Nat
  PROVE  /\ RoundedTokenCharge(m, price) \in Nat
         /\ RoundedTokenCharge(m, price) <= RoundedTokenCharge(n, price)
<1>1. PICK k \in Nat : n = m + k
  <2>1. n - m \in Nat /\ n = m + (n - m)
    OBVIOUS
  <2> QED
    BY <2>1
<1>2. m * price \in Nat /\ k * price \in Nat /\ n * price = m * price + k * price
  BY <1>1
<1>3. \A x, y \in Nat : x <= y => (x + 999) \div 1000 <= (y + 999) \div 1000
  OBVIOUS
<1>4. \A x \in Nat : (x + 999) \div 1000 \in Nat
  OBVIOUS
<1> QED
  BY <1>2, <1>3, <1>4 DEF RoundedTokenCharge

(* quoted_payment is monotonic in the output tokens.                       *)
LEMMA QuoteMonotonic ==
  ASSUME NEW i \in Nat, NEW m \in Nat, NEW n \in Nat, m <= n
  PROVE  /\ QuotedPayment(i, m) \in Nat
         /\ QuotedPayment(i, m) <= QuotedPayment(i, n)
<1>1. RoundedTokenCharge(i, InputPricePer1000) \in Nat
  BY TermsAssumption, ChargeMonotonic
<1>2. /\ RoundedTokenCharge(m, OutputPricePer1000) \in Nat
      /\ RoundedTokenCharge(n, OutputPricePer1000) \in Nat
      /\ RoundedTokenCharge(m, OutputPricePer1000)
            <= RoundedTokenCharge(n, OutputPricePer1000)
  BY TermsAssumption, ChargeMonotonic
<1> QED
  BY <1>1, <1>2, TermsAssumption DEF QuotedPayment

(* An exact state splits the deposit.                                      *)
LEMMA ExactSplits ==
  ASSUME NEW s \in PaymentStates, ExactState(s)
  PROVE  /\ s.payment = QuotedPayment(s.input, s.authorized)
         /\ s.payment + s.refund + s.fee = Deposit
<1>1. s.input \in Nat /\ s.authorized \in Nat
  BY TermsAssumption DEF PaymentStates
<1>2. QuotedPayment(s.input, s.authorized) \in Nat
  BY <1>1, QuoteMonotonic
<1>3. /\ s.payment = QuotedPayment(s.input, s.authorized)
      /\ s.refund = Deposit - QuotedPayment(s.input, s.authorized) - CloseFeeBurn
      /\ s.fee = CloseFeeBurn
  BY DEF ExactState, StateFor
<1> QED
  BY <1>2, <1>3, TermsAssumption

(* Whatever closes the channel pays out the deposit.                       *)
LEMMA CloseBalanced ==
  ASSUME NEW tx \in Closes, NEW h, CloseValid(tx, h)
  PROVE  /\ PaidBy(tx) \in Payouts
         /\ PaidBy(tx).provider + PaidBy(tx).customer + PaidBy(tx).burned = Deposit
<1>1. CASE tx.kind = "settlement"
  <2>1. tx.state \in PaymentStates /\ ExactState(tx.state)
    <3>1. tx.state \in PaymentStates
      BY <1>1 DEF Closes
    <3>2. VerifySettlement(tx.state)
      BY <1>1 DEF CloseValid
    <3> QED
      BY <3>1, <3>2 DEF VerifySettlement, VerifyFirstState
  <2>2. tx.state.payment + tx.state.refund + tx.state.fee = Deposit
    BY <2>1, ExactSplits
  <2>3. /\ tx.state.payment \in 0..Deposit /\ tx.state.refund \in 0..Deposit
        /\ tx.state.fee \in 0..Deposit
    BY <2>1 DEF PaymentStates
  <2> QED
    BY <1>1, <2>2, <2>3 DEF PaidBy, Payouts
<1>2. CASE tx.kind # "settlement"
  <2>1. Deposit - CloseFeeBurn \in 0..Deposit /\ CloseFeeBurn \in 0..Deposit
    BY TermsAssumption
  <2> QED
    BY <1>2, <2>1, TermsAssumption DEF PaidBy, Payouts
<1> QED
  BY <1>1, <1>2

-----------------------------------------------------------------------------
(* The initial state satisfies the invariant.                              *)
LEMMA ChannelInitInv == Init => ChannelInv
  BY TermsAssumption DEF Init, ChannelInv, TypeOK, AcceptedCloses, PayoutBalanced

(* The customer signs a state, whatever it says.                           *)
LEMMA SignInv ==
  ASSUME ChannelInv, NEW s \in PaymentStates, Sign(s), UNCHANGED customer
  PROVE  ChannelInv'
  BY DEF Sign, ChannelInv, TypeOK, AcceptedCloses, PayoutBalanced

(* The provider adopts a verified state: what it delivered stays covered.  *)
LEMMA AcceptInv ==
  ASSUME ChannelInv, NEW s \in states, AcceptState(s), UNCHANGED customer
  PROVE  ChannelInv' /\ (accepted # None => accepted'.payment >= accepted.payment)
<1>1. s \in PaymentStates /\ accepted' = s
  BY DEF ChannelInv, TypeOK, AcceptState
<1>2. UNCHANGED <<states, receipts, held, delivered, closes, height, payout>>
  BY DEF AcceptState
<1>3. TypeOK' /\ PayoutBalanced'
  BY <1>1, <1>2 DEF ChannelInv, TypeOK, PayoutBalanced
<1>4. CASE accepted = None
  <2>1. VerifyFirstState(s)
    BY <1>4 DEF AcceptState
  <2>2. delivered <= s.authorized
    BY <2>1, <1>1, <1>4, TermsAssumption DEF VerifyFirstState, ChannelInv, AcceptedCloses
  <2>3. s # None
    BY <1>1, TermsAssumption
  <2> QED
    BY <1>1, <1>2, <1>3, <1>4, <2>1, <2>2, <2>3 DEF ChannelInv, AcceptedCloses, VerifySettlement
<1>5. CASE accepted # None
  <2>1. PICK r \in receipts : VerifyNextState(accepted, s, r)
    BY <1>5 DEF AcceptState
  <2>2. accepted \in PaymentStates /\ VerifySettlement(accepted) /\ delivered <= accepted.authorized
    BY <1>5 DEF ChannelInv, TypeOK, AcceptedCloses
  <2>3. /\ s.sequence = accepted.sequence + 1 /\ s.input = accepted.input
        /\ s.authorized >= accepted.authorized /\ ExactState(s)
    BY <2>1 DEF VerifyNextState, WithinChunk
  <2>4. /\ accepted.sequence \in Nat /\ s.sequence \in Nat /\ s.input \in Nat
        /\ accepted.authorized \in Nat /\ s.authorized \in Nat /\ delivered \in Nat
    BY <1>1, <2>2, TermsAssumption DEF PaymentStates, ChannelInv, TypeOK
  <2>5. VerifySettlement(s) /\ delivered <= s.authorized
    BY <2>2, <2>3, <2>4 DEF VerifySettlement
  <2>6. s.payment >= accepted.payment
    <3>1. ExactState(accepted)
      BY <2>2 DEF VerifySettlement, VerifyFirstState
    <3>2. /\ s.payment = QuotedPayment(s.input, s.authorized)
          /\ accepted.payment = QuotedPayment(s.input, accepted.authorized)
      BY <1>1, <2>2, <2>3, <3>1, ExactSplits
    <3>3. /\ QuotedPayment(s.input, accepted.authorized)
                <= QuotedPayment(s.input, s.authorized)
          /\ QuotedPayment(s.input, accepted.authorized) \in Nat
          /\ QuotedPayment(s.input, s.authorized) \in Nat
      BY <2>3, <2>4, QuoteMonotonic
    <3> QED
      BY <3>2, <3>3
  <2> QED
    BY <1>1, <1>2, <1>3, <2>5, <2>6, TermsAssumption DEF ChannelInv, AcceptedCloses
<1> QED
  BY <1>4, <1>5

(* The provider streams or signs a receipt.                                *)
LEMMA DeliverInv ==
  ASSUME ChannelInv, DeliverToken \/ SignReceipt, UNCHANGED customer
  PROVE  ChannelInv'
<1>1. /\ accepted # None /\ accepted \in PaymentStates
      /\ UNCHANGED <<states, held, accepted, closes, height, payout>>
  BY DEF DeliverToken, SignReceipt, ChannelInv, TypeOK
<1>2. /\ accepted.authorized \in 0..MaxOutputTokens
      /\ accepted.sequence \in 0..MaxSequence /\ accepted.input \in 0..MaxInputTokens
  BY <1>1 DEF PaymentStates
<1>3. delivered \in 0..MaxOutputTokens /\ delivered <= accepted.authorized
  BY <1>1 DEF ChannelInv, TypeOK, AcceptedCloses
<1>4. delivered' \in 0..MaxOutputTokens /\ delivered' <= accepted.authorized
  BY <1>2, <1>3, TermsAssumption DEF DeliverToken, SignReceipt
<1>5. receipts' \subseteq Receipts
  <2>1. [sequence |-> accepted.sequence, input |-> accepted.input,
         delivered |-> delivered] \in Receipts
    BY <1>2, <1>3 DEF Receipts
  <2> QED
    BY <2>1 DEF DeliverToken, SignReceipt, ChannelInv, TypeOK
<1> QED
  BY <1>1, <1>4, <1>5 DEF ChannelInv, TypeOK, AcceptedCloses, PayoutBalanced

(* Closes are submitted and mined.                                         *)
LEMMA ChainStepInv ==
  ASSUME ChannelInv, Chain, UNCHANGED customer
  PROVE  ChannelInv'
<1>1. height \in Nat /\ closes \subseteq Closes /\ states \subseteq PaymentStates
  BY TermsAssumption DEF ChannelInv, TypeOK
<1>2. ASSUME NEW s \in states, SubmitSettlement(s) PROVE ChannelInv'
  <2>1. [kind |-> "settlement", state |-> s, height |-> height + 1] \in Closes
    BY <1>1 DEF Closes
  <2> QED
    BY <1>2, <2>1 DEF SubmitSettlement, ChannelInv, TypeOK, AcceptedCloses, PayoutBalanced
<1>3. CASE SubmitRefund
  <2>1. [kind |-> "refund", state |-> None, height |-> height + 1] \in Closes
    BY <1>1 DEF Closes
  <2> QED
    BY <1>3, <2>1 DEF SubmitRefund, ChannelInv, TypeOK, AcceptedCloses, PayoutBalanced
<1>4. CASE MineBlock
  <2>1. /\ height' \in 0..MaxHeight /\ closes' = {}
        /\ UNCHANGED <<states, receipts, held, accepted, delivered>>
    BY <1>4, TermsAssumption DEF MineBlock, ChannelInv, TypeOK
  <2>2. payout' \in Payouts \cup {None} /\ PayoutBalanced'
    <3>1. CASE UNCHANGED payout
      BY <3>1 DEF ChannelInv, TypeOK, PayoutBalanced
    <3>2. ASSUME NEW tx \in closes, CloseValid(tx, height + 1), payout' = PaidBy(tx)
          PROVE  payout' \in Payouts \cup {None} /\ PayoutBalanced'
      BY <1>1, <3>2, CloseBalanced DEF PayoutBalanced
    <3> QED
      BY <1>4, <3>1, <3>2 DEF MineBlock
  <2> QED
    BY <2>1, <2>2 DEF ChannelInv, TypeOK, AcceptedCloses
<1> QED
  BY <1>2, <1>3, <1>4 DEF Chain

(* A foreign customer's state is typed, though it may be anything else.    *)
LEMMA ForeignInv ==
  ASSUME ChannelInv, ForeignCustomer, UNCHANGED customer
  PROVE  ChannelInv'
<1>1. PICK q \in 0..MaxSequence, i \in 0..MaxInputTokens, o \in 0..MaxOutputTokens,
           p \in 0..Deposit, c \in 0..Deposit : ForeignState(q, i, o, p, c)
  BY DEF ForeignCustomer
<1>2. PICK r \in receipts \cup {None} :
        Sign([sequence |-> q, input |-> i, authorized |-> o, payment |-> p,
              refund |-> c, fee |-> CloseFeeBurn, receipt |-> r])
  BY <1>1 DEF ForeignState
<1>3. r \in Receipts \cup {None} /\ CloseFeeBurn \in 0..Deposit
  BY TermsAssumption DEF ChannelInv, TypeOK
<1>4. [sequence |-> q, input |-> i, authorized |-> o, payment |-> p,
       refund |-> c, fee |-> CloseFeeBurn, receipt |-> r] \in PaymentStates
  BY <1>3 DEF PaymentStates
<1> QED
  BY <1>2, <1>4, SignInv

(* What the library signs is within the terms.                             *)
LEMMA StateForTyped ==
  ASSUME NEW q \in 0..MaxSequence, NEW i \in 0..MaxInputTokens,
         NEW o \in 0..MaxOutputTokens, NEW r \in Receipts \cup {None},
         StateForOk(i, o)
  PROVE  StateFor(q, i, o, r) \in PaymentStates
<1>1. QuotedPayment(i, o) \in Nat
  BY QuoteMonotonic, TermsAssumption
<1>2. /\ QuotedPayment(i, o) \in 0..Deposit
      /\ Deposit - QuotedPayment(i, o) - CloseFeeBurn \in 0..Deposit
      /\ CloseFeeBurn \in 0..Deposit
  BY <1>1, TermsAssumption DEF StateForOk
<1> QED
  BY <1>2 DEF StateFor, PaymentStates

(* A library customer's first and second state.                            *)
LEMMA LibraryInv ==
  ASSUME ChannelInv, LibraryCustomer, UNCHANGED customer
  PROVE  ChannelInv'
<1>1. ASSUME NEW i \in 0..MaxInputTokens, NEW o \in 0..MaxOutputTokens, InitialState(i, o)
      PROVE  ChannelInv'
  <2>1. StateForOk(i, o) /\ Sign(StateFor(0, i, o, None)) /\ 0 \in 0..MaxSequence
    BY <1>1, TermsAssumption DEF InitialState
  <2>2. StateFor(0, i, o, None) \in PaymentStates
    BY <2>1, StateForTyped
  <2> QED
    BY <2>1, <2>2, SignInv
<1>2. ASSUME NEW r \in receipts, NEW o \in 0..MaxOutputTokens, NextState(r, o)
      PROVE  ChannelInv'
  <2>1. /\ held \in PaymentStates /\ r \in Receipts
        /\ held.sequence = 0 /\ StateForOk(held.input, o)
        /\ Sign(StateFor(held.sequence + 1, held.input, o, r))
    BY <1>2 DEF NextState, NextStateOk, VerifyFirstState, ChannelInv, TypeOK
  <2>2. held.input \in 0..MaxInputTokens /\ held.sequence + 1 \in 0..MaxSequence
    BY <2>1, TermsAssumption DEF PaymentStates
  <2>3. StateFor(held.sequence + 1, held.input, o, r) \in PaymentStates
    BY <2>1, <2>2, StateForTyped
  <2> QED
    BY <2>1, <2>3, SignInv
<1> QED
  BY <1>1, <1>2 DEF LibraryCustomer

(* Every step preserves the invariant.                                     *)
LEMMA ChannelNextInv == ChannelInv /\ [Next]_vars => ChannelInv'
<1> SUFFICES ASSUME ChannelInv, [Next]_vars PROVE ChannelInv'
  OBVIOUS
<1>1. CASE LibraryCustomer /\ UNCHANGED customer
  BY <1>1, LibraryInv
<1>2. CASE ForeignCustomer /\ UNCHANGED customer
  BY <1>2, ForeignInv
<1>3. CASE Provider /\ UNCHANGED customer
  BY <1>3, AcceptInv, DeliverInv DEF Provider
<1>4. CASE Chain /\ UNCHANGED customer
  BY <1>4, ChainStepInv
<1>5. CASE UNCHANGED vars
  BY <1>5 DEF vars, ChannelInv, TypeOK, AcceptedCloses, PayoutBalanced
<1> QED
  BY <1>1, <1>2, <1>3, <1>4, <1>5 DEF Next

(* The inductive invariant holds whatever the customer signs.              *)
THEOREM ChannelInvariant == Spec => []ChannelInv
  BY ChannelInitInv, ChannelNextInv, PTL DEF Spec

(* Whatever close apply_channel_transaction admits, and whatever the       *)
(* customer signed, the channel output is paid out to the last unit.       *)
THEOREM Balanced == Spec => []PayoutBalanced
<1>1. ChannelInv => PayoutBalanced
  BY DEF ChannelInv
<1> QED
  BY <1>1, ChannelInvariant, PTL

(* A provider that verifies before it streams can always close for all it  *)
(* has delivered.                                                          *)
THEOREM Covered == Spec => []ProviderCovered
<1>1. ChannelInv => ProviderCovered
  <2> SUFFICES ASSUME ChannelInv, accepted # None
               PROVE  /\ VerifySettlement(accepted)
                      /\ accepted.payment >= QuotedPayment(accepted.input, delivered)
    BY DEF ProviderCovered
  <2>1. /\ accepted \in PaymentStates /\ VerifySettlement(accepted)
        /\ delivered <= accepted.authorized
    BY DEF ChannelInv, TypeOK, AcceptedCloses
  <2>2. accepted.payment = QuotedPayment(accepted.input, accepted.authorized)
    BY <2>1, ExactSplits DEF VerifySettlement, VerifyFirstState
  <2>3. accepted.input \in Nat /\ accepted.authorized \in Nat /\ delivered \in Nat
    BY <2>1, TermsAssumption DEF PaymentStates, ChannelInv, TypeOK
  <2>4. /\ QuotedPayment(accepted.input, delivered)
              <= QuotedPayment(accepted.input, accepted.authorized)
        /\ QuotedPayment(accepted.input, delivered) \in Nat
    BY <2>1, <2>3, QuoteMonotonic
  <2>5. QuotedPayment(accepted.input, accepted.authorized) \in Nat
    BY <2>3, QuoteMonotonic
  <2> QED
    BY <2>1, <2>2, <2>4, <2>5
<1> QED
  BY <1>1, ChannelInvariant, PTL

(* Action property: a provider never trades a state for a cheaper one.     *)
THEOREM AcceptedGrows == Spec => AcceptedOnlyGrows
<1> DEFINE Grows == accepted # None => accepted'.payment >= accepted.payment
<1>1. ChannelInv /\ [Next]_vars => [Grows]_accepted
  <2> SUFFICES ASSUME ChannelInv, Next, accepted' # accepted
               PROVE  Grows
    BY DEF vars
  <2>1. ~LibraryCustomer /\ ~ForeignCustomer
    BY DEF LibraryCustomer, InitialState, NextState, ForeignCustomer, ForeignState, Sign
  <2>2. ~Chain
    BY DEF Chain, SubmitSettlement, SubmitRefund, MineBlock
  <2>3. ~DeliverToken /\ ~SignReceipt
    BY DEF DeliverToken, SignReceipt
  <2>4. PICK s \in states : AcceptState(s) /\ UNCHANGED customer
    BY <2>1, <2>2, <2>3 DEF Next, Provider
  <2> QED
    BY <2>4, AcceptInv
<1> QED
  BY <1>1, ChannelInvariant, PTL DEF Spec, AcceptedOnlyGrows

-----------------------------------------------------------------------------
(* What protects a library customer: only states it signed can close the   *)
(* channel, and none of them is newer or dearer than the one it holds.     *)
ClosesAreSigned ==
    \A tx \in closes : tx.kind = "settlement" => tx.state \in states

HeldIsNewest ==
    customer = "library" =>
        /\ held = None => states = {}
        /\ \A s \in states :
              s = held \/ (s.sequence < held.sequence /\ s.payment <= held.payment)

CustomerInv == ClosesAreSigned /\ HeldIsNewest /\ CustomerProtected

(* A library customer signs a state that is newer and not cheaper.         *)
LEMMA SignNewer ==
  ASSUME ChannelInv, CustomerInv, NEW s \in PaymentStates, Sign(s), UNCHANGED customer,
         held # None => held.sequence < s.sequence /\ held.payment <= s.payment
  PROVE  CustomerInv'
<1>1. states' = states \cup {s} /\ held' = s /\ closes' = closes /\ payout' = payout
      /\ customer' = customer
  BY DEF Sign
<1>2. s # None /\ s.sequence \in Nat /\ s.payment \in Nat
  BY TermsAssumption DEF PaymentStates
<1>3. \A t \in states : t \in PaymentStates /\ t.sequence \in Nat /\ t.payment \in Nat
  <2>1. states \subseteq PaymentStates
    BY DEF ChannelInv, TypeOK
  <2> QED
    BY <2>1, TermsAssumption DEF PaymentStates
<1>4. held # None => held.sequence \in Nat /\ held.payment \in Nat
  <2>1. held # None => held \in PaymentStates
    BY DEF ChannelInv, TypeOK
  <2> QED
    BY <2>1, TermsAssumption DEF PaymentStates
<1>5. ClosesAreSigned'
  BY <1>1 DEF CustomerInv, ClosesAreSigned
<1>6. ASSUME customer = "library", NEW t \in states
      PROVE  t.sequence < s.sequence /\ t.payment <= s.payment
  <2>1. held # None /\ (t = held \/ (t.sequence < held.sequence /\ t.payment <= held.payment))
    BY <1>6 DEF CustomerInv, HeldIsNewest
  <2> QED
    BY <1>2, <1>3, <1>4, <2>1
<1>7. HeldIsNewest'
  BY <1>1, <1>2, <1>6 DEF HeldIsNewest
<1>8. NeverOverpaid'
  <2> SUFFICES ASSUME customer = "library", payout # None, payout.provider > 0
               PROVE  payout.provider <= s.payment
    BY <1>1, <1>2 DEF NeverOverpaid
  <2>1. held # None /\ payout.provider <= held.payment
    BY DEF CustomerInv, CustomerProtected, NeverOverpaid
  <2>2. payout.provider \in Nat
    <3>1. payout \in Payouts
      BY DEF ChannelInv, TypeOK
    <3> QED
      BY <3>1, TermsAssumption DEF Payouts
  <2> QED
    BY <1>2, <1>4, <2>1, <2>2
<1>9. OldStatesPayLess'
  <2> SUFFICES ASSUME customer = "library", NEW a \in states \cup {s}, NEW b \in states \cup {s},
                      a.sequence < b.sequence
               PROVE  a.payment <= b.payment
    BY <1>1 DEF OldStatesPayLess
  <2>1. CASE a \in states /\ b \in states
    BY <2>1 DEF CustomerInv, CustomerProtected, OldStatesPayLess
  <2>2. CASE a \in states /\ b = s
    BY <1>6, <2>2
  <2>3. CASE a = s /\ b \in states
    <3>1. b.sequence < s.sequence
      BY <1>6, <2>3
    <3> QED
      BY <1>2, <1>3, <2>3, <3>1
  <2>4. CASE a = s /\ b = s
    BY <1>2, <2>4
  <2> QED
    BY <2>1, <2>2, <2>3, <2>4
<1> QED
  BY <1>5, <1>7, <1>8, <1>9 DEF CustomerInv, CustomerProtected

(* initial_state and next_state: the second state authorizes no less.      *)
LEMMA LibraryNewer ==
  ASSUME ChannelInv, CustomerInv, LibraryCustomer, UNCHANGED customer
  PROVE  CustomerInv'
<1>1. ASSUME NEW i \in 0..MaxInputTokens, NEW o \in 0..MaxOutputTokens, InitialState(i, o)
      PROVE  CustomerInv'
  <2>1. /\ StateForOk(i, o) /\ Sign(StateFor(0, i, o, None)) /\ 0 \in 0..MaxSequence
        /\ held = None
    BY <1>1, TermsAssumption DEF InitialState
  <2>2. StateFor(0, i, o, None) \in PaymentStates
    BY <2>1, StateForTyped
  <2> QED
    BY <2>1, <2>2, SignNewer
<1>2. ASSUME NEW r \in receipts, NEW o \in 0..MaxOutputTokens, NextState(r, o)
      PROVE  CustomerInv'
  <2> DEFINE s == StateFor(held.sequence + 1, held.input, o, r)
  <2>1. /\ held \in PaymentStates /\ r \in Receipts /\ held.sequence = 0
        /\ StateForOk(held.input, o) /\ ExactState(held) /\ o >= held.authorized
        /\ Sign(s)
    BY <1>2 DEF NextState, NextStateOk, VerifyFirstState, WithinChunk, ChannelInv, TypeOK
  <2>2. /\ held.input \in 0..MaxInputTokens /\ held.sequence + 1 \in 0..MaxSequence
        /\ held.input \in Nat /\ held.authorized \in Nat /\ o \in Nat
    BY <2>1, TermsAssumption DEF PaymentStates
  <2>3. s \in PaymentStates
    BY <2>1, <2>2, StateForTyped
  <2>4. s.sequence = held.sequence + 1 /\ s.payment = QuotedPayment(held.input, o)
    BY DEF StateFor
  <2>5. held.payment = QuotedPayment(held.input, held.authorized)
    BY <2>1, ExactSplits
  <2>6. QuotedPayment(held.input, held.authorized) <= QuotedPayment(held.input, o)
    BY <2>1, <2>2, QuoteMonotonic
  <2>7. held.sequence < s.sequence /\ held.payment <= s.payment
    BY <2>1, <2>4, <2>5, <2>6
  <2> HIDE DEF s
  <2> QED
    BY <2>1, <2>3, <2>7, SignNewer
<1> QED
  BY <1>1, <1>2 DEF LibraryCustomer

(* A close pays the provider at most what the customer's newest state      *)
(* says: a settlement is one of its states, a refund pays nothing.         *)
LEMMA MinePays ==
  ASSUME ChannelInv, CustomerInv, MineBlock, UNCHANGED customer
  PROVE  CustomerInv'
<1>1. UNCHANGED <<states, held>> /\ closes' = {}
  BY DEF MineBlock
<1>2. NeverOverpaid'
  <2>1. CASE UNCHANGED payout
    BY <1>1, <2>1 DEF CustomerInv, CustomerProtected, NeverOverpaid
  <2>2. ASSUME NEW tx \in closes, payout' = PaidBy(tx), customer = "library",
               payout'.provider > 0
        PROVE  held # None /\ payout'.provider <= held.payment
    <3>1. CASE tx.kind = "settlement"
      <4>1. tx.state \in states /\ payout'.provider = tx.state.payment
        BY <2>2, <3>1 DEF CustomerInv, ClosesAreSigned, PaidBy
      <4>2. held # None /\ (tx.state = held \/ tx.state.payment <= held.payment)
        BY <2>2, <4>1 DEF CustomerInv, HeldIsNewest
      <4>3. tx.state.payment \in Nat
        <5>1. tx.state \in PaymentStates
          BY <4>1 DEF ChannelInv, TypeOK
        <5> QED
          BY <5>1, TermsAssumption DEF PaymentStates
      <4> QED
        BY <4>1, <4>2, <4>3
    <3>2. CASE tx.kind # "settlement"
      BY <2>2, <3>2 DEF PaidBy
    <3> QED
      BY <3>1, <3>2
  <2>3. customer' = customer /\ held' = held
    BY <1>1
  <2> QED
    BY <2>1, <2>2, <2>3 DEF MineBlock, NeverOverpaid
<1> QED
  BY <1>1, <1>2
     DEF CustomerInv, ClosesAreSigned, HeldIsNewest, CustomerProtected, OldStatesPayLess

(* Every step keeps a library customer protected.                          *)
LEMMA CustomerStep ==
  ASSUME ChannelInv, CustomerInv, [Next]_vars
  PROVE  CustomerInv'
<1>1. ASSUME UNCHANGED <<states, held, closes, payout, customer>>
      PROVE  CustomerInv'
  BY <1>1 DEF CustomerInv, ClosesAreSigned, HeldIsNewest, CustomerProtected, NeverOverpaid,
              OldStatesPayLess
<1>2. CASE LibraryCustomer /\ UNCHANGED customer
  BY <1>2, LibraryNewer
<1>3. CASE ForeignCustomer /\ UNCHANGED customer
  <2>1. customer = "foreign" /\ customer' = "foreign"
    BY <1>3 DEF ForeignCustomer
  <2>2. states \subseteq states' /\ closes' = closes
    BY <1>3 DEF ForeignCustomer, ForeignState, Sign
  <2> QED
    BY <2>1, <2>2 DEF CustomerInv, ClosesAreSigned, HeldIsNewest, CustomerProtected,
                      NeverOverpaid, OldStatesPayLess
<1>4. CASE Provider /\ UNCHANGED customer
  BY <1>1, <1>4 DEF Provider, AcceptState, DeliverToken, SignReceipt
<1>5. ASSUME NEW s \in states, SubmitSettlement(s), UNCHANGED customer
      PROVE  CustomerInv'
  BY <1>5 DEF SubmitSettlement, CustomerInv, ClosesAreSigned, HeldIsNewest,
              CustomerProtected, NeverOverpaid, OldStatesPayLess
<1>6. CASE SubmitRefund /\ UNCHANGED customer
  BY <1>6 DEF SubmitRefund, CustomerInv, ClosesAreSigned, HeldIsNewest,
              CustomerProtected, NeverOverpaid, OldStatesPayLess
<1>7. CASE MineBlock /\ UNCHANGED customer
  BY <1>7, MinePays
<1>8. CASE UNCHANGED vars
  BY <1>1, <1>8 DEF vars
<1> QED
  BY <1>2, <1>3, <1>4, <1>5, <1>6, <1>7, <1>8 DEF Next, Chain

(* A customer that uses the library loses no more than its newest state    *)
(* authorizes, whichever of its states the provider or anyone else mines,  *)
(* and an older state never pays more than a newer one.                    *)
THEOREM CustomerIsProtected == Spec => []CustomerProtected
<1>1. Init => ChannelInv /\ CustomerInv
  <2>1. Init => CustomerInv
    BY DEF Init, CustomerInv, ClosesAreSigned, HeldIsNewest, CustomerProtected,
           NeverOverpaid, OldStatesPayLess
  <2> QED
    BY <2>1, ChannelInitInv
<1>2. ChannelInv /\ CustomerInv /\ [Next]_vars => (ChannelInv /\ CustomerInv)'
  BY ChannelNextInv, CustomerStep
<1>3. CustomerInv => CustomerProtected
  BY DEF CustomerInv
<1> QED
  BY <1>1, <1>2, <1>3, PTL DEF Spec

-----------------------------------------------------------------------------
(***************************************************************************)
(* PeerSync.                                                               *)
(***************************************************************************)
(* Each item of an inventory extends the one before.                       *)
Linked(inv) == \A i \in 2..Len(inv) : Parent[inv[i]] = inv[i - 1]

Inventories == {inv \in Seq(Blocks) : Len(inv) <= MaxBlocksPerSync /\ Linked(inv)}

(* What node n of k has indexed, with genesis.                             *)
Held(k, n) == k[n] \cup {Genesis}

(* An index closed under parents with a heaviest block as tip.             *)
NodeOk(k, c, n) ==
    /\ k[n] \subseteq Blocks
    /\ c[n] = ChainTo(Tip(c[n])) /\ Tip(c[n]) \in Held(k, n)
    /\ \A b \in k[n] : Parent[b] \in Held(k, n) /\ TotalWork[b] <= TotalWork[Tip(c[n])]

(* A pull's next item extends the previous one, or a block it has; a       *)
(* relay's next item extends a block the peer has, or the peer has it.     *)
PullOk(s, k, n) ==
    /\ s \in [phase : {"pull", "fetched"}, peer : Nodes,
              previous : Held(k, n) \cup {NoPrevious}, inventory : Inventories]
    /\ s.inventory # <<>> =>
          IF s.previous = NoPrevious THEN Parent[Head(s.inventory)] \in Held(k, n)
                                     ELSE Parent[Head(s.inventory)] = s.previous
    /\ s.phase = "fetched" => s.inventory # <<>>

RelayOk(s, k) ==
    /\ s \in [phase : {"relay"}, peer : Nodes, inventory : Inventories]
    /\ s.inventory # <<>> => Parent[Head(s.inventory)] \in Held(k, s.peer)

SessionOk(s, k, n) ==
    \/ s = Idle
    \/ /\ s \in [phase : {"headers"}, peer : Nodes, stop : Tree, locator : Seq(Held(k, n))]
       /\ Len(s.locator) <= MaxBlocksPerSync /\ Genesis \in BlocksOf(s.locator)
    \/ PullOk(s, k, n)
    \/ s \in [phase : {"pulled"}, peer : Nodes]
    \/ /\ s \in [phase : {"offer"}, peer : Nodes, peer_tip : Tree]
       /\ s.peer_tip \in Held(k, s.peer)
    \/ RelayOk(s, k)

SyncInv ==
    /\ known \in [Nodes -> SUBSET Blocks] /\ chain = [n \in Nodes |-> chain[n]]
    /\ session = [n \in Nodes |-> session[n]]
    /\ turn \in [Nodes -> SUBSET Nodes] /\ drops \in 0..MaxDrops
    /\ \A n \in Nodes : NodeOk(known, chain, n) /\ SessionOk(session[n], known, n)

-----------------------------------------------------------------------------
(* The chain to a block starts at genesis, ends with the block, and each   *)
(* block on it extends the one before.                                     *)
ChainShape(b) ==
    /\ ChainTo(b) \in Seq(Tree) /\ Len(ChainTo(b)) = Len(PathTo[b]) + 1
    /\ ChainTo(b)[1] = Genesis /\ Tip(ChainTo(b)) = b
    /\ \A i \in 2..Len(ChainTo(b)) : /\ ChainTo(b)[i] \in Blocks
                                     /\ Parent[ChainTo(b)[i]] = ChainTo(b)[i - 1]

LEMMA GenesisShape == ChainShape(Genesis)
<1>1. ChainTo(Genesis) = <<Genesis>>
  BY PathAssumption DEF ChainTo
<1> QED
  BY <1>1, PathAssumption DEF ChainShape, Tip, Tree

LEMMA ShapeGrows ==
  ASSUME NEW b \in Blocks, ChainShape(Parent[b])
  PROVE  ChainShape(b) /\ Len(PathTo[b]) = Len(PathTo[Parent[b]]) + 1
<1> DEFINE c == ChainTo(Parent[b])
<1>1. Parent[b] \in Tree /\ b \in Tree
  BY TreeAssumption DEF Tree
<1>2. PathTo[Parent[b]] \in Seq(Blocks) /\ PathTo[b] = Append(PathTo[Parent[b]], b)
  BY <1>1, PathAssumption
<1>3. c \in Seq(Tree) /\ Len(c) = Len(PathTo[Parent[b]]) + 1 /\ Len(c) \in Nat \ {0}
  BY <1>2 DEF ChainShape
<1>4. ChainTo(b) = Append(c, b)
  BY <1>2 DEF ChainTo
<1>5. c[Len(c)] = Parent[b] /\ c[1] = Genesis
  BY DEF ChainShape, Tip
<1>6. \A i \in 2..Len(c) : c[i] \in Blocks /\ Parent[c[i]] = c[i - 1]
  BY DEF ChainShape
<1>7. Len(PathTo[b]) = Len(PathTo[Parent[b]]) + 1
  BY <1>2
<1> HIDE DEF c
<1>8. ASSUME NEW d \in Seq(Tree), d = Append(c, b)
      PROVE  /\ Len(d) = Len(c) + 1 /\ d[1] = Genesis /\ d[Len(d)] = b
             /\ \A i \in 2..Len(d) : d[i] \in Blocks /\ Parent[d[i]] = d[i - 1]
  BY <1>3, <1>5, <1>6, <1>8, SMTT(40)
<1>9. ChainTo(b) \in Seq(Tree)
  BY <1>1, <1>3, <1>4
<1> QED
  BY <1>3, <1>4, <1>7, <1>8, <1>9 DEF ChainShape, Tip

LEMMA ChainsHaveShape ==
  ASSUME NEW b \in Tree
  PROVE  ChainShape(b)
<1> DEFINE Good == {k \in Nat : \A x \in Tree : Len(PathTo[x]) <= k => ChainShape(x)}
<1>1. \A x \in Tree : Len(PathTo[x]) \in Nat
  BY PathAssumption
<1>2. ASSUME NEW x \in Blocks
      PROVE  /\ Parent[x] \in Tree /\ Len(PathTo[x]) = Len(PathTo[Parent[x]]) + 1
  <2>1. Parent[x] \in Tree
    BY TreeAssumption
  <2>2. PathTo[Parent[x]] \in Seq(Blocks) /\ PathTo[x] = Append(PathTo[Parent[x]], x)
    BY <2>1, PathAssumption
  <2> QED
    BY <2>1, <2>2
<1>3. 0 \in Good
  <2>1. ASSUME NEW x \in Tree, Len(PathTo[x]) <= 0 PROVE ChainShape(x)
    <3>1. x \notin Blocks
      BY <1>1, <1>2, <2>1
    <3> QED
      BY <3>1, GenesisShape DEF Tree
  <2> QED
    BY <2>1
<1>4. ASSUME NEW k \in Nat, k \in Good PROVE k + 1 \in Good
  <2>1. ASSUME NEW x \in Tree, Len(PathTo[x]) <= k + 1 PROVE ChainShape(x)
    <3>1. CASE x \in Blocks
      <4>1. Len(PathTo[Parent[x]]) <= k
        BY <1>1, <1>2, <2>1, <3>1
      <4>2. ChainShape(Parent[x])
        BY <1>2, <1>4, <3>1, <4>1
      <4> QED
        BY <3>1, <4>2, ShapeGrows
    <3>2. CASE x = Genesis
      BY <3>2, GenesisShape
    <3> QED
      BY <3>1, <3>2 DEF Tree
  <2> QED
    BY <2>1
<1>5. \A k \in 0..Len(PathTo[b]) : k \in Good
  <2> HIDE DEF Good
  <2> QED
    BY <1>1, <1>3, <1>4, UpTo
<1>6. Len(PathTo[b]) \in Good
  <2> HIDE DEF Good
  <2> QED
    BY <1>1, <1>5
<1> QED
  BY <1>1, <1>6

(* Going down a chain from its tip.                                        *)
LEMMA DownTheChain ==
  ASSUME NEW b \in Tree, NEW Good,
         b \in Good,
         \A x \in Blocks : x \in Good => Parent[x] \in Good
  PROVE  BlocksOf(ChainTo(b)) \subseteq Good
<1> DEFINE c == ChainTo(b)
           Down == {j \in Nat : j < Len(c) => c[Len(c) - j] \in Good}
<1>1. /\ c \in Seq(Tree) /\ Len(c) \in Nat \ {0} /\ c[Len(c)] = b
      /\ \A i \in 2..Len(c) : c[i] \in Blocks /\ Parent[c[i]] = c[i - 1]
  <2>1. ChainShape(b) /\ Len(PathTo[b]) \in Nat
    BY ChainsHaveShape, PathAssumption
  <2> QED
    BY <2>1 DEF ChainShape, Tip
<1> HIDE DEF c
<1>2. 0 \in Down
  BY <1>1
<1>3. ASSUME NEW j \in Nat, j \in Down PROVE j + 1 \in Down
  <2>1. CASE j + 1 < Len(c)
    <3>1. Len(c) - j \in 2..Len(c) /\ c[Len(c) - j] \in Good
      BY <1>1, <1>3, <2>1
    <3>2. c[Len(c) - j] \in Blocks /\ Parent[c[Len(c) - j]] = c[(Len(c) - j) - 1]
      BY <1>1, <3>1
    <3>3. (Len(c) - j) - 1 = Len(c) - (j + 1)
      BY <1>1
    <3> QED
      BY <3>1, <3>2, <3>3
  <2> QED
    BY <1>1, <2>1
<1>4. \A j \in 0..Len(c) : j \in Down
  <2> HIDE DEF Down
  <2> QED
    BY <1>1, <1>2, <1>3, UpTo
<1>5. ASSUME NEW i \in 1..Len(c) PROVE c[i] \in Good
  <2>1. Len(c) - i \in 0..Len(c) /\ Len(c) - i < Len(c) /\ Len(c) - (Len(c) - i) = i
    BY <1>1
  <2>2. Len(c) - i \in Down
    <3> HIDE DEF Down
    <3> QED
      BY <1>4, <2>1
  <2> QED
    BY <2>1, <2>2
<1> QED
  BY <1>5 DEF BlocksOf, c

(* A stretch of a chain is an inventory that extends the block before it.  *)
LEMMA Stretch ==
  ASSUME NEW b \in Tree, NEW from \in 1..Len(ChainTo(b)), NEW upto \in from..Len(ChainTo(b)),
         upto <= from + MaxBlocksPerSync
  PROVE  /\ SubSeq(ChainTo(b), from + 1, upto) \in Inventories
         /\ SubSeq(ChainTo(b), from + 1, upto) # <<>> =>
               Parent[Head(SubSeq(ChainTo(b), from + 1, upto))] = ChainTo(b)[from]
<1> DEFINE c == ChainTo(b)
           inv == SubSeq(c, from + 1, upto)
<1>1. /\ c \in Seq(Tree) /\ Len(c) \in Nat \ {0} /\ MaxBlocksPerSync \in Nat
      /\ \A i \in 2..Len(c) : c[i] \in Blocks /\ Parent[c[i]] = c[i - 1]
  <2>1. ChainShape(b) /\ Len(PathTo[b]) \in Nat
    BY ChainsHaveShape, PathAssumption
  <2> QED
    BY <2>1, SyncAssumption DEF ChainShape
<1> HIDE DEF c
<1>2. /\ inv \in Seq(Tree) /\ Len(inv) = upto - from /\ from \in Nat /\ upto \in Nat
      /\ \A i \in 1..Len(inv) : inv[i] = c[from + i]
  BY <1>1 DEF c
<1> HIDE DEF inv
<1>3. \A i \in 1..Len(inv) : /\ inv[i] \in Blocks /\ Parent[inv[i]] = c[from + i - 1]
  <2> SUFFICES ASSUME NEW i \in 1..Len(inv)
               PROVE  inv[i] \in Blocks /\ Parent[inv[i]] = c[from + i - 1]
    OBVIOUS
  <2>1. from \in 1..Len(c) /\ upto \in from..Len(c)
    BY DEF c
  <2>2. from + i \in 2..Len(c)
    BY <1>1, <1>2, <2>1
  <2>3. c[from + i] \in Blocks /\ Parent[c[from + i]] = c[from + i - 1]
    BY <1>1, <2>2
  <2> QED
    BY <1>2, <2>3
<1>4. inv \in Seq(Blocks) /\ Len(inv) \in Nat /\ Len(inv) <= MaxBlocksPerSync
  BY <1>1, <1>2, <1>3
<1>5. Linked(inv)
  <2> SUFFICES ASSUME NEW i \in 2..Len(inv) PROVE Parent[inv[i]] = inv[i - 1]
    BY DEF Linked
  <2>1. i \in 1..Len(inv) /\ i - 1 \in 1..Len(inv) /\ from + (i - 1) = from + i - 1
    BY <1>2
  <2> QED
    BY <1>2, <1>3, <2>1
<1>6. inv # <<>> => Parent[Head(inv)] = c[from]
  BY <1>2, <1>3, <1>4
<1> QED
  BY <1>4, <1>5, <1>6 DEF Inventories, inv, c

-----------------------------------------------------------------------------
LEMMA MaxIs ==
  ASSUME NEW S, NEW c \in Nat, S \subseteq 0..c, S # {}
  PROVE  Max(S) \in S /\ \A k \in S : k <= Max(S)
<1>1. S \subseteq Nat /\ \A k \in S : k <= c
  OBVIOUS
<1>2. \E m \in S : \A k \in S : k <= m
  BY <1>1, GreatestElement
<1>3. \E m \in S : \A k \in S : m >= k
  BY <1>1, <1>2
<1>4. Max(S) \in S /\ \A k \in S : Max(S) >= k
  BY <1>3 DEF Max
<1> QED
  BY <1>1, <1>4

LEMMA MinIs ==
  ASSUME NEW S, S \subseteq Nat, S # {}
  PROVE  Min(S) \in S
<1>1. \E m \in S : \A k \in S : m <= k
  BY LeastElement
<1> QED
  BY <1>1 DEF Min

(* A locator names blocks of the chain, and genesis among them.            *)
LEMMA LocatorIs ==
  ASSUME NEW b \in Tree
  PROVE  /\ BlockLocator(ChainTo(b), MaxBlocksPerSync)
               \in Seq(BlocksOf(ChainTo(b)) \cup {Genesis})
         /\ Len(BlockLocator(ChainTo(b), MaxBlocksPerSync)) <= MaxBlocksPerSync
         /\ Genesis \in BlocksOf(BlockLocator(ChainTo(b), MaxBlocksPerSync))
<1> DEFINE c == ChainTo(b)
           max == MaxBlocksPerSync
           S == {k \in 1..max : InLocator(c, max, k)}
           n == Cardinality(S)
           loc == BlockLocator(c, max)
<1>1. c \in Seq(Tree) /\ Len(c) \in Nat \ {0} /\ max \in Nat \ {0}
  <2>1. ChainShape(b) /\ Len(PathTo[b]) \in Nat
    BY ChainsHaveShape, PathAssumption
  <2> QED
    BY <2>1, SyncAssumption DEF ChainShape
<1>2. loc = [k \in 1..(n + 1) |->
               IF InLocator(c, max, k) THEN c[Len(c) - LocatorOffset(k)] ELSE Genesis]
  BY DEF BlockLocator
<1>3. IsFiniteSet(1..(max - 1)) /\ Cardinality(1..(max - 1)) = max - 1
  <2>1. max - 1 \in Nat
    BY <1>1
  <2>2. Cardinality(1..(max - 1)) = IF 1 > max - 1 THEN 0 ELSE (max - 1) - 1 + 1
    BY <1>1, FS_Interval
  <2>3. IsFiniteSet(1..(max - 1))
    BY <1>1, FS_Interval
  <2> QED
    BY <1>1, <2>1, <2>2, <2>3
<1>4. S \subseteq 1..(max - 1)
  BY <1>1 DEF InLocator
<1>5. IsFiniteSet(S) /\ n \in Nat /\ n <= max - 1
  <2>1. IsFiniteSet(S) /\ Cardinality(S) <= Cardinality(1..(max - 1))
    BY <1>3, <1>4, FS_Subset
  <2>2. Cardinality(S) \in Nat
    BY <2>1, FS_CardinalityType
  <2> QED
    BY <1>3, <2>1, <2>2
<1>6. \E k \in 1..(n + 1) : ~ InLocator(c, max, k)
  <2> SUFFICES ASSUME \A k \in 1..(n + 1) : InLocator(c, max, k) PROVE FALSE
    OBVIOUS
  <2> HIDE DEF n
  <2>1. 1..(n + 1) \subseteq 1..max
    BY <1>1, <1>5
  <2>2. 1..(n + 1) \subseteq S
    BY <2>1
  <2>3. Cardinality(1..(n + 1)) = n + 1
    <3>1. Cardinality(1..(n + 1)) = IF 1 > n + 1 THEN 0 ELSE (n + 1) - 1 + 1
      BY <1>5, FS_Interval
    <3> QED
      BY <1>5, <3>1
  <2>4. Cardinality(1..(n + 1)) <= n
    BY <1>5, <2>2, FS_Subset DEF n
  <2> QED
    BY <1>5, <2>3, <2>4
<1>7. \A k \in 1..(n + 1) : InLocator(c, max, k) => c[Len(c) - LocatorOffset(k)] \in BlocksOf(c)
  <2> SUFFICES ASSUME NEW k \in 1..(n + 1), InLocator(c, max, k)
               PROVE  c[Len(c) - LocatorOffset(k)] \in BlocksOf(c)
    OBVIOUS
  <2> DEFINE o == LocatorOffset(k)
  <2>1. o \in 0..(Len(c) - 2)
    BY DEF InLocator
  <2> HIDE DEF o
  <2>2. Len(c) - o \in 1..Len(c)
    BY <1>1, <2>1
  <2> HIDE DEF c
  <2>3. c[Len(c) - o] \in BlocksOf(c)
    BY <2>2 DEF BlocksOf
  <2> QED
    BY <2>3 DEF o
<1> HIDE DEF n, loc, c, S
<1>8. \A k \in 1..(n + 1) : loc[k] \in BlocksOf(c) \cup {Genesis}
  BY <1>2, <1>7
<1>9. loc \in Seq(BlocksOf(c) \cup {Genesis}) /\ Len(loc) = n + 1
  <2>1. n + 1 \in Nat /\ loc \in [1..(n + 1) -> BlocksOf(c) \cup {Genesis}]
    BY <1>2, <1>5, <1>8
  <2> QED
    BY <2>1
<1>10. \E k \in 1..Len(loc) : loc[k] = Genesis
  BY <1>2, <1>6, <1>9
<1>11. Len(loc) <= max
  BY <1>1, <1>5, <1>9
<1> HIDE DEF max
<1>12. Genesis \in BlocksOf(loc)
  BY <1>10 DEF BlocksOf
<1> QED
  BY <1>9, <1>11, <1>12 DEF loc, c, max

(* inventory_after offers what follows a block the locator names.          *)
LEMMA InventoryIs ==
  ASSUME NEW b \in Tree, NEW locator, NEW stop, Genesis \in BlocksOf(locator)
  PROVE  LET inv == InventoryAfter(ChainTo(b), locator, stop, MaxBlocksPerSync)
         IN /\ inv \in Inventories
            /\ inv # <<>> => Parent[Head(inv)] \in BlocksOf(locator)
<1> DEFINE c == ChainTo(b)
           max == MaxBlocksPerSync
           S == {i \in 1..Len(c) : c[i] \in BlocksOf(locator)}
           from == Max(S)
           upto == Shorter(Len(c), from + max)
           T == {i \in (from + 1)..upto : c[i] = stop} \cup {upto}
<1>1. c[1] = Genesis /\ Len(c) \in Nat \ {0} /\ max \in Nat
  <2>1. ChainShape(b) /\ Len(PathTo[b]) \in Nat
    BY ChainsHaveShape, PathAssumption
  <2> QED
    BY <2>1, SyncAssumption DEF ChainShape
<1> HIDE DEF c, max
<1>2. from \in S
  <2>1. S \subseteq 0..Len(c) /\ 1 \in S /\ Len(c) \in Nat
    BY <1>1
  <2> HIDE DEF S
  <2> QED
    BY <2>1, MaxIs
<1>3. from \in 1..Len(c) /\ c[from] \in BlocksOf(locator)
  BY <1>2
<1> HIDE DEF from
<1>4. upto \in from..Len(c) /\ upto <= from + max
  BY <1>1, <1>3 DEF Shorter
<1> HIDE DEF upto
<1>5. Min(T) \in T
  <2>1. T \subseteq Nat /\ T # {}
    BY <1>1, <1>3, <1>4
  <2> HIDE DEF T
  <2> QED
    BY <2>1, MinIs
<1>6. Min(T) \in from..Len(c) /\ Min(T) <= from + max
  <2>1. T \subseteq from..upto
    BY <1>3, <1>4
  <2> HIDE DEF T
  <2>2. Min(T) \in from..upto
    BY <1>5, <2>1
  <2> QED
    BY <1>1, <1>3, <1>4, <2>2
<1>7. InventoryAfter(c, locator, stop, max) = SubSeq(c, from + 1, Min(T))
  BY DEF InventoryAfter, from, upto
<1> HIDE DEF T
<1>8. /\ SubSeq(c, from + 1, Min(T)) \in Inventories
      /\ SubSeq(c, from + 1, Min(T)) # <<>> =>
            Parent[Head(SubSeq(c, from + 1, Min(T)))] = c[from]
  BY <1>3, <1>6, Stretch DEF c, max
<1> QED
  BY <1>3, <1>7, <1>8 DEF c, max

(* relay_inventory_after offers what follows an ancestor of the peer's tip. *)
LEMMA RelayInventoryIs ==
  ASSUME NEW b \in Tree, NEW t \in Tree
  PROVE  LET inv == RelayInventoryAfter(ChainTo(b), t, MaxBlocksPerSync)
         IN /\ inv \in Inventories
            /\ inv # <<>> => Parent[Head(inv)] \in BlocksOf(ChainTo(t))
<1> DEFINE c == ChainTo(b)
           max == MaxBlocksPerSync
           S == {i \in 1..Len(c) : c[i] \in BlocksOf(ChainTo(t))}
           from == Max(S)
           upto == Shorter(Len(c), from + max)
<1>1. c[1] = Genesis /\ Len(c) \in Nat \ {0} /\ max \in Nat
  <2>1. ChainShape(b) /\ Len(PathTo[b]) \in Nat
    BY ChainsHaveShape, PathAssumption
  <2> QED
    BY <2>1, SyncAssumption DEF ChainShape
<1>2. Genesis \in BlocksOf(ChainTo(t))
  <2>1. ChainShape(t) /\ Len(PathTo[t]) \in Nat
    BY ChainsHaveShape, PathAssumption
  <2>2. ChainTo(t)[1] = Genesis /\ 1 \in 1..Len(ChainTo(t))
    BY <2>1 DEF ChainShape
  <2> QED
    BY <2>2 DEF BlocksOf
<1> HIDE DEF c, max
<1>3. from \in S
  <2>1. S \subseteq 0..Len(c) /\ 1 \in S /\ Len(c) \in Nat
    BY <1>1, <1>2
  <2> HIDE DEF S
  <2> QED
    BY <2>1, MaxIs
<1>4. from \in 1..Len(c) /\ c[from] \in BlocksOf(ChainTo(t))
  BY <1>3
<1> HIDE DEF from
<1>5. upto \in from..Len(c) /\ upto <= from + max
  BY <1>1, <1>4 DEF Shorter
<1>6. RelayInventoryAfter(c, t, max) = SubSeq(c, from + 1, upto)
  BY DEF RelayInventoryAfter, from
<1> HIDE DEF upto
<1>7. /\ SubSeq(c, from + 1, upto) \in Inventories
      /\ SubSeq(c, from + 1, upto) # <<>> =>
            Parent[Head(SubSeq(c, from + 1, upto))] = c[from]
  BY <1>4, <1>5, Stretch DEF c, max
<1> QED
  BY <1>4, <1>6, <1>7 DEF c, max

-----------------------------------------------------------------------------
(* A node has every block of the chain to a block it has.                  *)
LEMMA AncestorsHeld ==
  ASSUME NEW k, NEW c, NEW n, NodeOk(k, c, n), NEW b \in Held(k, n)
  PROVE  b \in Tree /\ BlocksOf(ChainTo(b)) \subseteq Held(k, n)
<1>1. b \in Tree
  BY DEF NodeOk, Held, Tree
<1>2. \A x \in Blocks : x \in Held(k, n) => Parent[x] \in Held(k, n)
  BY TreeAssumption DEF NodeOk, Held
<1> QED
  BY <1>1, <1>2, DownTheChain

(* A submitted block is indexed after its parent, and the tip stays one of *)
(* the heaviest blocks.                                                    *)
LEMMA SubmitGrows ==
  ASSUME SyncInv, NEW n \in Nodes, NEW b \in Blocks,
         Parent[b] \in Held(known, n), Submitted(n, b)
  PROVE  /\ known' \in [Nodes -> SUBSET Blocks] /\ chain' = [m \in Nodes |-> chain'[m]]
         /\ \A m \in Nodes : known[m] \subseteq known'[m] /\ NodeOk(known', chain', m)
         /\ b \in known'[n]
<1>1. /\ known \in [Nodes -> SUBSET Blocks] /\ chain = [m \in Nodes |-> chain[m]]
      /\ \A m \in Nodes : NodeOk(known, chain, m)
  BY DEF SyncInv
<1>2. known' = [known EXCEPT ![n] = @ \cup {b}]
  BY DEF Submitted
<1>3. /\ known' \in [Nodes -> SUBSET Blocks]
      /\ known'[n] = known[n] \cup {b}
      /\ \A m \in Nodes : known[m] \subseteq known'[m]
      /\ \A m \in Nodes \ {n} : known'[m] = known[m]
  BY <1>1, <1>2
<1>4. \/ TotalWork[b] > TotalWork[Tip(chain[n])] /\ chain' = [chain EXCEPT ![n] = ChainTo(b)]
      \/ ~ (TotalWork[b] > TotalWork[Tip(chain[n])]) /\ chain' = chain
  BY DEF Submitted, tip
<1>5. chain' = [m \in Nodes |-> chain'[m]] /\ \A m \in Nodes \ {n} : chain'[m] = chain[m]
  BY <1>1, <1>4
<1>6. ASSUME NEW m \in Nodes PROVE NodeOk(known', chain', m)
  <2>1. CASE m # n
    <3>1. NodeOk(known, chain, m) /\ known'[m] = known[m] /\ chain'[m] = chain[m]
      BY <1>1, <1>3, <1>5, <2>1
    <3> QED
      BY <3>1 DEF NodeOk, Held
  <2>2. CASE m = n
    <3> DEFINE t == Tip(chain[n])
               t2 == Tip(chain'[n])
    <3>1. /\ known[n] \subseteq Blocks /\ chain[n] = ChainTo(t) /\ t \in Held(known, n)
          /\ \A x \in known[n] : Parent[x] \in Held(known, n) /\ TotalWork[x] <= TotalWork[t]
      BY <1>1 DEF NodeOk
    <3>2. b \in Tree /\ t \in Tree /\ Held(known, n) \subseteq Held(known', n)
      BY <1>3, <3>1 DEF Held, Tree
    <3>3. b \in Held(known', n)
      BY <1>3 DEF Held
    <3>4. /\ chain'[n] = ChainTo(t2) /\ t2 \in Held(known', n) /\ t2 \in Tree
          /\ TotalWork[t] <= TotalWork[t2] /\ TotalWork[b] <= TotalWork[t2]
      <4>1. TotalWork[b] \in Nat /\ TotalWork[t] \in Nat
        BY <3>2, WorkAssumption
      <4>2. CASE TotalWork[b] > TotalWork[t] /\ chain' = [chain EXCEPT ![n] = ChainTo(b)]
        <5>1. chain'[n] = ChainTo(b)
          BY <1>1, <4>2
        <5>2. t2 = b
          BY <3>2, <5>1, ChainsHaveShape DEF ChainShape
        <5> QED
          BY <3>2, <3>3, <4>1, <4>2, <5>1, <5>2
      <4>3. CASE ~ (TotalWork[b] > TotalWork[t]) /\ chain' = chain
        BY <3>1, <3>2, <4>1, <4>3
      <4> QED
        BY <1>4, <4>2, <4>3
    <3> HIDE DEF t, t2
    <3>5. \A x \in known'[n] : /\ Parent[x] \in Held(known', n)
                               /\ TotalWork[x] <= TotalWork[t2]
      <4> SUFFICES ASSUME NEW x \in known'[n]
                   PROVE  Parent[x] \in Held(known', n) /\ TotalWork[x] <= TotalWork[t2]
        OBVIOUS
      <4>1. CASE x = b
        BY <3>2, <3>4, <4>1
      <4>2. CASE x \in known[n]
        <5>1. x \in Tree
          BY <3>1, <4>2 DEF Tree
        <5>2. TotalWork[x] \in Nat /\ TotalWork[t] \in Nat /\ TotalWork[t2] \in Nat
          BY <3>2, <3>4, <5>1, WorkAssumption
        <5> QED
          BY <3>1, <3>2, <3>4, <4>2, <5>2
      <4> QED
        BY <1>3, <4>1, <4>2
    <3>6. known'[n] \subseteq Blocks
      BY <1>3, <3>1
    <3> QED
      BY <2>2, <3>4, <3>5, <3>6 DEF NodeOk, t2
  <2> QED
    BY <2>1, <2>2
<1> QED
  BY <1>3, <1>5, <1>6

(* A session stays usable while the indexes only grow.                     *)
LEMMA SessionKept ==
  ASSUME NEW s, NEW k, NEW k2, NEW n \in Nodes, SessionOk(s, k, n),
         \A m \in Nodes : k[m] \subseteq k2[m]
  PROVE  SessionOk(s, k2, n)
<1>1. \A m \in Nodes : Held(k, m) \subseteq Held(k2, m)
  BY DEF Held
<1>2. CASE s = Idle
  BY <1>2 DEF SessionOk
<1>3. CASE /\ s \in [phase : {"headers"}, peer : Nodes, stop : Tree, locator : Seq(Held(k, n))]
           /\ Len(s.locator) <= MaxBlocksPerSync /\ Genesis \in BlocksOf(s.locator)
  <2>1. s.locator \in Seq(Held(k2, n))
    <3>1. s.locator \in Seq(Held(k, n)) /\ Held(k, n) \subseteq Held(k2, n)
      BY <1>1, <1>3
    <3> QED
      BY <3>1
  <2>2. s \in [phase : {"headers"}, peer : Nodes, stop : Tree, locator : Seq(Held(k2, n))]
    BY <1>3, <2>1
  <2> QED
    BY <1>3, <2>2 DEF SessionOk
<1>4. CASE PullOk(s, k, n)
  <2>1. PullOk(s, k2, n)
    BY <1>1, <1>4 DEF PullOk
  <2> QED
    BY <2>1 DEF SessionOk
<1>5. CASE s \in [phase : {"pulled"}, peer : Nodes]
  BY <1>5 DEF SessionOk
<1>6. CASE /\ s \in [phase : {"offer"}, peer : Nodes, peer_tip : Tree]
           /\ s.peer_tip \in Held(k, s.peer)
  BY <1>1, <1>6 DEF SessionOk
<1>7. CASE RelayOk(s, k)
  <2>1. RelayOk(s, k2)
    BY <1>1, <1>7 DEF RelayOk
  <2> QED
    BY <2>1 DEF SessionOk
<1> QED
  BY <1>2, <1>3, <1>4, <1>5, <1>6, <1>7 DEF SessionOk

(* A step of node n's polling thread, or one that leaves the threads alone. *)
LEMMA SessionStep ==
  ASSUME SyncInv, NEW n \in Nodes, NEW s, Enter(n, s) \/ (s = session[n] /\ session' = session),
         known' \in [Nodes -> SUBSET Blocks], chain' = [m \in Nodes |-> chain'[m]],
         \A m \in Nodes : known[m] \subseteq known'[m] /\ NodeOk(known', chain', m),
         turn' \in [Nodes -> SUBSET Nodes], drops' \in 0..MaxDrops,
         SessionOk(s, known', n)
  PROVE  SyncInv'
<1>1. session = [m \in Nodes |-> session[m]] /\ \A m \in Nodes : SessionOk(session[m], known, m)
  BY DEF SyncInv
<1>2. /\ session' = [m \in Nodes |-> session'[m]] /\ session'[n] = s
      /\ \A m \in Nodes \ {n} : session'[m] = session[m]
  BY <1>1 DEF Enter
<1>3. ASSUME NEW m \in Nodes PROVE SessionOk(session'[m], known', m)
  <2>1. CASE m = n
    BY <1>2, <2>1
  <2>2. CASE m # n
    <3>1. SessionOk(session[m], known', m)
      BY <1>1, SessionKept
    <3> QED
      BY <1>2, <2>2, <3>1
  <2> QED
    BY <2>1, <2>2
<1> QED
  BY <1>2, <1>3 DEF SyncInv

(* The same when no index changes.                                         *)
LEMMA QuietStep ==
  ASSUME SyncInv, NEW n \in Nodes, NEW s, Enter(n, s), UNCHANGED <<known, chain>>,
         turn' \in [Nodes -> SUBSET Nodes], drops' \in 0..MaxDrops, SessionOk(s, known, n)
  PROVE  SyncInv'
<1>1. /\ known \in [Nodes -> SUBSET Blocks] /\ chain = [m \in Nodes |-> chain[m]]
      /\ \A m \in Nodes : NodeOk(known, chain, m)
  BY DEF SyncInv
<1>2. /\ known' \in [Nodes -> SUBSET Blocks] /\ chain' = [m \in Nodes |-> chain'[m]]
      /\ \A m \in Nodes : known[m] \subseteq known'[m] /\ NodeOk(known', chain', m)
      /\ SessionOk(s, known', n)
  BY <1>1
<1> QED
  BY <1>2, SessionStep

LEMMA TurnKept ==
  ASSUME SyncInv, NEW n \in Nodes, NEW p, NextPeer(n, p)
  PROVE  turn' \in [Nodes -> SUBSET Nodes]
<1>1. turn \in [Nodes -> SUBSET Nodes] /\ Peers[n] \in SUBSET Nodes
  BY SyncAssumption DEF SyncInv
<1> QED
  BY <1>1 DEF NextPeer

-----------------------------------------------------------------------------
LEMMA RestIs ==
  ASSUME NEW inv \in Inventories, inv # <<>>
  PROVE  /\ Head(inv) \in Blocks /\ Tail(inv) \in Inventories
         /\ Tail(inv) # <<>> => Parent[Head(Tail(inv))] = Head(inv)
<1>1. inv \in Seq(Blocks) /\ Len(inv) <= MaxBlocksPerSync /\ Linked(inv) /\ MaxBlocksPerSync \in Nat
  BY SyncAssumption DEF Inventories
<1>2. /\ Head(inv) = inv[1] /\ Tail(inv) \in Seq(Blocks) /\ Len(Tail(inv)) = Len(inv) - 1
      /\ Len(inv) \in Nat \ {0}
      /\ \A i \in 1..Len(Tail(inv)) : Tail(inv)[i] = inv[i + 1]
  BY <1>1
<1>3. Linked(Tail(inv))
  <2> SUFFICES ASSUME NEW i \in 2..Len(Tail(inv)) PROVE Parent[Tail(inv)[i]] = Tail(inv)[i - 1]
    BY DEF Linked
  <2>1. i + 1 \in 2..Len(inv) /\ i \in 1..Len(Tail(inv)) /\ i - 1 \in 1..Len(Tail(inv))
    BY <1>2
  <2>2. Parent[inv[i + 1]] = inv[(i + 1) - 1] /\ (i + 1) - 1 = (i - 1) + 1
    BY <1>1, <2>1 DEF Linked
  <2> QED
    BY <1>2, <2>1, <2>2
<1>4. Tail(inv) # <<>> => Parent[Head(Tail(inv))] = Head(inv)
  <2> SUFFICES ASSUME Tail(inv) # <<>> PROVE Parent[Head(Tail(inv))] = Head(inv)
    OBVIOUS
  <2>1. 1 \in 1..Len(Tail(inv)) /\ Head(Tail(inv)) = Tail(inv)[1]
    BY <1>2
  <2>2. 2 \in 2..Len(inv)
    BY <1>2, <2>1
  <2>3. Parent[inv[2]] = inv[2 - 1]
    BY <1>1, <2>2 DEF Linked
  <2> QED
    BY <1>2, <2>1, <2>3
<1> QED
  BY <1>1, <1>2, <1>3, <1>4 DEF Inventories

LEMMA EmptyIsInventory == <<>> \in Inventories
BY SyncAssumption DEF Inventories, Linked

LEMMA TipsAreHeld ==
  ASSUME SyncInv, NEW n \in Nodes
  PROVE  tip(n) \in Held(known, n) /\ tip(n) \in Tree /\ chain[n] = ChainTo(tip(n))
BY DEF SyncInv, NodeOk, Held, Tree, tip

LEMMA Typed ==
  ASSUME SyncInv
  PROVE  turn \in [Nodes -> SUBSET Nodes] /\ drops \in 0..MaxDrops
BY DEF SyncInv

(* What a session's phase tells of it.                                     *)
PhaseOk(s, k, n) ==
    /\ s.phase = "headers" =>
         /\ s.peer \in Nodes /\ s.locator \in Seq(Held(k, n))
         /\ Len(s.locator) <= MaxBlocksPerSync /\ Genesis \in BlocksOf(s.locator)
    /\ s.phase \in {"pull", "fetched"} => PullOk(s, k, n)
    /\ s.phase = "pulled" => s.peer \in Nodes
    /\ s.phase = "offer" => s.peer \in Nodes /\ s.peer_tip \in Held(k, s.peer)
    /\ s.phase = "relay" => RelayOk(s, k)
    /\ s.phase # "idle" => s.peer \in Nodes

LEMMA PhaseTells ==
  ASSUME SyncInv, NEW n \in Nodes
  PROVE  PhaseOk(session[n], known, n)
<1> DEFINE s == session[n]
<1>1. SessionOk(s, known, n)
  BY DEF SyncInv
<1> HIDE DEF s
<1> SUFFICES PhaseOk(s, known, n)
  BY DEF s
<1>2. CASE s = Idle
  BY <1>2 DEF Idle, PhaseOk
<1>3. CASE /\ s \in [phase : {"headers"}, peer : Nodes, stop : Tree, locator : Seq(Held(known, n))]
           /\ Len(s.locator) <= MaxBlocksPerSync /\ Genesis \in BlocksOf(s.locator)
  BY <1>3 DEF PhaseOk
<1>4. CASE PullOk(s, known, n)
  <2>1. s.phase \in {"pull", "fetched"} /\ s.peer \in Nodes
    BY <1>4 DEF PullOk
  <2> QED
    BY <1>4, <2>1 DEF PhaseOk
<1>5. CASE s \in [phase : {"pulled"}, peer : Nodes]
  BY <1>5 DEF PhaseOk
<1>6. CASE /\ s \in [phase : {"offer"}, peer : Nodes, peer_tip : Tree]
           /\ s.peer_tip \in Held(known, s.peer)
  BY <1>6 DEF PhaseOk
<1>7. CASE RelayOk(s, known)
  <2>1. s.phase = "relay" /\ s.peer \in Nodes
    BY <1>7 DEF RelayOk
  <2> QED
    BY <1>7, <2>1 DEF PhaseOk
<1> QED
  BY <1>1, <1>2, <1>3, <1>4, <1>5, <1>6, <1>7 DEF SessionOk

LEMMA MineOnTipInv ==
  ASSUME SyncInv, NEW n \in Nodes, NEW b \in Blocks, MineOnTip(n, b)
  PROVE  SyncInv'
<1>1. Parent[b] \in Held(known, n) /\ Submitted(n, b) /\ UNCHANGED <<session, turn, drops>>
  BY TipsAreHeld DEF MineOnTip
<1>2. /\ known' \in [Nodes -> SUBSET Blocks] /\ chain' = [m \in Nodes |-> chain'[m]]
      /\ \A m \in Nodes : known[m] \subseteq known'[m] /\ NodeOk(known', chain', m)
  BY <1>1, SubmitGrows
<1>3. SessionOk(session[n], known', n)
  <2>1. SessionOk(session[n], known, n)
    BY DEF SyncInv
  <2> QED
    BY <1>2, <2>1, SessionKept
<1> QED
  BY <1>1, <1>2, <1>3, Typed, SessionStep

LEMMA PullStartInv ==
  ASSUME SyncInv, NEW n \in Nodes, NEW p \in Peers[n], PullStart(n, p)
  PROVE  SyncInv'
<1> DEFINE loc == BlockLocator(chain[n], MaxBlocksPerSync)
           s == [phase |-> "headers", peer |-> p, stop |-> tip(p), locator |-> loc]
<1>1. p \in Nodes /\ tip(p) \in Tree
  BY SyncAssumption, TipsAreHeld
<1>2. chain[n] = ChainTo(tip(n)) /\ tip(n) \in Tree /\ tip(n) \in Held(known, n)
  BY TipsAreHeld
<1>3. BlocksOf(chain[n]) \cup {Genesis} \subseteq Held(known, n)
  <2>1. NodeOk(known, chain, n)
    BY DEF SyncInv
  <2>2. BlocksOf(ChainTo(tip(n))) \subseteq Held(known, n)
    BY <1>2, <2>1, AncestorsHeld
  <2> QED
    BY <1>2, <2>2 DEF Held
<1>4. /\ loc \in Seq(BlocksOf(chain[n]) \cup {Genesis})
      /\ Len(loc) <= MaxBlocksPerSync /\ Genesis \in BlocksOf(loc)
  BY <1>2, LocatorIs
<1>5. Enter(n, s) /\ UNCHANGED <<known, chain, turn, drops>>
  BY DEF PullStart
<1> HIDE DEF loc
<1>6. loc \in Seq(Held(known, n))
  BY <1>3, <1>4
<1>7. SessionOk(s, known, n)
  BY <1>1, <1>4, <1>6 DEF SessionOk
<1> HIDE DEF s
<1> QED
  BY <1>5, <1>7, Typed, QuietStep

LEMMA PullInventoryInv ==
  ASSUME SyncInv, NEW n \in Nodes, PullInventory(n)
  PROVE  SyncInv'
<1> DEFINE inv == InventoryAfter(chain[session[n].peer], session[n].locator,
                                 session[n].stop, MaxBlocksPerSync)
           s == [phase |-> "pull", peer |-> session[n].peer, previous |-> NoPrevious,
                 inventory |-> inv]
<1>1. /\ session[n].peer \in Nodes /\ session[n].locator \in Seq(Held(known, n))
      /\ Genesis \in BlocksOf(session[n].locator)
  BY PhaseTells DEF PhaseOk, PullInventory
<1>2. Enter(n, s) /\ UNCHANGED <<known, chain, turn, drops>>
  BY DEF PullInventory
<1>3. inv \in Inventories /\ (inv # <<>> => Parent[Head(inv)] \in BlocksOf(session[n].locator))
  BY <1>1, TipsAreHeld, InventoryIs
<1>4. BlocksOf(session[n].locator) \subseteq Held(known, n)
  BY <1>1 DEF BlocksOf
<1> HIDE DEF inv
<1>5. PullOk(s, known, n)
  BY <1>1, <1>3, <1>4 DEF PullOk
<1>6. SessionOk(s, known, n)
  BY <1>5 DEF SessionOk
<1> HIDE DEF s
<1> QED
  BY <1>2, <1>6, Typed, QuietStep

LEMMA PullCheckInv ==
  ASSUME SyncInv, NEW n \in Nodes, PullCheck(n)
  PROVE  SyncInv'
<1> DEFINE s == session[n]
           skip == [s EXCEPT !.previous = Head(s.inventory), !.inventory = Tail(s.inventory)]
           fetch == [s EXCEPT !.phase = "fetched"]
<1>1. PullOk(s, known, n) /\ s.phase = "pull" /\ s.inventory # <<>>
  BY PhaseTells DEF PhaseOk, PullCheck
<1>2. UNCHANGED <<known, chain, turn, drops>>
  BY DEF PullCheck
<1>3. \/ Head(s.inventory) \in Held(known, n) /\ Enter(n, skip)
      \/ Enter(n, fetch)
  BY DEF PullCheck, KnownTo, Held
<1>4. /\ Head(s.inventory) \in Blocks /\ Tail(s.inventory) \in Inventories
      /\ Tail(s.inventory) # <<>> => Parent[Head(Tail(s.inventory))] = Head(s.inventory)
  BY <1>1, RestIs DEF PullOk
<1> HIDE DEF s
<1>5. CASE Head(s.inventory) \in Held(known, n) /\ Enter(n, skip)
  <2>1. Head(s.inventory) # NoPrevious
    BY <1>4, SyncAssumption DEF Tree
  <2>2. PullOk(skip, known, n)
    BY <1>1, <1>4, <1>5, <2>1 DEF PullOk
  <2>3. SessionOk(skip, known, n)
    BY <2>2 DEF SessionOk
  <2> HIDE DEF skip
  <2> QED
    BY <1>2, <1>5, <2>3, Typed, QuietStep
<1>6. CASE Enter(n, fetch)
  <2>1. PullOk(fetch, known, n)
    BY <1>1 DEF PullOk
  <2>2. SessionOk(fetch, known, n)
    BY <2>1 DEF SessionOk
  <2> HIDE DEF fetch
  <2> QED
    BY <1>2, <1>6, <2>2, Typed, QuietStep
<1> QED
  BY <1>3, <1>5, <1>6

LEMMA PulledOk ==
  ASSUME NEW k, NEW n, NEW p \in Nodes
  PROVE  SessionOk([phase |-> "pulled", peer |-> p], k, n)
BY DEF SessionOk

LEMMA PullSubmitInv ==
  ASSUME SyncInv, NEW n \in Nodes, PullSubmit(n)
  PROVE  SyncInv'
<1> DEFINE s == session[n]
           b == Head(s.inventory)
           done == [phase |-> "pulled", peer |-> s.peer]
           next == [s EXCEPT !.phase = "pull", !.previous = b, !.inventory = Tail(s.inventory)]
<1>1. PullOk(s, known, n) /\ s.phase = "fetched"
  BY PhaseTells DEF PhaseOk, PullSubmit
<1>2. s.inventory # <<>> /\ s.peer \in Nodes
  BY <1>1 DEF PullOk
<1>3. UNCHANGED <<turn, drops>>
  BY DEF PullSubmit
<1>4. \/ Submitted(n, b) /\ Enter(n, next)
      \/ Enter(n, done) /\ UNCHANGED <<known, chain>>
  BY DEF PullSubmit
<1>5. /\ b \in Blocks /\ Tail(s.inventory) \in Inventories
      /\ Tail(s.inventory) # <<>> => Parent[Head(Tail(s.inventory))] = b
  BY <1>1, <1>2, RestIs DEF PullOk
<1>6. Parent[b] \in Held(known, n)
  <2>1. NoPrevious \notin Tree /\ Parent[b] \in Tree
    BY <1>5, SyncAssumption, TreeAssumption
  <2> QED
    BY <1>1, <1>2, <2>1 DEF PullOk
<1> HIDE DEF s, b
<1>7. CASE Submitted(n, b) /\ Enter(n, next)
  <2>1. /\ known' \in [Nodes -> SUBSET Blocks] /\ chain' = [m \in Nodes |-> chain'[m]]
        /\ \A m \in Nodes : known[m] \subseteq known'[m] /\ NodeOk(known', chain', m)
        /\ b \in known'[n]
    BY <1>5, <1>6, <1>7, SubmitGrows
  <2>2. b \in Held(known', n) /\ b # NoPrevious
    BY <1>5, <2>1, SyncAssumption DEF Held, Tree
  <2>3. PullOk(next, known', n)
    BY <1>1, <1>5, <2>2 DEF PullOk
  <2>4. SessionOk(next, known', n)
    BY <2>3 DEF SessionOk
  <2> HIDE DEF next
  <2> QED
    BY <1>3, <1>7, <2>1, <2>4, Typed, SessionStep
<1>8. CASE Enter(n, done) /\ UNCHANGED <<known, chain>>
  <2>1. SessionOk(done, known, n)
    BY <1>2, PulledOk
  <2> HIDE DEF done
  <2> QED
    BY <1>3, <1>8, <2>1, Typed, QuietStep
<1> QED
  BY <1>4, <1>7, <1>8

LEMMA PullEndInv ==
  ASSUME SyncInv, NEW n \in Nodes, PullEnd(n)
  PROVE  SyncInv'
<1> DEFINE done == [phase |-> "pulled", peer |-> session[n].peer]
<1>1. Enter(n, done) /\ UNCHANGED <<known, chain, turn, drops>> /\ session[n].peer \in Nodes
  BY PhaseTells DEF PhaseOk, PullEnd
<1>2. SessionOk(done, known, n)
  BY <1>1, PulledOk
<1> HIDE DEF done
<1> QED
  BY <1>1, <1>2, Typed, QuietStep

LEMMA RelayStartInv ==
  ASSUME SyncInv, NEW n \in Nodes, RelayStart(n)
  PROVE  SyncInv'
<1> DEFINE s == [phase |-> "offer", peer |-> session[n].peer, peer_tip |-> tip(session[n].peer)]
<1>1. Enter(n, s) /\ UNCHANGED <<known, chain, turn, drops>> /\ session[n].peer \in Nodes
  BY PhaseTells DEF PhaseOk, RelayStart
<1>2. SessionOk(s, known, n)
  BY <1>1, TipsAreHeld DEF SessionOk
<1> HIDE DEF s
<1> QED
  BY <1>1, <1>2, Typed, QuietStep

LEMMA RelayInventoryInv ==
  ASSUME SyncInv, NEW n \in Nodes, RelayInventory(n)
  PROVE  SyncInv'
<1> DEFINE p == session[n].peer
           t == session[n].peer_tip
           inv == IF t \in KnownTo(n)
                  THEN RelayInventoryAfter(chain[n], t, MaxBlocksPerSync) ELSE <<>>
           s == [phase |-> "relay", peer |-> p, inventory |-> inv]
<1>1. Enter(n, s) /\ UNCHANGED <<known, chain, turn, drops>>
  BY DEF RelayInventory
<1>2. p \in Nodes /\ t \in Held(known, p)
  BY PhaseTells DEF PhaseOk, RelayInventory
<1>3. t \in Tree /\ BlocksOf(ChainTo(t)) \subseteq Held(known, p)
  BY <1>2, AncestorsHeld DEF SyncInv
<1>4. inv \in Inventories /\ (inv # <<>> => Parent[Head(inv)] \in Held(known, p))
  <2>1. CASE t \in KnownTo(n)
    <3>1. LET i == RelayInventoryAfter(chain[n], t, MaxBlocksPerSync)
          IN i \in Inventories /\ (i # <<>> => Parent[Head(i)] \in BlocksOf(ChainTo(t)))
      BY <1>3, TipsAreHeld, RelayInventoryIs
    <3> QED
      BY <1>3, <2>1, <3>1
  <2>2. CASE t \notin KnownTo(n)
    BY <2>2, EmptyIsInventory
  <2> QED
    BY <2>1, <2>2
<1> HIDE DEF p, t, inv
<1>5. RelayOk(s, known)
  BY <1>2, <1>4 DEF RelayOk
<1>6. SessionOk(s, known, n)
  BY <1>5 DEF SessionOk
<1> HIDE DEF s
<1> QED
  BY <1>1, <1>6, Typed, QuietStep

LEMMA RelayBlockInv ==
  ASSUME SyncInv, NEW n \in Nodes, RelayBlock(n)
  PROVE  SyncInv'
<1> DEFINE s == session[n]
           b == Head(s.inventory)
           rest == [s EXCEPT !.inventory = Tail(s.inventory)]
           stop == [s EXCEPT !.inventory = <<>>]
<1>1. RelayOk(s, known) /\ s.inventory # <<>> /\ UNCHANGED <<turn, drops>>
  BY PhaseTells DEF PhaseOk, RelayBlock
<1>2. \/ b \in Held(known, s.peer) /\ Enter(n, rest) /\ UNCHANGED <<known, chain>>
      \/ Enter(n, rest) /\ Submitted(s.peer, b)
      \/ Enter(n, stop) /\ UNCHANGED <<known, chain>>
  BY DEF RelayBlock, KnownTo, Held
<1>3. /\ b \in Blocks /\ Tail(s.inventory) \in Inventories
      /\ Tail(s.inventory) # <<>> => Parent[Head(Tail(s.inventory))] = b
  BY <1>1, RestIs DEF RelayOk
<1>4. s.peer \in Nodes /\ Parent[b] \in Held(known, s.peer)
  BY <1>1 DEF RelayOk
<1> HIDE DEF s, b
<1>5. CASE b \in Held(known, s.peer) /\ Enter(n, rest) /\ UNCHANGED <<known, chain>>
  <2>1. RelayOk(rest, known)
    BY <1>1, <1>3, <1>5 DEF RelayOk
  <2>2. SessionOk(rest, known, n)
    BY <2>1 DEF SessionOk
  <2> HIDE DEF rest
  <2> QED
    BY <1>1, <1>5, <2>2, Typed, QuietStep
<1>6. CASE Enter(n, rest) /\ Submitted(s.peer, b)
  <2>1. /\ known' \in [Nodes -> SUBSET Blocks] /\ chain' = [m \in Nodes |-> chain'[m]]
        /\ \A m \in Nodes : known[m] \subseteq known'[m] /\ NodeOk(known', chain', m)
        /\ b \in known'[s.peer]
    BY <1>3, <1>4, <1>6, SubmitGrows
  <2>2. b \in Held(known', s.peer)
    BY <2>1 DEF Held
  <2>3. RelayOk(rest, known')
    BY <1>1, <1>3, <2>2 DEF RelayOk
  <2>4. SessionOk(rest, known', n)
    BY <2>3 DEF SessionOk
  <2> HIDE DEF rest
  <2> QED
    BY <1>1, <1>6, <2>1, <2>4, Typed, SessionStep
<1>7. CASE Enter(n, stop) /\ UNCHANGED <<known, chain>>
  <2>1. RelayOk(stop, known)
    BY <1>1, EmptyIsInventory DEF RelayOk
  <2>2. SessionOk(stop, known, n)
    BY <2>1 DEF SessionOk
  <2> HIDE DEF stop
  <2> QED
    BY <1>1, <1>7, <2>2, Typed, QuietStep
<1> QED
  BY <1>2, <1>5, <1>6, <1>7

LEMMA IdleStep ==
  ASSUME SyncInv, NEW n \in Nodes, Enter(n, Idle), UNCHANGED <<known, chain>>,
         turn' \in [Nodes -> SUBSET Nodes], drops' \in 0..MaxDrops
  PROVE  SyncInv'
<1>1. SessionOk(Idle, known, n)
  BY DEF SessionOk
<1> QED
  BY <1>1, QuietStep

LEMMA RelayEndInv ==
  ASSUME SyncInv, NEW n \in Nodes, RelayEnd(n)
  PROVE  SyncInv'
<1>1. turn' \in [Nodes -> SUBSET Nodes]
  BY TurnKept DEF RelayEnd
<1> QED
  BY <1>1, Typed, IdleStep DEF RelayEnd

LEMMA DropInv ==
  ASSUME SyncInv, NEW n \in Nodes, Drop(n)
  PROVE  SyncInv'
<1> DEFINE done == [phase |-> "pulled", peer |-> session[n].peer]
<1>1. drops' \in 0..MaxDrops /\ UNCHANGED <<known, chain>> /\ session[n].peer \in Nodes
  BY Typed, PhaseTells, SyncAssumption DEF PhaseOk, Drop
<1>2. \/ Enter(n, done) /\ turn' = turn
      \/ Enter(n, Idle) /\ NextPeer(n, session[n].peer)
  BY DEF Drop
<1>3. CASE Enter(n, done) /\ turn' = turn
  <2>1. SessionOk(done, known, n)
    BY <1>1, PulledOk
  <2> HIDE DEF done
  <2> QED
    BY <1>1, <1>3, <2>1, Typed, QuietStep
<1>4. CASE Enter(n, Idle) /\ NextPeer(n, session[n].peer)
  BY <1>1, <1>4, TurnKept, IdleStep
<1> QED
  BY <1>2, <1>3, <1>4

-----------------------------------------------------------------------------
(* Each node starts with the branch it mined alone.                        *)
LEMMA StartOk ==
  ASSUME NEW b \in Tree
  PROVE  /\ BlocksOf(PathTo[b]) \subseteq Blocks
         /\ b \in BlocksOf(PathTo[b]) \cup {Genesis}
         /\ \A x \in BlocksOf(PathTo[b]) : /\ Parent[x] \in BlocksOf(PathTo[b]) \cup {Genesis}
                                           /\ TotalWork[x] <= TotalWork[b]
<1> DEFINE p == PathTo[b]
           c == ChainTo(b)
<1>1. p \in Seq(Blocks) /\ c = <<Genesis>> \o p
  BY PathAssumption DEF ChainTo
<1>2. /\ Len(c) = Len(p) + 1 /\ c[1] = Genesis /\ c[Len(c)] = b
      /\ \A i \in 2..Len(c) : c[i] \in Blocks /\ Parent[c[i]] = c[i - 1]
  BY ChainsHaveShape DEF ChainShape, Tip
<1>3. BlocksOf(c) \subseteq {x \in Tree : TotalWork[x] <= TotalWork[b]}
  <2>1. b \in {x \in Tree : TotalWork[x] <= TotalWork[b]}
    BY WorkAssumption
  <2>2. ASSUME NEW x \in Blocks, x \in Tree, TotalWork[x] <= TotalWork[b]
        PROVE  Parent[x] \in Tree /\ TotalWork[Parent[x]] <= TotalWork[b]
    <3>1. Parent[x] \in Tree /\ BlockWork[x] \in Nat
      BY TreeAssumption
    <3>2. /\ TotalWork[x] \in Nat /\ TotalWork[Parent[x]] \in Nat /\ TotalWork[b] \in Nat
          /\ TotalWork[x] = TotalWork[Parent[x]] + BlockWork[x]
      BY <2>2, <3>1, WorkAssumption
    <3> QED
      BY <2>2, <3>1, <3>2
  <2> DEFINE Good == {x \in Tree : TotalWork[x] <= TotalWork[b]}
  <2>3. b \in Good /\ \A x \in Blocks : x \in Good => Parent[x] \in Good
    BY <2>1, <2>2
  <2> HIDE DEF Good
  <2>4. BlocksOf(c) \subseteq Good
    BY <2>3, DownTheChain
  <2> QED
    BY <2>4 DEF Good
<1> HIDE DEF p, c
<1>4. \A i \in 1..Len(p) : c[i + 1] = p[i]
  BY <1>1
<1>5. Len(p) \in Nat
  BY <1>1
<1>6. BlocksOf(p) \subseteq Blocks
  BY <1>1 DEF BlocksOf
<1>7. b \in BlocksOf(p) \cup {Genesis}
  <2>1. CASE Len(p) = 0
    BY <1>2, <2>1
  <2>2. CASE Len(p) # 0
    <3>1. Len(p) \in 1..Len(p) /\ c[Len(p) + 1] = p[Len(p)]
      BY <1>4, <1>5, <2>2
    <3>2. b = p[Len(p)]
      BY <1>2, <3>1
    <3> QED
      BY <3>1, <3>2 DEF BlocksOf
  <2> QED
    BY <2>1, <2>2
<1>8. ASSUME NEW x \in BlocksOf(p)
      PROVE  Parent[x] \in BlocksOf(p) \cup {Genesis} /\ TotalWork[x] <= TotalWork[b]
  <2>1. PICK i \in 1..Len(p) : x = p[i]
    BY DEF BlocksOf
  <2>2. x = c[i + 1] /\ i + 1 \in 2..Len(c)
    BY <1>2, <1>4, <1>5, <2>1
  <2>3. Parent[x] = c[(i + 1) - 1] /\ (i + 1) - 1 = i
    BY <1>2, <2>2
  <2>4. c[i] \in BlocksOf(p) \cup {Genesis}
    <3>1. CASE i = 1
      BY <1>2, <3>1
    <3>2. CASE i # 1
      <4>1. i - 1 \in 1..Len(p) /\ (i - 1) + 1 = i
        BY <1>5, <3>2
      <4>2. c[i] = p[i - 1]
        BY <1>4, <4>1
      <4> QED
        BY <4>1, <4>2 DEF BlocksOf
    <3> QED
      BY <3>1, <3>2
  <2>5. x \in BlocksOf(c)
    <3>1. i + 1 \in 1..Len(c)
      BY <1>2, <1>5, <2>2
    <3> QED
      BY <2>2, <3>1 DEF BlocksOf
  <2> QED
    BY <1>3, <2>3, <2>4, <2>5
<1> QED
  BY <1>6, <1>7, <1>8 DEF p

LEMMA SyncInitInv == SyncInit => SyncInv
<1> SUFFICES ASSUME SyncInit PROVE SyncInv
  OBVIOUS
<1>1. ASSUME NEW n \in Nodes PROVE known[n] \subseteq Blocks /\ NodeOk(known, chain, n)
  <2> DEFINE b == StartTip[n]
  <2>1. b \in Tree
    BY SyncAssumption
  <2>2. known[n] = BlocksOf(PathTo[b]) /\ chain[n] = ChainTo(b)
    BY DEF SyncInit
  <2>3. Tip(chain[n]) = b
    BY <2>1, <2>2, ChainsHaveShape DEF ChainShape
  <2> HIDE DEF b
  <2> QED
    BY <2>1, <2>2, <2>3, StartOk DEF NodeOk, Held
<1>2. known \in [Nodes -> SUBSET Blocks] /\ chain = [n \in Nodes |-> chain[n]]
  BY <1>1 DEF SyncInit
<1>3. turn \in [Nodes -> SUBSET Nodes] /\ drops \in 0..MaxDrops
  BY SyncAssumption DEF SyncInit
<1>4. session = [n \in Nodes |-> session[n]] /\ \A n \in Nodes : SessionOk(session[n], known, n)
  BY DEF SyncInit, SessionOk
<1> QED
  BY <1>1, <1>2, <1>3, <1>4 DEF SyncInv

LEMMA SyncNextInv == SyncInv /\ [SyncNext]_syncVars => SyncInv'
<1> SUFFICES ASSUME SyncInv, [SyncNext]_syncVars PROVE SyncInv'
  OBVIOUS
<1>1. CASE SyncNext
  <2>1. PICK n \in Nodes : (\E b \in Blocks : MineOnTip(n, b)) \/ Poll(n) \/ Drop(n)
    BY <1>1 DEF SyncNext
  <2>2. CASE \E b \in Blocks : MineOnTip(n, b)
    BY <2>2, MineOnTipInv
  <2>3. CASE Poll(n)
    <3>1. CASE \E p \in Peers[n] : PullStart(n, p)
      BY <3>1, PullStartInv
    <3>2. CASE PullInventory(n)
      BY <3>2, PullInventoryInv
    <3>3. CASE PullCheck(n)
      BY <3>3, PullCheckInv
    <3>4. CASE PullSubmit(n)
      BY <3>4, PullSubmitInv
    <3>5. CASE PullEnd(n)
      BY <3>5, PullEndInv
    <3>6. CASE RelayStart(n)
      BY <3>6, RelayStartInv
    <3>7. CASE RelayInventory(n)
      BY <3>7, RelayInventoryInv
    <3>8. CASE RelayBlock(n)
      BY <3>8, RelayBlockInv
    <3>9. CASE RelayEnd(n)
      BY <3>9, RelayEndInv
    <3> QED
      BY <2>3, <3>1, <3>2, <3>3, <3>4, <3>5, <3>6, <3>7, <3>8, <3>9 DEF Poll
  <2>4. CASE Drop(n)
    BY <2>4, DropInv
  <2> QED
    BY <2>1, <2>2, <2>3, <2>4
<1>2. CASE UNCHANGED syncVars
  <2>1. /\ known' = known /\ chain' = chain /\ session' = session
        /\ turn' = turn /\ drops' = drops
    BY <1>2 DEF syncVars
  <2> QED
    BY <2>1 DEF SyncInv
<1> QED
  BY <1>1, <1>2

(* What the invariant says of inventories in use and of the indexes.       *)
LEMMA SyncInvSound == SyncInv => SyncSound
<1> SUFFICES ASSUME SyncInv PROVE SyncSound
  OBVIOUS
<1>1. SyncTypeOK
  <2>1. ASSUME NEW n \in Nodes
        PROVE  /\ chain[n] = ChainTo(tip(n))
               /\ session[n].phase = "headers" => Len(session[n].locator) <= MaxBlocksPerSync
               /\ session[n].phase \in {"pull", "fetched", "relay"} =>
                     Len(session[n].inventory) <= MaxBlocksPerSync
    BY TipsAreHeld, PhaseTells DEF PhaseOk, PullOk, RelayOk, Inventories
  <2> QED
    BY <2>1 DEF SyncInv, SyncTypeOK
<1>2. HonestSessionsSucceed
  <2>1. ASSUME NEW n \in Nodes, session[n].phase = "fetched" PROVE ParentIsOrdered(n)
    <3>1. PullOk(session[n], known, n)
      BY <2>1, PhaseTells DEF PhaseOk
    <3> QED
      BY <2>1, <3>1 DEF PullOk, ParentIsOrdered, KnownTo, Held
  <2>2. ASSUME NEW n \in Nodes, session[n].phase = "relay", session[n].inventory # <<>>
        PROVE  Parent[Head(session[n].inventory)] \in KnownTo(session[n].peer)
    <3>1. RelayOk(session[n], known)
      BY <2>2, PhaseTells DEF PhaseOk
    <3> QED
      BY <2>2, <3>1 DEF RelayOk, KnownTo, Held
  <2> QED
    BY <2>1, <2>2 DEF HonestSessionsSucceed
<1>3. IndexConsistent
  BY DEF SyncInv, NodeOk, IndexConsistent, KnownTo, Held, tip
<1> QED
  BY <1>1, <1>2, <1>3 DEF SyncSound

(* For every block tree, network and start: an index is closed under       *)
(* parents with a heaviest block as tip, and every item of an inventory    *)
(* under way extends the one before it.                                    *)
THEOREM SyncInvariant == SyncSpec => []SyncInv
BY SyncInitInv, SyncNextInv, PTL DEF SyncSpec

(* Between correct nodes no pulled block arrives out of order and no       *)
(* relayed block is rejected, whatever the chains do during the session.   *)
THEOREM SessionsSucceed == SyncSpec => []SyncSound
BY SyncInvariant, SyncInvSound, PTL

-----------------------------------------------------------------------------
(***************************************************************************)
(* PeerRequests.                                                           *)
(***************************************************************************)
(* A set of transactions listed in txid order.                             *)
Listed(f, S) ==
    /\ f \in [1..Cardinality(S) -> S] /\ ToSet(f) = S
    /\ \A i, j \in 1..Cardinality(S) : i < j => f[i] < f[j]

LEMMA ListedMore ==
  ASSUME NEW S, S \subseteq Nat, IsFiniteSet(S), NEW m \in S, \A k \in S : k <= m,
         NEW g, Listed(g, S \ {m})
  PROVE  \E f : Listed(f, S)
<1> DEFINE n == Cardinality(S \ {m})
           f == [i \in 1..(n + 1) |-> IF i <= n THEN g[i] ELSE m]
<1>1. n \in Nat /\ Cardinality(S) = n + 1
  <2>1. /\ Cardinality(S) \in Nat /\ Cardinality(S \ {m}) \in Nat
        /\ Cardinality(S \ {m}) = Cardinality(S) - 1
    BY Smaller
  <2> QED
    BY <2>1
<1>2. /\ g \in [1..n -> S \ {m}] /\ {g[i] : i \in DOMAIN g} = S \ {m}
      /\ \A i, j \in 1..n : i < j => g[i] < g[j]
  BY DEF Listed, ToSet
<1> HIDE DEF n
<1>3. 1..(n + 1) = (1..n) \union {n + 1} /\ ~ (n + 1 <= n) /\ \A i \in 1..n : i <= n
  BY <1>1
<1>4. f \in [1..(n + 1) -> S] /\ f[n + 1] = m /\ \A i \in 1..n : f[i] = g[i]
  BY <1>2, <1>3
<1> HIDE DEF f
<1>5. \A i, j \in 1..(n + 1) : i < j => f[i] < f[j]
  <2> SUFFICES ASSUME NEW i \in 1..(n + 1), NEW j \in 1..(n + 1), i < j PROVE f[i] < f[j]
    OBVIOUS
  <2>1. i \in 1..n /\ f[i] = g[i] /\ g[i] \in S \ {m}
    BY <1>1, <1>2, <1>4
  <2>2. CASE j \in 1..n
    BY <1>2, <1>4, <2>1, <2>2
  <2>3. CASE j = n + 1
    <3>1. g[i] <= m /\ g[i] # m /\ g[i] \in Nat /\ m \in Nat
      BY <2>1
    <3> QED
      BY <1>4, <2>1, <2>3, <3>1
  <2> QED
    BY <1>3, <2>2, <2>3
<1>6. {f[i] : i \in DOMAIN f} = S
  <2>1. DOMAIN f = (1..n) \union {n + 1} /\ DOMAIN g = 1..n
    BY <1>2, <1>3, <1>4
  <2>2. ASSUME NEW i \in DOMAIN f PROVE f[i] \in S
    BY <1>4, <2>2
  <2>3. ASSUME NEW x \in S PROVE \E i \in DOMAIN f : f[i] = x
    <3>1. CASE x = m
      BY <1>4, <2>1, <3>1
    <3>2. CASE x # m
      <4>1. PICK i \in 1..n : g[i] = x
        BY <1>2, <2>1, <3>2
      <4> QED
        BY <1>4, <2>1, <4>1
    <3> QED
      BY <3>1, <3>2
  <2> QED
    BY <2>2, <2>3
<1>7. Listed(f, S)
  BY <1>1, <1>4, <1>5, <1>6 DEF Listed, ToSet
<1> QED
  BY <1>7

LEMMA EmptyListed == \E f : Listed(f, {})
<1>1. Cardinality({}) = 0
  BY FS_EmptySet
<1>2. <<>> \in [1..0 -> {}] /\ {<<>>[i] : i \in DOMAIN <<>>} = {}
  OBVIOUS
<1>3. Listed(<<>>, {})
  BY <1>1, <1>2 DEF Listed, ToSet
<1> QED
  BY <1>3

(* InTxidOrder lists every finite set of transactions.                     *)
LEMMA OrderLists ==
  ASSUME NEW S, S \subseteq Nat, IsFiniteSet(S)
  PROVE  Listed(InTxidOrder(S), S) /\ Cardinality(S) \in Nat
<1> DEFINE Good == {k \in Nat : \A T \in SUBSET S : Cardinality(T) = k => \E f : Listed(f, T)}
<1>1. \A T \in SUBSET S : IsFiniteSet(T) /\ Cardinality(T) \in Nat
  BY FS_Subset, FS_CardinalityType
<1>2. 0 \in Good
  <2>1. ASSUME NEW T \in SUBSET S, Cardinality(T) = 0 PROVE \E f : Listed(f, T)
    <3>1. T = {}
      BY <1>1, <2>1, FS_EmptySet
    <3> QED
      BY <3>1, EmptyListed
  <2> QED
    BY <2>1
<1>3. ASSUME NEW k \in Nat, k \in Good PROVE k + 1 \in Good
  <2>1. ASSUME NEW T \in SUBSET S, Cardinality(T) = k + 1 PROVE \E f : Listed(f, T)
    <3>1. IsFiniteSet(T) /\ T \subseteq Nat
      BY <1>1
    <3>2. T # {}
      BY <2>1, FS_EmptySet
    <3>3. PICK c \in Nat : \A x \in T : x <= c
      BY <3>1, FiniteIsBounded
    <3>4. PICK m \in T : \A x \in T : x <= m
      BY <3>1, <3>2, <3>3, GreatestElement
    <3>5. Cardinality(T \ {m}) = k
      <4>1. Cardinality(T \ {m}) = Cardinality(T) - 1
        BY <3>1, Smaller
      <4> QED
        BY <2>1, <4>1
    <3>6. PICK g : Listed(g, T \ {m})
      BY <1>3, <3>5
    <3> QED
      BY <3>1, <3>4, <3>6, ListedMore
  <2> QED
    BY <2>1
<1>4. \A k \in 0..Cardinality(S) : k \in Good
  <2> HIDE DEF Good
  <2> QED
    BY <1>1, <1>2, <1>3, UpTo
<1>5. Cardinality(S) \in Good
  <2> HIDE DEF Good
  <2> QED
    BY <1>1, <1>4
<1>6. \E f : Listed(f, S)
  BY <1>5
<1>7. Listed(InTxidOrder(S), S)
  BY <1>6 DEF Listed, InTxidOrder
<1> QED
  BY <1>1, <1>7

LEMMA CountsAdd ==
  ASSUME NEW L, IsFiniteSet(L), NEW K, K \subseteq L
  PROVE  Cardinality(L) = Cardinality(K) + Cardinality(L \ K)
<1> DEFINE D == L \ K
<1>1. K \cap D = {} /\ K \union D = L
  OBVIOUS
<1>2. IsFiniteSet(K) /\ IsFiniteSet(D)
  BY FS_Subset
<1> HIDE DEF D
<1>3. Cardinality(K \union D) = Cardinality(K) + Cardinality(D) - Cardinality(K \cap D)
  BY <1>2, FS_Union
<1>4. Cardinality({}) = 0 /\ Cardinality(K) \in Nat /\ Cardinality(D) \in Nat
  BY <1>2, FS_EmptySet, FS_CardinalityType
<1>5. Cardinality(K \cap D) = 0
  BY <1>1, <1>4
<1>6. Cardinality(L) = Cardinality(K) + Cardinality(D) - Cardinality(K \cap D)
  BY <1>1, <1>3, Zenon
<1>7. Cardinality(L) = Cardinality(K) + Cardinality(D)
  BY <1>4, <1>5, <1>6
<1> QED
  BY <1>7 DEF D

-----------------------------------------------------------------------------
(* A session that asks for transactions; what it has asked for, out of     *)
(* those listed and not known.                                             *)
AskingOk(s) ==
    /\ s = [kind |-> "transactions", list |-> s.list, known |-> s.known,
            queue |-> s.queue, requested |-> s.requested]
    /\ s.list \subseteq Txs /\ s.known \subseteq s.list /\ s.requested \in Nat

PullInv ==
    /\ pool \subseteq Txs
    /\ sess.kind = "transactions" => AskingOk(sess)
    /\ UpToDate(report) => report.unseen = {}

(* An answer under way is about the index as it still is. *)
AnswerOk(s, kept) ==
    s.kind = "answer" => \/ s.status \in {"Accepted", "AlreadyKnown"} /\ kept = TRUE
                         \/ s.status = "Rejected" /\ kept = FALSE

(* What is indexed has a record; what is durable is indexed, and so is all *)
(* that the log of a healthy node holds.                                   *)
StoreOk ==
    /\ stored \in BOOLEAN /\ record \in {"none", "written", "durable"}
    /\ (stored = TRUE => record # "none") /\ (record = "durable" => stored = TRUE)
    /\ storage = "healthy" /\ record = "written" => stored = TRUE

(* What the last answer leaves behind, and a restart cannot change. *)
VerdictOk ==
    /\ verdict.status = "Accepted" => record = "durable"
    /\ verdict.status = "AlreadyKnown" => record = "durable" \/ verdict.record = "written"
    /\ verdict.status = "Rejected" => record = "none" \/ verdict.record = "written"

RequestsInv == PullInv /\ AnswerOk(sess, stored) /\ StoreOk /\ VerdictOk

(* A report that covers the list has looked at all of it.                  *)
LEMMA ReportSawAll ==
  ASSUME NEW s, AskingOk(s)
  PROVE  LET asked == FirstN(InTxidOrder(s.list \ s.known), s.requested)
             r == [items |-> Cardinality(s.list), known |-> Cardinality(s.known),
                   requested |-> s.requested, unseen |-> s.list \ (s.known \union ToSet(asked))]
         IN  UpToDate(r) => r.unseen = {}
<1> DEFINE L == s.list
           K == s.known
           D == L \ K
           q == InTxidOrder(D)
           asked == FirstN(q, s.requested)
           r == [items |-> Cardinality(L), known |-> Cardinality(K),
                 requested |-> s.requested, unseen |-> L \ (K \union ToSet(asked))]
<1>1. L \subseteq Txs /\ K \subseteq L /\ s.requested \in Nat /\ D \subseteq Nat
  BY RequestsAssumption DEF AskingOk
<1>2. IsFiniteSet(L) /\ IsFiniteSet(K) /\ IsFiniteSet(D)
  BY <1>1, RequestsAssumption, FS_Subset
<1>3. Cardinality(L) = Cardinality(K) + Cardinality(D)
  <2> HIDE DEF K, L
  <2> QED
    BY <1>1, <1>2, CountsAdd
<1>4. Listed(q, D)
  <2> HIDE DEF D
  <2> QED
    BY <1>1, <1>2, OrderLists
<1>5. Cardinality(K) \in Nat /\ Cardinality(D) \in Nat
  BY <1>2, FS_CardinalityType
<1>6. ASSUME UpToDate(r) PROVE Cardinality(D) <= s.requested
  <2>1. (IF r.items < r.known THEN 0 ELSE r.items - r.known) <= r.requested
    BY <1>6 DEF UpToDate
  <2> HIDE DEF D
  <2>2. r.items = Cardinality(K) + Cardinality(D) /\ r.known = Cardinality(K)
        /\ r.requested = s.requested
    BY <1>3
  <2> HIDE DEF r, K
  <2> QED
    BY <1>1, <1>5, <2>1, <2>2
<1>7. ASSUME Cardinality(D) <= s.requested PROVE ToSet(asked) = D
  <2>1. q \in Seq(D) /\ Len(q) = Cardinality(D) /\ ToSet(q) = D
    <3> HIDE DEF D, q
    <3> QED
      BY <1>4, <1>5 DEF Listed
  <2> HIDE DEF D, q
  <2>2. asked = SubSeq(q, 1, Len(q))
    BY <1>1, <1>5, <1>7, <2>1 DEF FirstN
  <2>3. SubSeq(q, 1, Len(q)) = q
    BY <2>1
  <2> QED
    BY <2>1, <2>2, <2>3
<1>8. ASSUME UpToDate(r) PROVE r.unseen = {}
  <2>1. ToSet(asked) = D
    BY <1>6, <1>7, <1>8
  <2> HIDE DEF asked
  <2>2. r.unseen = L \ (K \union D)
    BY <2>1
  <2> QED
    BY <1>1, <2>2
<1> QED
  BY <1>8

LEMMA RequestsInitInv == RequestsInit => RequestsInv
<1> SUFFICES ASSUME RequestsInit PROVE RequestsInv
  OBVIOUS
<1>1. pool = {} /\ sess = [kind |-> "none"] /\ report.unseen = {}
  BY DEF RequestsInit, NoSession, NoReport
<1>2. stored = FALSE /\ record = "none" /\ verdict.status = "none"
  BY DEF RequestsInit, NoVerdict
<1> QED
  BY <1>1, <1>2 DEF RequestsInv, PullInv, AnswerOk, StoreOk, VerdictOk

LEMMA PullNextInv == PullInv /\ [RequestsNext]_requestsVars => PullInv'
<1> SUFFICES ASSUME PullInv, [RequestsNext]_requestsVars PROVE PullInv'
  OBVIOUS
<1> USE DEF requestsVars, chainVars, nodeVars, clientVars, minerVars
<1>1. CASE Arrive
  BY <1>1 DEF Arrive, PullInv
<1>2. CASE Extend
  BY <1>2 DEF Extend, PullInv
<1>3. CASE LocalSubmit
  BY <1>3 DEF LocalSubmit, PullInv
<1>4. CASE LoseConnection
  BY <1>4 DEF LoseConnection, PullInv, NoSession
<1>5. CASE PullBlocks
  <2>1. /\ sess' = [kind |-> "mempool"] /\ pool' = pool /\ report' = NoReport
    BY <1>5 DEF PullBlocks
  <2>2. report'.unseen = {}
    BY <2>1 DEF NoReport
  <2> QED
    BY <2>1, <2>2 DEF PullInv
<1>6. CASE GetMempool
  <2> DEFINE s == [kind |-> "transactions", list |-> pool, known |-> pool \intersect cpool,
                   queue |-> Wanted(InTxidOrder(pool)), requested |-> 0]
  <2>1. sess' = s /\ UNCHANGED <<pool, report>>
    BY <1>6 DEF GetMempool
  <2>2. AskingOk(s) /\ s.kind = "transactions"
    BY DEF AskingOk, PullInv
  <2> HIDE DEF s
  <2> QED
    BY <2>1, <2>2 DEF PullInv
<1>7. CASE GetTransaction
  <2>1. UNCHANGED <<pool, report>> /\ AskingOk(sess) /\ sess.kind = "transactions"
    BY <1>7 DEF GetTransaction, PullInv
  <2> DEFINE more == [sess EXCEPT !.queue = Tail(@), !.requested = @ + 1]
  <2>2. sess' = more \/ sess' = NoSession
    BY <1>7 DEF GetTransaction
  <2>3. more = [kind |-> "transactions", list |-> sess.list, known |-> sess.known,
                queue |-> Tail(sess.queue), requested |-> sess.requested + 1]
    <3> DEFINE l == sess.list  k == sess.known  u == sess.queue  r == sess.requested
    <3>1. sess = [kind |-> "transactions", list |-> l, known |-> k, queue |-> u,
                  requested |-> r]
      BY <2>1 DEF AskingOk
    <3>2. more = [sess EXCEPT !.queue = Tail(u), !.requested = r + 1]
      OBVIOUS
    <3> HIDE DEF l, k, u, r, more
    <3>3. more = [kind |-> "transactions", list |-> l, known |-> k, queue |-> Tail(u),
                  requested |-> r + 1]
      BY <3>1, <3>2
    <3> QED
      BY <3>3 DEF l, k, u, r
  <2>4. AskingOk(more) /\ more.kind = "transactions"
    <3> HIDE DEF more
    <3>1. /\ more.kind = "transactions" /\ more.list = sess.list /\ more.known = sess.known
          /\ more.queue = Tail(sess.queue) /\ more.requested = sess.requested + 1
      BY <2>3
    <3>2. more = [kind |-> "transactions", list |-> more.list, known |-> more.known,
                  queue |-> more.queue, requested |-> more.requested]
      BY <2>3, <3>1
    <3> QED
      BY <2>1, <3>1, <3>2 DEF AskingOk
  <2> HIDE DEF more
  <2>5. CASE sess' = more
    BY <2>1, <2>4, <2>5 DEF PullInv
  <2>6. CASE sess' = NoSession
    BY <2>1, <2>6 DEF PullInv, NoSession
  <2> QED
    BY <2>2, <2>5, <2>6
<1>8. CASE PullDone
  <2>1. AskingOk(sess) /\ UNCHANGED pool /\ sess' = NoSession
    BY <1>8 DEF PullDone, PullInv
  <2>2. report' = LET asked == FirstN(InTxidOrder(sess.list \ sess.known), sess.requested)
                  IN  [items |-> Cardinality(sess.list), known |-> Cardinality(sess.known),
                       requested |-> sess.requested,
                       unseen |-> sess.list \ (sess.known \union ToSet(asked))]
    BY <1>8 DEF PullDone
  <2>3. UpToDate(report') => report'.unseen = {}
    BY <2>1, <2>2, ReportSawAll
  <2> QED
    BY <2>1, <2>3 DEF PullInv, NoSession, UpToDate
<1>9. CASE TemplateHello
  BY <1>9 DEF TemplateHello, PullInv
<1>10. CASE GetMiningTemplate
  BY <1>10 DEF GetMiningTemplate, PullInv, NoSession
<1>11. CASE SubmitBlock
  BY <1>11 DEF SubmitBlock, Answer, PullInv
<1>12. CASE SubmitAnswer
  BY <1>12 DEF SubmitAnswer, PullInv, NoSession
<1>13. CASE StorageFault
  BY <1>13 DEF StorageFault, PullInv
<1>14. CASE Restart
  BY <1>14 DEF Restart, PullInv, NoSession
<1>15. CASE UNCHANGED requestsVars
  BY <1>15 DEF PullInv
<1> QED
  BY <1>1, <1>2, <1>3, <1>4, <1>5, <1>6, <1>7, <1>8, <1>9, <1>10, <1>11, <1>12, <1>13,
     <1>14, <1>15 DEF RequestsNext, Pull, Mine

(* The answers: what a restart makes of the record is what the verdict     *)
(* allows for.                                                             *)
LEMMA VerdictNextInv ==
  RequestsInv /\ [RequestsNext]_requestsVars =>
    AnswerOk(sess', stored') /\ StoreOk' /\ VerdictOk'
<1> SUFFICES ASSUME RequestsInv, [RequestsNext]_requestsVars
             PROVE  AnswerOk(sess', stored') /\ StoreOk' /\ VerdictOk'
  OBVIOUS
<1> USE DEF RequestsInv, AnswerOk, StoreOk, VerdictOk
<1>1. CASE /\ UNCHANGED <<stored, record, verdict>>
           /\ storage' = storage \/ storage' # "healthy"
           /\ sess' = sess \/ sess'.kind # "answer"
  BY <1>1
<1>2. CASE Arrive \/ StorageFault \/ LocalSubmit \/ UNCHANGED requestsVars
  <2>1. UNCHANGED <<stored, record, verdict, sess>>
    BY <1>2 DEF Arrive, StorageFault, LocalSubmit, requestsVars, chainVars, minerVars
  <2>2. storage' = storage \/ storage' # "healthy"
    BY <1>2 DEF Arrive, StorageFault, LocalSubmit, requestsVars, chainVars
  <2> QED
    BY <1>1, <2>1, <2>2
<1>3. CASE LoseConnection \/ PullBlocks \/ GetMempool \/ GetTransaction \/ PullDone
           \/ TemplateHello \/ SubmitAnswer
  <2>1. UNCHANGED <<stored, record, verdict, storage>>
    BY <1>3 DEF LoseConnection, PullBlocks, GetMempool, GetTransaction, PullDone,
       TemplateHello, SubmitAnswer, chainVars, minerVars
  <2>2. CASE GetTransaction
    <3>1. sess'.kind = sess.kind \/ sess' = NoSession
      <4> DEFINE more == [sess EXCEPT !.queue = Tail(@), !.requested = @ + 1]
      <4>1. AskingOk(sess) /\ (sess' = more \/ sess' = NoSession)
        BY <2>2 DEF GetTransaction, PullInv
      <4>2. more.kind = sess.kind
        BY <4>1 DEF AskingOk
      <4> HIDE DEF more
      <4> QED
        BY <4>1, <4>2
    <3>2. sess'.kind # "answer"
      BY <2>2, <3>1 DEF GetTransaction, NoSession
    <3> QED
      BY <1>1, <2>1, <3>2
  <2>3. CASE ~GetTransaction
    <3>1. sess'.kind # "answer"
      BY <1>3, <2>3 DEF LoseConnection, PullBlocks, GetMempool, PullDone, TemplateHello,
         SubmitAnswer, NoSession
    <3> QED
      BY <1>1, <2>1, <3>1
  <2> QED
    BY <2>2, <2>3
<1>4. CASE Extend
  <2>1. /\ record' = Synced(record) /\ storage = "healthy"
        /\ UNCHANGED <<stored, verdict, sess, storage>>
    BY <1>4 DEF Extend, minerVars
  <2> QED
    BY <2>1 DEF Synced
<1>5. CASE Restart
  <2>1. /\ stored' = (record' # "none") /\ sess'.kind # "answer" /\ verdict' = verdict
        /\ record' \in {record, Synced(record), IF record = "written" THEN "none" ELSE record}
    BY <1>5 DEF Restart, ProcessRestart, PowerLossRestart, NoSession, minerVars
  <2> QED
    BY <2>1 DEF Synced
<1>6. CASE GetMiningTemplate
  <2>1. sess'.kind # "answer" /\ storage' = storage
    BY <1>6 DEF GetMiningTemplate, NoSession
  <2>2. CASE verdict' = NoVerdict /\ stored' = FALSE /\ record' = "none"
    BY <2>1, <2>2 DEF NoVerdict
  <2>3. CASE UNCHANGED <<stored, record, verdict>>
    BY <1>1, <2>1, <2>3
  <2> QED
    BY <1>6, <2>2, <2>3 DEF GetMiningTemplate, minerVars
<1>7. CASE SubmitBlock
  <2>1. CASE Known /\ UNCHANGED chainVars /\ Answer("AlreadyKnown")
    BY <2>1 DEF Known, Answer, chainVars
  <2>2. CASE Store /\ Answer("Accepted")
    BY <2>2 DEF Store, Answer
  <2>3. CASE ~Known /\ (Refuse \/ WriteFailed \/ SyncFailed) /\ Answer("Rejected")
    <3>1. stored = FALSE /\ stored' = stored /\ record' \in {record, "written"}
      BY <2>3 DEF Known, Refuse, WriteFailed, SyncFailed, chainVars
    <3>2. record' # "durable"
      BY <3>1
    <3>3. storage' = "healthy" => storage = "healthy" /\ record' = record
      BY <2>3 DEF Refuse, WriteFailed, SyncFailed, chainVars
    <3> QED
      BY <2>3, <3>1, <3>2, <3>3 DEF Answer
  <2> QED
    BY <1>7, <2>1, <2>2, <2>3 DEF SubmitBlock
<1> QED
  BY <1>2, <1>3, <1>4, <1>5, <1>6, <1>7 DEF RequestsNext, Pull, Mine

LEMMA RequestsNextInv == RequestsInv /\ [RequestsNext]_requestsVars => RequestsInv'
BY PullNextInv, VerdictNextInv DEF RequestsInv

(* The invariant of the request sessions: a pull knows what it listed, and *)
(* what the log holds of the solved block agrees with the index and with   *)
(* the last answer about it.                                               *)
THEOREM RequestsInvariant == RequestsSpec => []RequestsInv
BY RequestsInitInv, RequestsNextInv, PTL DEF RequestsSpec

(* For any set of transactions, page size and responder: up to date means  *)
(* every listed transaction was looked at; the answer to a submission is   *)
(* true of the node's index and stays so over storage faults, restarts and *)
(* power losses, except about a record whose sync has failed.              *)
THEOREM RequestsAnswered == RequestsSpec => []AnswersTruthful
<1>1. RequestsInv => AnswersTruthful
  BY DEF RequestsInv, PullInv, AnswerOk, StoreOk, VerdictOk, AnswersTruthful, UpToDateSawAll,
     VerdictFresh, VerdictLasts
<1> QED
  BY <1>1, RequestsInvariant, PTL

-----------------------------------------------------------------------------
(***************************************************************************)
(* FullMiner.                                                              *)
(***************************************************************************)
Chains == Seq(1..MaxBlocks)

(* Two chains have a longest common prefix.                                *)
LEMMA CommonIs ==
  ASSUME NEW a \in Chains, NEW b \in Chains
  PROVE  Common(a, b) \in Nat
<1> DEFINE P == CommonPrefixes({a, b})
           lens == {Len(p) : p \in P}
           c == Len(a) + Len(b)
<1>1. a \in Seq(1..MaxBlocks) /\ b \in Seq(1..MaxBlocks) /\ Len(a) \in Nat /\ Len(b) \in Nat
  BY DEF Chains
<1>2. ASSUME NEW p \in P PROVE Len(p) \in Nat /\ Len(p) <= c
  <2>1. PICK s \in {a, b} : p \in Prefixes(s)
    BY DEF CommonPrefixes
  <2>2. PICK l \in 0..Len(s) : p = SubSeq(s, 1, l)
    BY <2>1 DEF Prefixes
  <2>3. Len(p) = l
    BY <1>1, <2>1, <2>2
  <2> QED
    BY <1>1, <2>1, <2>2, <2>3
<1>3. SubSeq(a, 1, 0) \in P
  <2>1. SubSeq(a, 1, 0) \in Prefixes(a)
    BY <1>1 DEF Prefixes
  <2>2. SubSeq(a, 1, 0) = <<>> /\ SubSeq(b, 1, 0) = <<>> /\ Len(<<>>) = 0
    BY <1>1
  <2>3. SubSeq(<<>>, 1, 0) = <<>>
    OBVIOUS
  <2>4. IsPrefix(<<>>, a) /\ IsPrefix(<<>>, b)
    BY <1>1, <2>2, <2>3 DEF IsPrefix
  <2> QED
    BY <2>1, <2>2, <2>4 DEF CommonPrefixes
<1> HIDE DEF P
<1>4. lens \subseteq Nat /\ lens # {} /\ c \in Nat /\ \A k \in lens : k <= c
  <2>1. c \in Nat
    BY <1>1
  <2> HIDE DEF c
  <2>2. ASSUME NEW k \in lens PROVE k \in Nat /\ k <= c
    <3>1. PICK p \in P : k = Len(p)
      BY <2>2
    <3> QED
      BY <1>2, <3>1
  <2> QED
    BY <1>3, <2>1, <2>2
<1>5. \E m \in lens : \A k \in lens : k <= m
  <2> HIDE DEF lens, c
  <2> QED
    BY <1>4, GreatestElement
<1>6. \E longest \in P : \A other \in P : Len(other) <= Len(longest)
  BY <1>5
<1>7. LongestCommonPrefix({a, b}) \in P
  BY <1>6 DEF LongestCommonPrefix, P
<1> QED
  BY <1>2, <1>7 DEF Common

LEMMA StartOfSeq ==
  ASSUME NEW T, NEW s \in Seq(T), NEW m \in Nat, m <= Len(s)
  PROVE  SubSeq(s, 1, m) \in Seq(T)
OBVIOUS

(* What a session transfers is a chain, and so is what the node adopts.    *)
LEMMA TransferIs ==
  ASSUME NEW a \in Chains, NEW b \in Chains, NEW n \in Nat
  PROVE  Offered(a, b, n) \in Chains /\ Adopt(a, Offered(a, b, n)) \in Chains
<1> DEFINE S == {Common(a, b) + n, Len(b)}
<1>1. b \in Seq(1..MaxBlocks) /\ Len(b) \in Nat
  BY DEF Chains
<1>2. S \subseteq Nat /\ S # {} /\ \A k \in S : k \in Nat
  BY <1>1, CommonIs
<1> DEFINE m == Min(S)
<1>3. m \in S /\ m \in Nat /\ m <= Len(b)
  <2>1. \E l \in S : \A k \in S : l <= k
    <3> HIDE DEF S
    <3> QED
      BY <1>2, LeastElement
  <2>2. m \in S /\ \A k \in S : m <= k
    <3> HIDE DEF S
    <3> QED
      BY <2>1 DEF Min
  <2>3. Len(b) \in S
    OBVIOUS
  <2> HIDE DEF m, S
  <2> QED
    BY <1>2, <2>2, <2>3
<1>4. Offered(a, b, n) = SubSeq(b, 1, m)
  BY DEF Offered
<1> HIDE DEF m, S
<1>5. SubSeq(b, 1, m) \in Seq(1..MaxBlocks)
  BY <1>1, <1>3, StartOfSeq
<1> QED
  BY <1>4, <1>5 DEF Adopt, Chains

LEMMA TipAfterAppend ==
  ASSUME NEW c \in Chains, NEW b \in 1..MaxBlocks
  PROVE  Append(c, b) \in Chains /\ TipOf(Append(c, b)) = b
<1>1. c \in Seq(1..MaxBlocks)
  BY DEF Chains
<1>2. Append(c, b) \in Seq(1..MaxBlocks) /\ Append(c, b) # <<>>
  BY <1>1
<1>3. Append(c, b)[Len(Append(c, b))] = b
  BY <1>1
<1> QED
  BY <1>2, <1>3 DEF Chains, TipOf, Last

-----------------------------------------------------------------------------
Working == {"mine", "search", "found", "relay", "stop_poller"}
Before == {"sync", "contact", "pull", "retry", "spawn_poller"}

(* The chains are sequences of block numbers, every block counted was the  *)
(* tip, and where the main thread is tells which services run: the poller  *)
(* only while mining, and before it nothing has been given to a GPU.       *)
FullMinerInv ==
    /\ active \in Chains /\ remote \in [Configured -> Chains] /\ last_mined \in 0..MaxBlocks
    /\ found = tips
    /\ pc \in Working \union Before \union {"stop_inbound", "exited"}
    /\ poller => pc \in Working
    /\ pc \in Before => parent = 0
    /\ pc # "exited" => inbound = "runs"
    /\ pc = "exited" => inbound # "runs" /\ (parent # 0 => inbound = "joined")

LEMMA FullMinerInitInv == FullMinerInit => FullMinerInv
<1> SUFFICES ASSUME FullMinerInit PROVE FullMinerInv
  OBVIOUS
<1>1. active \in Chains /\ remote \in [Configured -> Chains]
  BY FullMinerAssumption DEF FullMinerInit, Chains
<1>2. last_mined \in 0..MaxBlocks
  <2> DEFINE S == {0} \cup (UNION {Range(c) : c \in Start})
  <2>1. ASSUME NEW c \in Start PROVE Range(c) \subseteq 0..MaxBlocks
    <3>1. c \in Seq(1..MaxBlocks)
      BY FullMinerAssumption
    <3> QED
      BY <3>1, FullMinerAssumption DEF Range
  <2>2. S \subseteq 0..MaxBlocks /\ S # {} /\ MaxBlocks \in Nat
    BY <2>1, FullMinerAssumption
  <2>3. last_mined = Max(S)
    BY DEF FullMinerInit
  <2> HIDE DEF S
  <2> QED
    BY <2>2, <2>3, MaxIs
<1>3. /\ pc \in {"mine", "sync"} /\ parent = 0 /\ found = {} /\ tips = {}
      /\ inbound = "runs" /\ poller = FALSE
  BY DEF FullMinerInit
<1> QED
  BY <1>1, <1>2, <1>3 DEF FullMinerInv, Working, Before

(* A session moves no block numbers and leaves chains chains.              *)
LEMMA TakeKeeps ==
  ASSUME FullMinerInv, NEW p \in Configured, NEW n \in Nat, Take(p, n)
  PROVE  active' \in Chains
<1>1. active \in Chains /\ remote[p] \in Chains
  BY DEF FullMinerInv
<1> QED
  BY <1>1, TransferIs DEF Take

LEMMA GiveKeeps ==
  ASSUME FullMinerInv, NEW p \in Configured, Give(p)
  PROVE  remote' \in [Configured -> Chains]
<1>1. active \in Chains /\ remote \in [Configured -> Chains] /\ PageBlocks \in Nat
  BY FullMinerAssumption DEF FullMinerInv
<1> DEFINE new == Adopt(remote[p], Offered(remote[p], active, PageBlocks))
<1>2. new \in Chains
  BY <1>1, TransferIs
<1>3. remote' = remote \/ remote' = [remote EXCEPT ![p] = new]
  BY DEF Give
<1> HIDE DEF new
<1> QED
  BY <1>1, <1>2, <1>3

(* A step that moves only the main thread among places where the same      *)
(* services run.                                                           *)
Moves(from, to) ==
    /\ pc \in from /\ pc' \in to
    /\ UNCHANGED <<active, remote, last_mined, found, tips, inbound, poller>>

LEMMA MainMoves ==
  ASSUME FullMinerInv,
         \/ Moves(Before, Before \union {"stop_inbound"}) /\ parent' = parent
         \/ Moves(Working, Working)
  PROVE  FullMinerInv'
BY DEF FullMinerInv, Moves, Working, Before

LEMMA OthersMove ==
  ASSUME FullMinerInv, active' \in Chains, remote' \in [Configured -> Chains],
         last_mined' \in 0..MaxBlocks, UNCHANGED <<tally, services, pc, parent>>
  PROVE  FullMinerInv'
BY DEF FullMinerInv, tally, services

LEMMA StayPut ==
  ASSUME FullMinerInv
  PROVE  active \in Chains /\ remote \in [Configured -> Chains] /\ last_mined \in 0..MaxBlocks
BY DEF FullMinerInv

(* A step of anyone else leaves the main thread and its services alone.    *)
LEMMA OthersInv ==
  ASSUME FullMinerInv,
         \/ CtrlC
         \/ \E p \in Configured : PollPull(p) \/ PollRelay(p) \/ PeerSubmits(p)
                                  \/ PeerMines(p) \/ PeerFlips(p)
  PROVE  FullMinerInv'
<1> USE DEF peers, own, sync
<1>1. CASE CtrlC
  BY <1>1, StayPut, OthersMove DEF CtrlC
<1>2. CASE \E p \in Configured : PollPull(p) \/ PollRelay(p) \/ PeerSubmits(p)
                                 \/ PeerMines(p) \/ PeerFlips(p)
  <2>1. PICK p \in Configured : \/ PollPull(p) \/ PollRelay(p) \/ PeerSubmits(p)
                                \/ PeerMines(p) \/ PeerFlips(p)
    BY <1>2
  <2>2. CASE PollPull(p)
    <3>1. active' \in Chains
      BY <2>2, TakeKeeps, FullMinerAssumption DEF PollPull
    <3> QED
      BY <2>2, <3>1, StayPut, OthersMove DEF PollPull
  <2>3. CASE PollRelay(p)
    <3>1. remote' \in [Configured -> Chains]
      BY <2>3, GiveKeeps DEF PollRelay
    <3> QED
      BY <2>3, <3>1, StayPut, OthersMove DEF PollRelay
  <2>4. CASE PeerSubmits(p)
    <3>1. active' \in Chains
      BY <2>4, TakeKeeps DEF PeerSubmits
    <3> QED
      BY <2>4, <3>1, StayPut, OthersMove DEF PeerSubmits
  <2>5. CASE PeerMines(p)
    <3>1. last_mined' \in 1..MaxBlocks
      BY <2>5, StayPut, FullMinerAssumption DEF PeerMines
    <3>2. remote[p] \in Chains /\ last_mined + 1 \in 1..MaxBlocks
      BY <2>5, <3>1, StayPut DEF PeerMines
    <3> DEFINE new == Append(remote[p], last_mined + 1)
    <3>3. new \in Chains /\ remote' = [remote EXCEPT ![p] = new]
      BY <2>5, <3>2, TipAfterAppend DEF PeerMines
    <3> HIDE DEF new
    <3>4. remote' \in [Configured -> Chains]
      BY <3>3, StayPut
    <3>5. last_mined' \in 0..MaxBlocks
      BY <3>1
    <3> QED
      BY <2>5, <3>4, <3>5, StayPut, OthersMove DEF PeerMines
  <2>6. CASE PeerFlips(p)
    BY <2>6, StayPut, OthersMove DEF PeerFlips
  <2> QED
    BY <2>1, <2>2, <2>3, <2>4, <2>5, <2>6
<1> QED
  BY <1>1, <1>2

(* Synchronization before mining.                                          *)
LEMMA SynchronizeInv ==
  ASSUME FullMinerInv,
         \/ SyncRound \/ SpawnPoller \/ NoneReachable \/ Retry
         \/ \E p \in Configured : SessionFails(p) \/ Hello(p) \/ PullSession(p)
  PROVE  FullMinerInv'
<1> USE DEF peers, own, sync, tally, services
<1>1. CASE SyncRound
  <2>1. Moves(Before, Before \union {"stop_inbound"}) /\ parent' = parent
    BY <1>1 DEF SyncRound, Exit, Moves, Before
  <2> QED
    BY <2>1, MainMoves
<1>2. CASE NoneReachable \/ Retry \/ \E p \in Configured : SessionFails(p) \/ Hello(p)
  <2>1. Moves(Before, Before \union {"stop_inbound"}) /\ parent' = parent
    BY <1>2 DEF NoneReachable, Retry, SessionFails, Hello, Moves, Before
  <2> QED
    BY <2>1, MainMoves
<1>3. CASE \E p \in Configured : PullSession(p)
  <2>1. PICK p \in Configured : PullSession(p)
    BY <1>3
  <2>2. active' \in Chains
    BY <2>1, TakeKeeps, FullMinerAssumption DEF PullSession
  <2>3. /\ pc = "pull" /\ pc' \in {"spawn_poller", "sync"}
        /\ UNCHANGED <<remote, last_mined, found, tips, inbound, poller, parent>>
    BY <2>1 DEF PullSession
  <2> QED
    BY <2>2, <2>3 DEF FullMinerInv, Working, Before
<1>4. CASE SpawnPoller
  <2>1. /\ UNCHANGED <<active, remote, last_mined, found, tips, parent>>
        /\ pc = "spawn_poller"
        /\ \/ pc' = "mine" /\ poller' = TRUE /\ inbound' = inbound
           \/ pc' = "exited" /\ inbound' = "told" /\ poller' = poller
    BY <1>4 DEF SpawnPoller
  <2> QED
    BY <2>1 DEF FullMinerInv, Working, Before
<1> QED
  BY <1>1, <1>2, <1>3, <1>4

(* Mining: a block is counted under the lock that compares the tip.        *)
LEMMA SubmitFoundInv ==
  ASSUME FullMinerInv, SubmitFound
  PROVE  FullMinerInv'
<1> USE DEF peers, own, sync, tally, services
<1> DEFINE b == last_mined + 1
<1>1. active \in Chains /\ b \in 1..MaxBlocks
  BY StayPut, FullMinerAssumption DEF SubmitFound
<1>2. active' = Append(active, b)
  BY DEF SubmitFound, StillCurrent
<1>3. active' \in Chains /\ TipOf(active') = b
  BY <1>1, <1>2, TipAfterAppend
<1>4. found' = found \cup {b} /\ tips' = tips \cup ({b} \cap {TipOf(active')})
  BY DEF SubmitFound
<1>5. /\ last_mined' \in 0..MaxBlocks /\ pc = "found" /\ pc' = "relay"
      /\ UNCHANGED <<remote, inbound, poller, parent>>
  BY <1>1 DEF SubmitFound
<1> HIDE DEF b
<1>6. found' = tips'
  BY <1>3, <1>4 DEF FullMinerInv
<1> QED
  BY <1>3, <1>5, <1>6 DEF FullMinerInv, Working, Before

LEMMA MiningInv ==
  ASSUME FullMinerInv,
         \/ BuildJob \/ Discard \/ SubmitFound
         \/ SubmitFails \/ RelayDone \/ StopPoller \/ StopInbound
         \/ SearchReturns \/ \E p \in Configured : RelayTo(p)
  PROVE  FullMinerInv'
<1> USE DEF peers, own, sync, tally, services
<1>1. CASE BuildJob \/ Discard \/ SubmitFails \/ RelayDone
  <2>1. Moves(Working, Working)
    BY <1>1 DEF BuildJob, Discard, SubmitFails, RelayDone, Moves, Working
  <2> QED
    BY <2>1, MainMoves
<1>2. CASE SearchReturns
  <2>1. Moves(Working, Working)
    BY <1>2 DEF SearchReturns, SearchShutdown, SearchStale, SearchFound, SearchFails,
                SearchEnds, Moves, Working
  <2> QED
    BY <2>1, MainMoves
<1>3. CASE SubmitFound
  BY <1>3, SubmitFoundInv
<1>4. CASE \E p \in Configured : RelayTo(p)
  <2>1. PICK p \in Configured : RelayTo(p)
    BY <1>4
  <2>2. remote' = remote \/ Give(p)
    BY <2>1 DEF RelayTo
  <2>3. remote' \in [Configured -> Chains]
    BY <2>2, GiveKeeps, StayPut
  <2>4. UNCHANGED <<active, last_mined, found, tips, inbound, poller, pc, parent>>
    BY <2>1 DEF RelayTo
  <2> QED
    BY <2>3, <2>4, StayPut, OthersMove
<1>5. CASE StopPoller
  <2>1. /\ UNCHANGED <<active, remote, last_mined, found, tips, inbound, parent>>
        /\ pc = "stop_poller" /\ pc' = "stop_inbound" /\ poller' = FALSE
    BY <1>5 DEF StopPoller
  <2> QED
    BY <2>1 DEF FullMinerInv, Working, Before
<1>6. CASE StopInbound
  <2>1. /\ UNCHANGED <<active, remote, last_mined, found, tips, poller, parent>>
        /\ pc = "stop_inbound" /\ pc' = "exited" /\ inbound' = "joined"
    BY <1>6 DEF StopInbound
  <2> QED
    BY <2>1 DEF FullMinerInv, Working, Before
<1> QED
  BY <1>1, <1>2, <1>3, <1>4, <1>5, <1>6

LEMMA FullMinerNextInv == FullMinerInv /\ [FullMinerNext]_fullMinerVars => FullMinerInv'
<1> SUFFICES ASSUME FullMinerInv, [FullMinerNext]_fullMinerVars PROVE FullMinerInv'
  OBVIOUS
<1>1. CASE UNCHANGED fullMinerVars
  <2>1. UNCHANGED <<active, remote, last_mined, found, tips, inbound, poller, pc, parent>>
    BY <1>1 DEF fullMinerVars, peers, own, tally, services
  <2> QED
    BY <2>1 DEF FullMinerInv
<1>2. CASE FullMinerNext
  BY <1>2, OthersInv, SynchronizeInv, MiningInv DEF FullMinerNext, Main
<1> QED
  BY <1>1, <1>2

(* The invariant of the full-node miner.                                   *)
THEOREM FullMinerInvariant == FullMinerSpec => []FullMinerInv
BY FullMinerInitInv, FullMinerNextInv, PTL DEF FullMinerSpec

(* For any peers, chains and page size: a block counted as found became    *)
(* the node's tip, and every way out leaves no poller or listener running. *)
THEOREM MinerAccounted == FullMinerSpec => []MinerAccountable
<1>1. FullMinerInv => MinerAccountable
  BY DEF FullMinerInv, MinerAccountable, CountedBlocksWereTips, ExitIsQuiet, Working, Before
<1> QED
  BY <1>1, FullMinerInvariant, PTL
=============================================================================
