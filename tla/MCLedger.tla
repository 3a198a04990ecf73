------------------------------ MODULE MCLedger -------------------------------
(***************************************************************************)
(* A catalogue of transactions for Ledger: ordinary spends, a chain of two *)
(* in one block, two fundings of one channel, its settlement, refund and   *)
(* reopening, and transactions each of which one rule alone rejects.       *)
(***************************************************************************)
EXTENDS Ledger

MCPolicy == [initial_subsidy |-> 8, tail_height |-> 3, tail_subsidy |-> 2,
             steward_percent |-> 25, community_percent |-> 25]

MCTerms == [c \in {"c"} |-> [customer |-> "s", provider |-> "p", deposit |-> 2,
                             refund_height |-> 3, close_fee |-> 1]]

(* The first block of a chain: miner 4, steward 2, community 2. *)
FirstBlock(proof) ==
    [height |-> 1, previous |-> Genesis, timestamp |-> 1, target |-> 8, txids |-> <<>>,
     coinbase |-> <<Output(4, KeyLock("m"), 3), Output(2, KeyLock("s"), 1),
                    Output(2, KeyLock("s"), 1)>>,
     proof |-> proof, sound |-> TRUE]
CoinbaseOut(proof, i) == <<OfCoinbase(FirstBlock(proof)), i>>
TransactionOut(txid, i) == <<OfTransaction(txid), i>>
MinerOut == CoinbaseOut(0, 0)
StewardOut == CoinbaseOut(0, 1)
CommunityOut == CoinbaseOut(0, 2)

Signed(o, key, signer) ==
    [previous |-> o, witness |-> [kind |-> "key", key |-> key, signer |-> signer, payment |-> 0]]
By(o, key) == Signed(o, key, key)
Settle(o, c, pay) ==
    [previous |-> o, witness |-> [kind |-> "settlement", key |-> c, signer |-> "both",
                                  payment |-> pay]]
Refund(o, c) ==
    [previous |-> o, witness |-> [kind |-> "refund", key |-> c, signer |-> "", payment |-> 0]]
Transaction(ins, outs) == [inputs |-> ins, outputs |-> outs, sound |-> TRUE]
Pay(value, key) == Output(value, KeyLock(key), 2)
Fund(value, c) == Output(value, ChannelLock(c), 2)

MCTx == <<
    Transaction(<<By(StewardOut, "s")>>, <<Pay(1, "p"), Pay(1, "s")>>),
    Transaction(<<By(TransactionOut(1, 0), "p"), By(TransactionOut(1, 1), "s")>>, <<Pay(1, "p")>>),
    Transaction(<<By(StewardOut, "s")>>, <<Fund(2, "c")>>),
    Transaction(<<By(CommunityOut, "s")>>, <<Fund(2, "c")>>),
    Transaction(<<Settle(TransactionOut(3, 0), "c", 1)>>, <<Pay(1, "p")>>),
    Transaction(<<Refund(TransactionOut(3, 0), "c")>>, <<Output(1, KeyLock("s"), 3)>>),
    Transaction(<<By(CommunityOut, "s"), By(CommunityOut, "s")>>, <<Pay(4, "p")>>),
    Transaction(<<By(CommunityOut, "s")>>, <<Pay(15, "p"), Pay(2, "p")>>),
    Transaction(<<By(MinerOut, "m")>>, <<Pay(3, "p")>>),
    Transaction(<<By(CoinbaseOut(1, 1), "s")>>, <<Pay(2, "p")>>),
    Transaction(<<By(MinerOut, "m")>>, <<Fund(2, "c"), Pay(2, "p")>>),
    Transaction(<<Signed(CommunityOut, "p", "p")>>, <<Pay(2, "p")>>),
    Transaction(<<Refund(CommunityOut, "c")>>, <<Pay(1, "s")>>)
    >>

(* The catalogue spends from blocks that can be mined.                     *)
ASSUME FirstBlockIsCandidate ==
    \A proof \in {0, 1} : FirstBlock(proof) \in Candidates(NewChainState, <<>>)
=============================================================================
