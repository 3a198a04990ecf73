\* Fork choice, mempool and crash recovery of one node.
SPECIFICATION Spec
CONSTANTS
    Genesis = Genesis
    g1 = g1
    a2 = a2
    a3 = a3
    b2 = b2
    c2 = c2
    None = None
    Blocks <- MCBlocks
    Parent <- MCParent
    BlockHeight <- MCBlockHeight
    Stamp <- MCStamp
    BlockWork <- MCBlockWork
    PathTo <- MCPathTo
    TotalWork <- MCTotalWork
    StateAt <- MCStateAt
    Txs <- MCTxs
    Inputs <- MCInputs
    SpendableHeight <- MCSpendableHeight
    BlockTxs <- MCBlockTxs
    TxBytes <- MCTxBytes
    Sound <- MCBlocks
    CoinbaseMaturity = 1
    MaxFutureOffset = 1
    MedianTimeWindow = 3
    MaxBlockInputs = 2
    Times = {1, 2}
    PaysRelayFee = {1, 2, 3, 4}
    MaxMempoolTransactions = 3
    MaxMempoolBytes = 3
    MaxCrashes = 2
INVARIANTS
    TypeOK
    TipHasMostWork
    ForkIndexSound
    AckedNeverLost
    OnlyTornLogFails
    MempoolSound
    MempoolIndependent
PROPERTIES
    TipOnlyImproves
    FaultedIsFrozen
    DurableBestChain
\* A node with nothing left to receive idles.
CHECK_DEADLOCK FALSE
