\* Forks of one to five blocks, mining and drops during sessions, small bounds.
SPECIFICATION PeersSpec
CONSTANTS
    A = A
    B = B
    NoPrevious = NoPrevious
    Nodes <- MCNodes
    Genesis = 0
    Blocks <- MCBlocks
    Parent <- MCParent
    BlockHeight <- MCBlockHeight
    Stamp <- MCBlockHeight
    BlockWork <- MCBlockWork
    PathTo <- MCPathTo
    TotalWork <- MCTotalWork
    StartTip <- MCStartTip
    Peers <- BothWays
    LengthA = 2
    LengthB = 5
    MinedA = 1
    MinedB = 3
    MaxBlocksPerSync = 4
    LocatorDense = 1
    MaxDrops = 1
    Txs = {1, 2, 3}
    MaxPerSync = 2
    MaxTip = 1
    MaxLost = 1
    MaxRestarts = 2
    PeerList <- MCPeerList
    Start <- MCStart
    PageBlocks = 2
    MaxBlocks = 5
    MaxFlips = 1
INVARIANTS
    SyncSound
    AnswersTruthful
    MinerAccountable
PROPERTIES
    EventuallyDone
CHECK_DEADLOCK FALSE
