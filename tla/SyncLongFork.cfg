\* The bounds of the code and a fork one block longer than one request.
SPECIFICATION FairSpec
CONSTANTS
    A = A
    B = B
    NoPrevious = NoPrevious
    Nodes <- MCNodes
    Genesis = 0
    Blocks <- MCBlocks
    Parent <- MCParent
    BlockHeight <- MCBlockHeight
    Stamp <- MCBlockHeight
    BlockWork <- MCBlockWork
    PathTo <- MCPathTo
    TotalWork <- MCTotalWork
    StartTip <- MCStartTip
    Peers <- OneSided
    LengthA = 16
    LengthB = 17
    MinedA = 16
    MinedB = 17
    MaxBlocksPerSync = 16
    LocatorDense = 10
    MaxDrops = 0
PROPERTY
    Converges
