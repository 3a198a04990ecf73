\* The ledger, headers, the wallet, the data directory, the thin miner.
SPECIFICATION StateSpec
CONSTANTS
    Tx <- MCTx
    Terms <- MCTerms
    Miners = {"m"}
    Steward = "s"
    Community = "s"
    Policy <- MCPolicy
    CoinbaseMaturity = 2
    MaxAmount = 15
    MaxInputs = 2
    MaxOutputs = 2
    MaxBlockTxs = 2
    MaxBlockInputs = 3
    MaxBlockOutputs = 3
    MaxCoinbaseOutputs = 3
    MaxSignatureChecks = 3
    MedianTimeWindow = 3
    MaxFutureOffset = 1
    Spacing = 3
    DgwWindow = 4
    PowLimit = 8
    GenesisTime = 0
    Now = 20
    HashSpace = 9
    MaxWork = 1000
    MaxHeight = 3
    Clock = {1, 4, 9}
    MaxLength = 6
    Processes = {"p1", "p2"}
    RandomKeys = {3, 4}
    MaxCrashes = 3
    Devices = {gpu0, gpu1}
    MaxJobs = 2
    MaxTip = 2
INVARIANTS
    StateTypeOK
    LedgerIsReplay
    LedgerConserved
    HeadersGoOn
    WalletSound
    DirectorySound
    CountedBlocksLanded
\* Bounds on heights, jobs and crashes end every behaviour.
CHECK_DEADLOCK FALSE
