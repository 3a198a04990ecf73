\* Two callers of the wallet's manager; three inbound workers for two slots; two
\* RPC clients.
SPECIFICATION ServicesSpec
CONSTANTS
    Callers = {ui, exit}
    None = None
    MaxStarts = 2
    MaxShares = 2
    Workers = {11, 12, 13}
    InboundKeys = {1, 2}
    Private = {1, 2, 4, 5, 9}
    Unsafe = {8}
    PeerLists <- ConfiguredPeers
    ListenAddress = 9
    MaxPeers = 2
    MaxObserved = 3
    MaxTime = 1
    Clients = {1, 2}
    Requests <- RpcRequests
    HeaderLimit = 4
    ChunkBytes = 2
    BlockLimit = 3
    TransactionLimit = 2
    WalletLimit = 1
    ReadTimeout = 2
    TotalTimeout = 3
    WriteTimeout = 1
    Window = 1
INVARIANTS
    WorkerAccounted
    ConnectionsAccounted
    RpcSound
PROPERTIES
    ShutdownIsFinal
    RequestsAnswered
CHECK_DEADLOCK FALSE
