\* A payment channel and a peer connection.
SPECIFICATION ProtocolsSpec
CONSTANTS
    None = None
    Deposit = 3
    BasePrice = 0
    InputPricePer1000 = 400
    OutputPricePer1000 = 600
    OutputChunkTokens = 1
    MaxInputTokens = 1
    MaxOutputTokens = 2
    CloseFeeBurn = 1
    RefundHeight = 2
    MaxSequence = 1
    MaxSigned = 2
    MaxHeight = 2
    Endpoints = {"a", "b"}
    Client = "a"
    LocalHellos <- Hellos
    Samples <- Messages
    MaxMessages = 5
    MaxBytes = 66
    IdleTimeout = 1
    TotalTimeout = 2
    LastSequence = 255
    MaxTime = 3
    MaxFaults = 1
    MaxTransactionBytes = 24
    MaxProofBytes = 12
    MaxBlockBytes = 48
    MaxInputs = 1
    MaxOutputs = 1
    MaxBlockTransactions = 1
    MaxCoinbaseOutputs = 1
    MaxBlockInputs = 1
    MaxBlockOutputs = 1
    MaxSignatureChecks = 2
    MaxHeaderLocators = 2
    MaxInventoryItems = 2
    EncodePayload <- EncodeMessage
    DecodePayload <- DecodeMessage
INVARIANTS
    ProtocolsTypeOK
    PayoutBalanced
    CustomerProtected
    ProviderCovered
    SessionSound
    ResourcesBounded
PROPERTIES
    AcceptedOnlyGrows
    AcceptedIsCanonical
    EveryConnectionEnds
CHECK_DEADLOCK FALSE
