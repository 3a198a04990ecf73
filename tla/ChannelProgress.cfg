\* Whether a cooperative session gets past its second chunk.
SPECIFICATION SessionSpec
CONSTANTS
    None = None
    Deposit = 6
    BasePrice = 1
    InputPricePer1000 = 400
    OutputPricePer1000 = 600
    OutputChunkTokens = 1
    MaxInputTokens = 1
    MaxOutputTokens = 3
    CloseFeeBurn = 1
    RefundHeight = 2
    MaxSequence = 2
    MaxSigned = 2
    MaxHeight = 3
PROPERTY
    SessionCompletes
CHECK_DEADLOCK FALSE
