\* How far ahead of its receipts a library customer can authorize.
SPECIFICATION Spec
CONSTANTS
    None = None
    Deposit = 6
    BasePrice = 1
    InputPricePer1000 = 400
    OutputPricePer1000 = 600
    OutputChunkTokens = 2
    MaxInputTokens = 1
    MaxOutputTokens = 4
    CloseFeeBurn = 1
    RefundHeight = 2
    MaxSequence = 2
    MaxSigned = 0
    MaxHeight = 3
INVARIANT
    OneChunkAhead
CHECK_DEADLOCK FALSE
