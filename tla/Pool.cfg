\* Two sessions race shares and blocks of the same jobs; the server stops
\* at every point of their loops.
SPECIFICATION FairSpec
CONSTANTS
    Conns = {c1, c2}
    Payouts = {p}
    Nonces = {b1, b2}
    ShareNonces = {b1, b2}
    BlockNonces = {b1, b2}
    MaxConnections = 2
    MaxMessages = 1
    MaxSharesPerJob = 1
    MaxLedgerSessions = 2
    MaxLedgerPayouts = 2
    MaxSessions = 2
    MaxTip = 2
    NoPayout = NoPayout
INVARIANTS
    OneBlockPerJob
PROPERTIES
    StaleIsRefreshed
    StopDrains
CHECK_DEADLOCK FALSE
