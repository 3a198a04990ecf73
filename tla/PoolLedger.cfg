\* More sessions and payout labels than the ledger keeps.
SPECIFICATION Spec
SYMMETRY Symmetry
CONSTANTS
    Conns = {c1, c2, c3}
    Payouts = {p1, p2, p3}
    Nonces = {low, s1, s2}
    ShareNonces = {s1, s2}
    BlockNonces = {}
    MaxConnections = 2
    MaxMessages = 1
    MaxSharesPerJob = 1
    MaxLedgerSessions = 2
    MaxLedgerPayouts = 2
    MaxSessions = 4
    MaxTip = 0
    NoPayout = NoPayout
INVARIANTS
    CreditedOnce
    RecordsSound
CHECK_DEADLOCK FALSE
