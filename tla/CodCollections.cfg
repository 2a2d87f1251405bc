SPECIFICATION FairSpec
CONSTANTS
    d1 = d1  d2 = d2  o1 = o1
    Drivers = {d1, d2}
    Offices = {o1}
    Shipments = {s1, s2}
    Unloaded = {s1}
    Keys = {k1, k2}
    Staged = {0, 2}
    Sent = {0, 1}
    Postings <- CreditOrDebit
    Due = 1
    Nobody = nobody
    Nothing = nothing
    MaxStaging = 1
    MaxWallets = 1
    MaxEntries = 2
INVARIANTS TypeOK LoggedIsCredited CollectedOnce PaidAsStaged PaidInFull
PROPERTIES PostingSums EveryTransactionEnds
CHECK_DEADLOCK FALSE
