SPECIFICATION FairSpec
CONSTANTS
    w1 = w1  w2 = w2  w3 = w3
    Writers = {w1, w2, w3}
    Checking = {w1, w2}
    RowFirst = {w1}
    RowLast = {w2}
    Free = free
    Ref <- NumericRef
    PageNumbers = {1}
    MaxTries = 2
    MaxRecords = 3
INVARIANTS TypeOK NoGaps CheckedIsFresh GivesUpOnlyIfOutrun
PROPERTY EveryWriterIsAnswered
CHECK_DEADLOCK FALSE
