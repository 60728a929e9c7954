SPECIFICATION FairSpec
CONSTANTS
    Uri = {u1}
    Task = {t1, t2}
    Lock = {l1, l2}
    MaxRevision = 3
    MaxChanges = 1
    Disk = Disk
    Null = Null
INVARIANTS TypeOK OnePublisher QuietShowsLatest
PROPERTIES NeverOlder EditsAreReported
CHECK_DEADLOCK FALSE
