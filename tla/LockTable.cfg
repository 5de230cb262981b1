\* Three threads contend for two paths that share a shard; two heap cells, so
\* a freed entry is recycled for the other path; UINT_MAX is 2.
CONSTANTS
    p1 = p1
    p2 = p2
    s1 = s1
    Threads = {t1, t2, t3}
    Paths = {p1, p2}
    Shards = {s1}
    Entries = {e1, e2}
    ShardOf <- OneShard
    MaxRefs = 2
    MaxLeaks = 1
    NoThread = NoThread
    NoEntry = NoEntry
SPECIFICATION Spec
INVARIANTS TypeOK IndInv MutualExclusion NoUseAfterFree OneEntryPerPath RefsCountUsers ReclaimedWhenUnused
PROPERTIES ImplementsPathLock
