\* Liveness: three threads, one path per shard, no lost references and enough
\* heap cells that calloc fails only by choice.
CONSTANTS
    p1 = p1
    p2 = p2
    s1 = s1
    Threads = {t1, t2, t3}
    Paths = {p1}
    Shards = {s1}
    Entries = {e1, e2}
    ShardOf <- OnePath
    MaxRefs = 3
    MaxLeaks = 0
    NoThread = NoThread
    NoEntry = NoEntry
SPECIFICATION FairSpec
PROPERTIES WaitersProgress
