SPECIFICATION CalmSpec
CONSTANTS
    Tab = {t1, t2}
    MaxVersion = 2
    Store <- MCStore
    Key <- MCKey
    File <- MCFile
    StoreOf <- MCStoreOf
    Work <- MCWork
    Rows <- MCRows
    Index <- MCIndex
    ClearOrder <- MCClearOrder
    Checked <- MCStore
    DefaultChunk = 1
    LargeChunk = 2
    LargeThreshold = 4
    CheckpointInterval = 2
    AdaptiveInterval = 2
    TxBatch = 1
    AdaptiveChunks = {1, 2}
    AdaptiveTx = {1}
INVARIANT ReadyHasRows
