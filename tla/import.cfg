SPECIFICATION LiveSpec
CONSTANTS
    Tab = {t1}
    MaxVersion = 2
    Store <- MCStore
    Key <- MCKey
    File <- MCFile
    StoreOf <- MCStoreOf
    Work <- MCWork
    Rows <- MCRows
    Index <- MCIndex
    ClearOrder <- MCClearOrder
    Checked <- MCStore
    DefaultChunk = 2
    LargeChunk = 1
    LargeThreshold = 3
    CheckpointInterval = 2
    AdaptiveInterval = 2
    TxBatch = 1
    AdaptiveChunks = {2}
    AdaptiveTx = {1}
INVARIANTS TypeOK HonestReady CheckpointCovers MarkerCovers
PROPERTY Heals
