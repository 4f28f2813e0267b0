SPECIFICATION LiveSpec
CONSTANTS
    Tab = {t1, t2}
    Order <- MCOrder
    Seed <- MCSeed
    Attended = "attended"
    Key <- MCKey
    Show <- MCShow
    Old = Old
    New = New
    NoRow = NoRow
    Index <- MCIndex
    Batch = 3
    Previous <- MCPrevious
    Release <- MCRelease
    Faults = {"fail", "crash"}
INVARIANTS TypeOK OldShowsKept MarkerMeansCopied LargeStoresStay
PROPERTIES OnlyBlocksRemain ImplementsCutover
