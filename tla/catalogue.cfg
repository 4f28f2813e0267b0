SPECIFICATION Spec
CONSTANTS
    Stores = 3
    Name = {1, 2, 3}
    NameOf <- MCNameOf
    NameScore <- MCNameScore
    AddressScore <- MCAddressScore
    Strain = {"kush", "haze"}
    Kind = {"eighth"}
    MaxPrice = 2
    Known <- MCKnown
    FloorStores = 3
    FloorProducts = 4
    StoreRatio = 60
    ProductRatio = 55
    StoreDrop = 2
    ProductDrop = 2
    MaxOffers = 2
INVARIANTS TypeOK HistoryIsCurrent OwnMenuWins
PROPERTIES RefreshKeepsPrices
