SPECIFICATION LiveSpec
CONSTANTS
    p1 = p1
    p2 = p2
    Page = {p1, p2}
    MaxVersion = 2
    None = None
    Faults = {"install", "asset"}
INVARIANTS TypeOK OfferBacked CheckBacked
PROPERTIES  UpdateReaches
