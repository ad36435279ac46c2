CONSTANTS
    corn = corn
    cola = cola
    Products = {corn, cola}
    DaysInWeek = 2
    SlotsPerDay = 4
    BUSINESS_DAY_START = 1
    Shops <- TwoShops
    Offers <- OneOffer
    maxTxnLimit = 1
    Visits <- TwoVisits
    MaxPieces = 2
    MaxUnderWay = 2
    MaxChanges = 2
    None = None
SPECIFICATION Spec
CHECK_DEADLOCK FALSE
INVARIANTS
    TypeOK
    CapBoundsRedemptions
    WriterAndReaderAgree
PROPERTIES
    CardIsBill
