SPECIFICATION Spec
CONSTANTS
    r1 = r1
    r2 = r2
    r3 = r3
    customer = customer
    deal = deal
    warehouse = warehouse
    Any = Any
    None = None
    WmsUnit = "HQ-WMS"
    Requests = {r1, r2, r3}
    Units = {"HQ-SALES", "HQ-WMS", "GONE"}
    Existing = {"HQ-SALES", "HQ-WMS"}
    Stages = {"new", "won"}
    Stores = {"MAIN", "SIDE"}
    Skus = {"bolt"}
    Sendings <- MCSendings
    InitialCustomers <- MCCustomers
    InitialDeals <- MCDeals
    InitialWarehouses <- MCWarehouses
SYMMETRY Others
INVARIANTS
    TypeOK
    ShownInScope
    HistoryIsTrue
PROPERTIES
    ChangesStayInScope
    StockGoesWhereChecked
CHECK_DEADLOCK FALSE
