SPECIFICATION Spec
CONSTANTS
    kiosk = kiosk
    office = office
    h1 = h1
    h2 = h2
    meat = meat
    dairy = dairy
    beef = beef
    milk = milk
    ana = ana
    ben = ben
    eva = eva
    Names <- MCNames
    MaxContributors = 2
    Clients <- MCClients
    Kiosks <- MCKiosks
    Handlers <- MCHandlers
    Suppliers <- MCSuppliers
    Products <- MCProducts
    SupplierOf <- MCSupplierOf
    Catalogs <- MCCatalogs
    Quantity <- MCQuantity
    SignedIn <- MCSignedIn
    MaxPosts = 4
    MaxEvents = 2
INVARIANTS
    TypeOK
    NobodyRevivesAnOrder
    DoubledOnlyAfterError
PROPERTIES
    MergeConserves
    OwnQuantitiesCount
    SavedMeansCounted
CHECK_DEADLOCK FALSE
SYMMETRY MCSymmetry
